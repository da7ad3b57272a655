--------------------------- MODULE PdcClientProofs ---------------------------
(***************************************************************************)
(* Proofs about the shared PDC client, for any number of threads, keys,    *)
(* instances, saves and expiries.                                          *)
(***************************************************************************)
EXTENDS PdcClient, TLAPS

\* The history variables and counters, the request fields: all stay in type.
LEMMA TypeInit == Init => TypeOK
  BY ClientAssumption DEF Init, TypeOK, Config, Methods, Fields, Points, SentPoints,
     AuthPoints, Outcomes, Strikes, Entries

\* A step of a request keeps the types.
LEMMA TypeRequest ==
  ASSUME TypeOK, NEW t \in Threads, RequestStep(t)
  PROVE  TypeOK'
<1> USE ClientAssumption DEF TypeOK, Points, SentPoints, AuthPoints, Outcomes,
        Finish, Goto, clientVars, saveVars, serverVars, clockVars, countVars
<1>1. CASE CacheHit(t)
  BY <1>1 DEF CacheHit, Fresh, Entries
<1>2. CASE CacheMiss(t)
  BY <1>2 DEF CacheMiss
<1>3. CASE ReadUrl(t)
  BY <1>3 DEF ReadUrl, Config
<1>4. CASE CheckToken(t)
  <2>1. AuthPoint \in {"fallback", "keycloak", "legacy"}
    BY DEF AuthPoint
  <2>2. CASE token # NoToken /\ Goto(t, "grab") /\ UNCHANGED <<out, answer>>
    BY <1>4, <2>2 DEF CheckToken
  <2>3. CASE Finish(t, "failed", NoHost)
    BY <1>4, <2>3 DEF CheckToken
  <2>4. CASE Goto(t, AuthPoint) /\ UNCHANGED <<out, answer>>
    <3> DEFINE point == AuthPoint
    <3>1. point \in {"fallback", "keycloak", "legacy"} /\ pc' = [pc EXCEPT ![t] = point]
      BY <2>1, <2>4
    <3> HIDE DEF point
    <3> HIDE DEF point
    <3> QED BY <1>4, <2>4, <3>1 DEF CheckToken
  <2>5. \/ token # NoToken /\ Goto(t, "grab") /\ UNCHANGED <<out, answer>>
        \/ Finish(t, "failed", NoHost)
        \/ Goto(t, AuthPoint) /\ UNCHANGED <<out, answer>>
    BY <1>4, Zenon DEF CheckToken
  <2> HIDE DEF TypeOK, Goto, Finish
  <2> QED BY <2>2, <2>3, <2>4, <2>5
<1>5. CASE KeycloakAuth(t) \/ LegacyAuth(t)
  <2> DEFINE new == [host |-> cfg.host, serial |-> serial]
  <2>1. new \in Tokens
    BY DEF Tokens, Config
  <2>2. /\ pc[t] \in SentPoints
        /\ got' = [got EXCEPT ![t] = new] /\ valid' = valid \cup {new}
        /\ serial' = serial + 1 /\ pc' = [pc EXCEPT ![t] = "keep"]
        /\ UNCHANGED <<clientVars, saveVars, key, url, attempt, bearer, out,
                       answer, clockVars, countVars>>
    BY <1>5 DEF KeycloakAuth, LegacyAuth, Login
  <2> HIDE DEF new
  <2> QED BY <2>1, <2>2
<1>6. CASE KeycloakRefused(t)
  BY <1>6 DEF KeycloakRefused
<1>7. CASE LegacyRefused(t)
  BY <1>7 DEF LegacyRefused
<1>8. CASE KeepToken(t)
  BY <1>8 DEF KeepToken
<1>9. CASE Recheck(t)
  BY <1>9 DEF Recheck
<1>10. CASE GrabToken(t)
  BY <1>10 DEF GrabToken
<1>11. CASE Send(t)
  BY <1>11 DEF Send
<1>12. CASE Fault(t)
  BY <1>12 DEF Fault, Strikes
<1>13. CASE Denied(t)
  BY <1>13 DEF Denied
<1>14. CASE Store(t)
  <2>1. pc[t] = "store" /\ pc' = [pc EXCEPT ![t] = "done"]
    BY <1>14 DEF Store
  <2>2. cache' \in [Keys -> Entries \cup {NoEntry}]
    <3>1. CASE UNCHANGED cache
      BY <3>1
    <3>2. CASE key[t] \in Keys /\ cache' = [cache EXCEPT ![key[t]] = [at |-> now, host |-> url[t]]]
      BY <1>14, <3>2 DEF Store, Entries
    <3> QED BY <1>14, <3>1, <3>2 DEF Store
  <2> QED BY <1>14, <2>1, <2>2 DEF Store
<1>15. CASE Return(t)
  BY <1>15 DEF Return
<1> QED
  BY <1>1, <1>2, <1>3, <1>4, <1>5, <1>6, <1>7, <1>8, <1>9, <1>10, <1>11, <1>12,
     <1>13, <1>14, <1>15 DEF RequestStep

\* So does a step of a save, and of the environment.
LEMMA TypeSave ==
  ASSUME TypeOK, SaveStep \/ \E c \in Saves : BeginSave(c)
  PROVE  TypeOK'
<1> USE ClientAssumption DEF TypeOK, clientVars, requestVars, serverVars, clockVars, countVars
<1>1. ASSUME NEW c \in Saves, BeginSave(c)
      PROVE  TypeOK'
  <2>1. strikes' \in [Threads -> Strikes]
    BY <1>1 DEF BeginSave, StrikeAll, Strikes
  <2>2. patch' \in Config /\ todo' \in SUBSET Fields /\ saves' \in Nat
    BY <1>1 DEF BeginSave
  <2>3. settled' = FALSE /\ saving' = "fields"
        /\ UNCHANGED <<clientVars, requestVars, serverVars, now, began, lastLive,
                       requests, expiries, faults>>
    BY <1>1 DEF BeginSave
  <2> QED BY <2>1, <2>2, <2>3
<1>2. ASSUME NEW f \in Fields, WriteField(f)
      PROVE  TypeOK'
  <2>1. cfg' \in Config /\ cfg'.host \in Hosts
    BY <1>2 DEF WriteField, Overlay, Config
  <2> QED BY <1>2, <2>1 DEF WriteField
<1>3. CASE FieldRejected
  BY <1>3 DEF FieldRejected
<1>4. CASE ResetToken
  BY <1>4 DEF ResetToken
<1>5. CASE ClearCache
  BY <1>5 DEF ClearCache, NoneLate
<1>6. CASE WriteFails
  BY <1>6 DEF WriteFails
<1> QED
  BY <1>1, <1>2, <1>3, <1>4, <1>5, <1>6 DEF SaveStep

\* A call that begins, an expiry and a tick keep the types.
LEMMA TypeEnvironment ==
  ASSUME TypeOK,
         \/ \E t \in Threads, k \in Keys \cup {NoKey} : Begin(t, k)
         \/ \E tok \in valid : Expire(tok)
         \/ Tick
  PROVE  TypeOK'
<1> USE ClientAssumption DEF TypeOK, clientVars, requestVars, saveVars, serverVars,
        clockVars, countVars, Strikes
<1>1. ASSUME NEW t \in Threads, NEW k \in Keys \cup {NoKey}, Begin(t, k)
      PROVE  TypeOK'
  BY <1>1 DEF Begin, Goto, Points, SentPoints, AuthPoints
<1>2. ASSUME NEW tok \in valid, Expire(tok)
      PROVE  TypeOK'
  BY <1>2 DEF Expire, StrikeAll
<1>3. CASE Tick
  BY <1>3 DEF Tick, Config
<1> QED
  BY <1>1, <1>2, <1>3

\* Every step keeps the types.
LEMMA TypeStep == TypeOK /\ [Next]_vars => TypeOK'
<1> SUFFICES ASSUME TypeOK, [Next]_vars
             PROVE  TypeOK'
  OBVIOUS
<1>1. CASE UNCHANGED vars
  BY <1>1 DEF vars, clientVars, saveVars, requestVars, serverVars, clockVars,
     countVars, TypeOK
<1> QED
  BY <1>1, TypeRequest, TypeSave, TypeEnvironment DEF Next

\* The client's variables keep their types, and a call that has been given its
\* URL has a real one.
THEOREM TypeCorrect == Spec => []TypeOK
  BY TypeInit, TypeStep, PTL DEF Spec


-----------------------------------------------------------------------------
\* The freshness invariant.  The steps that touch the clock, the configuration
\* or the cache are lemmas of their own; the others only move a call along.
LEMMA FreshInit == Init => FreshInv
  BY ClientAssumption DEF Init, FreshInv, ClockInv, RequestInv, CacheInv, InFlight,
     Answered, Config, SentPoints, AuthPoints

\* A tick ages what is in flight within its bound.
LEMMA FreshTick ==
  ASSUME TypeOK, FreshInv, Tick
  PROVE  FreshInv'
<1> USE DEF TypeOK, Tick, clientVars, requestVars, Config
<1>1. /\ now' = now + 1
      /\ \A h \in Hosts : lastLive'[h] >= lastLive[h] /\ lastLive'[h] <= now'
      /\ lastLive'[cfg'.host] = now'
  BY DEF FreshInv, ClockInv
<1>2. ClockInv'
  BY <1>1, ClientAssumption DEF FreshInv, ClockInv, InFlight
<1>3. RequestInv'
  BY <1>1 DEF FreshInv, RequestInv, Answered
<1>4. CacheInv'
  BY <1>1, ClientAssumption DEF FreshInv, CacheInv, Entries
<1> QED BY <1>2, <1>3, <1>4 DEF FreshInv

\* A field that is written puts another instance in force.
LEMMA FreshWriteField ==
  ASSUME TypeOK, FreshInv, NEW f \in Fields, WriteField(f)
  PROVE  FreshInv'
<1> USE DEF TypeOK, WriteField, requestVars
<1>1. cfg'.host \in Hosts
  BY DEF Overlay, Config
<1>2. /\ \A h \in Hosts : lastLive'[h] >= lastLive[h] /\ lastLive'[h] <= now
      /\ lastLive'[cfg'.host] = now
  BY <1>1 DEF FreshInv, ClockInv
<1>3. ClockInv'
  BY <1>2 DEF FreshInv, ClockInv, InFlight
<1>4. RequestInv'
  BY <1>2 DEF FreshInv, RequestInv, Answered
<1>5. CacheInv'
  BY <1>2, ClientAssumption DEF FreshInv, CacheInv, Entries
<1> QED BY <1>3, <1>4, <1>5 DEF FreshInv

\* What any step of a request does to the clock and the configuration: nothing;
\* and it starts no new call.
LEMMA RequestFrame ==
  ASSUME TypeOK, NEW t \in Threads, RequestStep(t)
  PROVE  /\ UNCHANGED <<cfg, now, began, lastLive>>
         /\ \A u \in Threads \ {t} :
               /\ pc'[u] = pc[u] /\ url'[u] = url[u]
               /\ out'[u] = out[u] /\ answer'[u] = answer[u]
         /\ InFlight(t)' => InFlight(t)
  BY DEF RequestStep, CacheHit, CacheMiss, ReadUrl, CheckToken, KeycloakAuth, LegacyAuth,
     Login, KeycloakRefused, LegacyRefused, KeepToken, Recheck, GrabToken, Send, Fault,
     Denied, Store, Return, Goto, Finish, InFlight, TypeOK, Points, clientVars, clockVars

\* How a step of a request may move it: on along the call, to its URL, to one
\* of the three ends, or out of the handler.
Moves(t) ==
    /\ InFlight(t)
    /\ url' = url /\ out' = out /\ answer' = answer
    /\ \/ pc[t] = "lookup" /\ pc'[t] = "url"
       \/ pc[t] \in SentPoints /\ pc'[t] \in SentPoints
TakesUrl(t) ==
    /\ pc[t] = "url" /\ pc'[t] = "check"
    /\ url'[t] = cfg.host /\ out' = out /\ answer' = answer
Ends(t) ==
    /\ InFlight(t) /\ pc'[t] = "done" /\ url' = url
    /\ \/ /\ out'[t] = "hit" /\ Fresh(key[t])
          /\ answer' = [answer EXCEPT ![t] = cache[key[t]].host]
       \/ /\ out'[t] = "fetched" /\ pc[t] = "store"
          /\ answer' = [answer EXCEPT ![t] = url[t]]
       \/ /\ out'[t] = "failed"
          /\ answer' = [answer EXCEPT ![t] = NoHost]
Leaves(t) ==
    /\ pc[t] = "done" /\ pc'[t] = "idle"
    /\ answer' = [answer EXCEPT ![t] = NoHost]

\* A step of a request moves it on, gives it its URL, ends it, or is its return.
LEMMA RequestShape ==
  ASSUME TypeOK, NEW t \in Threads, RequestStep(t)
  PROVE  Moves(t) \/ TakesUrl(t) \/ Ends(t) \/ Leaves(t)
<1> USE DEF TypeOK, Moves, TakesUrl, Ends, Leaves, InFlight, Goto, Finish, SentPoints,
        AuthPoints
<1>1. CASE CacheHit(t) \/ CacheMiss(t) \/ ReadUrl(t) \/ Return(t)
  BY <1>1 DEF CacheHit, CacheMiss, ReadUrl, Return
<1>2. CASE CheckToken(t)
  BY <1>2 DEF CheckToken, AuthPoint
<1>3. CASE KeycloakAuth(t) \/ LegacyAuth(t)
  BY <1>3 DEF KeycloakAuth, LegacyAuth, Login
<1>4. CASE KeycloakRefused(t) \/ LegacyRefused(t) \/ KeepToken(t) \/ Recheck(t)
  BY <1>4 DEF KeycloakRefused, LegacyRefused, KeepToken, Recheck
<1>5. CASE GrabToken(t) \/ Send(t) \/ Fault(t) \/ Denied(t) \/ Store(t)
  BY <1>5 DEF GrabToken, Send, Fault, Denied, Store
<1> QED BY <1>1, <1>2, <1>3, <1>4, <1>5 DEF RequestStep

\* A step of a request keeps what it knows of the instance it asks.
LEMMA FreshRequest ==
  ASSUME TypeOK, FreshInv, NEW t \in Threads, RequestStep(t)
  PROVE  FreshInv'
<1>1. ClockInv'
  BY RequestFrame DEF FreshInv, ClockInv, InFlight
<1>2. RequestInv'
  <2> SUFFICES ASSUME NEW u \in Threads
               PROVE  /\ pc'[u] \in SentPoints => lastLive'[url'[u]] >= began'[u]
                      /\ pc'[u] # "done" => answer'[u] = NoHost
                      /\ Answered(u)' => answer'[u] \in Hosts
                      /\ Answered(u)' /\ out'[u] = "fetched" => lastLive'[answer'[u]] >= began'[u]
    BY DEF RequestInv
  <2>1. CASE u # t
    BY <2>1, RequestFrame DEF FreshInv, RequestInv, Answered
  <2>2. CASE u = t
    <3> USE <2>2, RequestFrame DEF FreshInv, RequestInv, ClockInv, Answered, TypeOK,
            InFlight
    <3>1. CASE Moves(t)
      BY <3>1 DEF Moves, SentPoints, AuthPoints
    <3>2. CASE TakesUrl(t)
      BY <3>2 DEF TakesUrl, SentPoints, AuthPoints, Config
    <3>3. CASE Ends(t)
      BY <3>3, ClientAssumption DEF Ends, SentPoints, AuthPoints, Fresh, Entries
    <3>4. CASE Leaves(t)
      BY <3>4 DEF Leaves, SentPoints, AuthPoints
    <3> QED BY <3>1, <3>2, <3>3, <3>4, RequestShape
  <2> QED BY <2>1, <2>2
<1>3. CacheInv'
  <2>1. CASE UNCHANGED cache
    BY <2>1, RequestFrame DEF FreshInv, CacheInv
  <2>2. CASE Store(t)
    <3>1. /\ pc[t] = "store" /\ url[t] \in Hosts
          /\ now <= lastLive[url[t]] + Latency
      BY <2>2, ClientAssumption DEF Store, FreshInv, ClockInv, RequestInv, InFlight, TypeOK,
         SentPoints
    <3>2. CASE cache' = [cache EXCEPT ![key[t]] = [at |-> now, host |-> url[t]]]
      BY <3>1, <3>2, RequestFrame DEF FreshInv, CacheInv, TypeOK
    <3> QED BY <2>1, <2>2, <3>2 DEF Store
  <2>3. UNCHANGED cache \/ Store(t)
    BY DEF RequestStep, CacheHit, CacheMiss, ReadUrl, CheckToken, KeycloakAuth,
       LegacyAuth, Login, KeycloakRefused, LegacyRefused, KeepToken, Recheck, GrabToken,
       Send, Fault, Denied, Return, clientVars
  <2> QED BY <2>1, <2>2, <2>3
<1> QED BY <1>1, <1>2, <1>3 DEF FreshInv

\* Every step keeps FreshInv.
LEMMA FreshStep == TypeOK /\ FreshInv /\ [Next]_vars => FreshInv'
<1> SUFFICES ASSUME TypeOK, FreshInv, [Next]_vars
             PROVE  FreshInv'
  OBVIOUS
<1>1. ASSUME NEW t \in Threads, NEW k \in Keys \cup {NoKey}, Begin(t, k)
      PROVE  FreshInv'
  BY <1>1, ClientAssumption DEF Begin, Goto, FreshInv, ClockInv, RequestInv, CacheInv,
     InFlight, Answered, TypeOK, SentPoints, AuthPoints, clientVars
<1>2. CASE UNCHANGED <<cfg, cache, requestVars, now, began, lastLive>>
  BY <1>2 DEF requestVars, FreshInv, ClockInv, RequestInv, CacheInv, InFlight, Answered
<1>3. CASE ClearCache
  BY <1>3 DEF ClearCache, requestVars, clockVars, FreshInv, ClockInv, RequestInv,
     CacheInv, InFlight, Answered
<1>4. ASSUME \/ UNCHANGED vars
             \/ \E c \in Saves : BeginSave(c)
             \/ FieldRejected \/ WriteFails \/ ResetToken
             \/ \E tok \in valid : Expire(tok)
      PROVE  UNCHANGED <<cfg, cache, requestVars, now, began, lastLive>>
  BY <1>4 DEF vars, BeginSave, FieldRejected, WriteFails, ResetToken, Expire, clientVars, clockVars
<1> QED
  BY <1>1, <1>2, <1>3, <1>4, FreshTick, FreshWriteField, FreshRequest DEF Next, SaveStep

\* So it always holds.
LEMMA FreshCorrect == Spec => []FreshInv
  BY FreshInit, FreshStep, TypeCorrect, PTL DEF Spec

\* Whatever the interleaving of requests, saves and expiries, an answer fetched
\* over the network comes from an instance in force since the call began.
THEOREM FetchedInForceAlways == Spec => []FetchedInForce
<1>1. FreshInv => FetchedInForce
  BY DEF FreshInv, RequestInv, FetchedInForce
<1> QED BY <1>1, FreshCorrect, PTL

-----------------------------------------------------------------------------
\* The client implements the bounded-staleness read service.
Call == [t \in Threads |-> IF InFlight(t) THEN "busy" ELSE pc[t]]

\* The client starts as the read service does.
LEMMA PromiseInit == Init => Promise!Init
  BY ClientAssumption DEF Init, Promise!Init, InFlight, Config

\* A step of one call is Answer, Fail or Leave of the service, or none.
LEMMA PromiseRequest ==
  ASSUME TypeOK, FreshInv, NEW t \in Threads, RequestStep(t)
  PROVE  [Promise!Next]_(Promise!vars)
<1> USE RequestFrame DEF TypeOK
<1>1. Call \in [Threads -> {"idle", "busy", "done"}]
  BY DEF Call, InFlight
<1>2. CASE Moves(t) \/ TakesUrl(t)
  <2>1. Call' = Call
    BY <1>2 DEF Call, Moves, TakesUrl, InFlight, SentPoints, AuthPoints
  <2>2. answer' = answer
    BY <1>2 DEF Moves, TakesUrl
  <2> QED BY <2>1, <2>2 DEF Promise!vars, Call
<1>3. CASE Leaves(t)
  <2>1. Call[t] = "done" /\ Call' = [Call EXCEPT ![t] = "idle"]
    BY <1>3 DEF Call, Leaves, InFlight
  <2>2. Promise!Leave(t)
    BY <1>3, <2>1 DEF Promise!Leave, Leaves, Call
  <2> QED BY <2>2 DEF Promise!Next
<1>4. CASE Ends(t)
  <2>1. Call[t] = "busy" /\ Call' = [Call EXCEPT ![t] = "done"]
    BY <1>4 DEF Call, Ends, InFlight
  <2>2. CASE out'[t] = "failed"
    <3>1. answer' = answer
      BY <1>4, <2>2 DEF Ends, InFlight, FreshInv, RequestInv
    <3>2. Promise!Fail(t)
      BY <2>1, <3>1 DEF Promise!Fail, Call
    <3> QED BY <3>2 DEF Promise!Next
  <2>3. CASE out'[t] # "failed"
    <3>1. PICK h \in Hosts : /\ now - lastLive[h] < MaxTtl + Latency
                            /\ answer' = [answer EXCEPT ![t] = h]
      <4>1. CASE out'[t] = "hit"
        <5>1. Fresh(key[t]) /\ answer' = [answer EXCEPT ![t] = cache[key[t]].host]
          BY <1>4, <4>1 DEF Ends
        <5>2. /\ cache[key[t]].host \in Hosts /\ cache[key[t]].at \in Nat
              /\ now - cache[key[t]].at < MaxTtl
              /\ cache[key[t]].at <= lastLive[cache[key[t]].host] + Latency
          BY <5>1, ClientAssumption DEF Fresh, FreshInv, CacheInv, Entries, Config
        <5> DEFINE h == cache[key[t]].host
        <5>3. now - lastLive[h] < MaxTtl + Latency
          BY <5>2, ClientAssumption
        <5> HIDE DEF h
        <5>4. h \in Hosts /\ answer' = [answer EXCEPT ![t] = h]
          BY <5>1, <5>2 DEF h
        <5> QED BY <5>3, <5>4
      <4>2. CASE out'[t] = "fetched"
        <5>1. pc[t] = "store" /\ answer' = [answer EXCEPT ![t] = url[t]]
          BY <1>4, <4>2 DEF Ends
        <5>2. /\ url[t] \in Hosts /\ lastLive[url[t]] >= began[t]
              /\ now <= began[t] + Latency
          BY <5>1 DEF FreshInv, RequestInv, ClockInv, InFlight, SentPoints
        <5>3. now - lastLive[url[t]] < MaxTtl + Latency
          BY <5>2, ClientAssumption
        <5> QED BY <5>1, <5>2, <5>3
      <4> QED BY <1>4, <2>3, <4>1, <4>2 DEF Ends
    <3>2. Promise!Answer(t)
      BY <2>1, <3>1 DEF Promise!Answer, Call
    <3> QED BY <3>2 DEF Promise!Next
  <2> QED BY <2>2, <2>3
<1> QED BY <1>2, <1>3, <1>4, RequestShape

\* A field write is Configure (of the same instance, unless it writes the host),
\* the clock's tick is Tick, and a call that begins is Ask.
LEMMA PromiseOther ==
  ASSUME TypeOK, FreshInv, [Next]_vars, \A t \in Threads : ~RequestStep(t)
  PROVE  [Promise!Next]_(Promise!vars)
<1> USE DEF TypeOK
<1>1. ASSUME NEW t \in Threads, NEW k \in Keys \cup {NoKey}, Begin(t, k)
      PROVE  [Promise!Next]_(Promise!vars)
  <2>1. Call[t] = "idle" /\ Call' = [Call EXCEPT ![t] = "busy"]
    BY <1>1 DEF Call, Begin, Goto, InFlight
  <2>2. Promise!Ask(t)
    BY <1>1, <2>1 DEF Promise!Ask, Begin, Call, clientVars
  <2> QED BY <2>2 DEF Promise!Next
<1>2. ASSUME NEW f \in Fields, WriteField(f)
      PROVE  [Promise!Next]_(Promise!vars)
  <2>1. cfg'.host \in Hosts
    BY <1>2 DEF WriteField, Overlay, Config
  <2>2. Promise!Configure(cfg'.host)
    BY <1>2 DEF WriteField, Promise!Configure, InFlight, requestVars
  <2> QED BY <2>1, <2>2 DEF Promise!Next
<1>3. CASE Tick
  <2>1. Promise!Tick
    BY <1>3 DEF Tick, Promise!Tick, InFlight, clientVars, requestVars
  <2> QED BY <2>1 DEF Promise!Next
<1>4. ASSUME \/ UNCHANGED vars
             \/ \E c \in Saves : BeginSave(c)
             \/ FieldRejected \/ WriteFails \/ ResetToken \/ ClearCache
             \/ \E tok \in valid : Expire(tok)
      PROVE  [Promise!Next]_(Promise!vars)
  BY <1>4 DEF vars, BeginSave, FieldRejected, WriteFails, ResetToken, ClearCache, Expire, clientVars,
     requestVars, clockVars, Promise!vars, InFlight
<1> QED BY <1>1, <1>2, <1>3, <1>4 DEF Next, SaveStep

\* Every behaviour of the client is one of the service it promises: an answer,
\* cached or fetched, is stale by less than the ttl plus the length of a call.
THEOREM Implements == Spec => PromiseKept
<1>1. Init => Promise!Init
  BY PromiseInit
<1>2. TypeOK /\ FreshInv /\ [Next]_vars => [Promise!Next]_(Promise!vars)
  BY PromiseRequest, PromiseOther
<1> QED
  BY <1>1, <1>2, TypeCorrect, FreshCorrect, PTL DEF Spec, PromiseKept, Promise!Spec

-----------------------------------------------------------------------------
\* With a fixed bearer no thread is ever on its way to log in.
PinnedInv ==
    FixedBearer # NoToken =>
        token = FixedBearer /\ serial = 1 /\ \A t \in Threads : pc[t] \notin AuthPoints

\* A configured bearer token is never dropped, replaced or used to log in.
THEOREM FixedBearerAlwaysKept == Spec => []FixedBearerKept
<1>1. Init => PinnedInv
  BY DEF Init, PinnedInv, AuthPoints
<1>2. TypeOK /\ PinnedInv /\ [Next]_vars => PinnedInv'
  <2> SUFFICES ASSUME TypeOK, PinnedInv, [Next]_vars, FixedBearer # NoToken
               PROVE  /\ token' = FixedBearer /\ serial' = 1
                      /\ \A t \in Threads : pc'[t] \notin AuthPoints
    BY DEF PinnedInv
  <2> USE DEF TypeOK, AuthPoints, Goto, Finish, serverVars, clientVars, requestVars
  <2>0. token = FixedBearer /\ serial = 1 /\ \A t \in Threads : pc[t] \notin AuthPoints
    BY DEF PinnedInv
  <2>1. ASSUME NEW t \in Threads, RequestStep(t)
        PROVE  /\ token' = FixedBearer /\ serial' = 1
               /\ \A u \in Threads : pc'[u] \notin AuthPoints
    <3>1. CASE CacheHit(t) \/ CacheMiss(t) \/ ReadUrl(t) \/ CheckToken(t) \/ Return(t)
      BY <2>0, <3>1 DEF CacheHit, CacheMiss, ReadUrl, CheckToken, Return
    <3>2. CASE GrabToken(t) \/ Send(t) \/ Fault(t) \/ Denied(t) \/ Store(t)
      BY <2>0, <3>2 DEF GrabToken, Send, Fault, Denied, Store, Retryable
    <3>3. ~(\/ KeycloakAuth(t) \/ LegacyAuth(t) \/ KeycloakRefused(t)
            \/ LegacyRefused(t) \/ KeepToken(t) \/ Recheck(t))
      BY <2>0 DEF KeycloakAuth, LegacyAuth, KeycloakRefused, LegacyRefused, KeepToken,
         Recheck
    <3> QED BY <2>1, <3>1, <3>2, <3>3 DEF RequestStep
  <2>2. ASSUME NEW t \in Threads, NEW k \in Keys \cup {NoKey}, Begin(t, k)
        PROVE  /\ token' = FixedBearer /\ serial' = 1
               /\ \A u \in Threads : pc'[u] \notin AuthPoints
    BY <2>0, <2>2 DEF Begin
  <2>3. ASSUME \/ UNCHANGED vars \/ Tick \/ SaveStep
               \/ \E c \in Saves : BeginSave(c)
               \/ \E tok \in valid : Expire(tok)
        PROVE  token' = FixedBearer /\ serial' = 1 /\ pc' = pc
    BY <2>0, <2>3 DEF vars, Tick, SaveStep, WriteField, FieldRejected, WriteFails,
       ResetToken, ClearCache, BeginSave, Expire
  <2> QED BY <2>0, <2>1, <2>2, <2>3 DEF Next
<1>3. PinnedInv => FixedBearerKept
  BY DEF PinnedInv, FixedBearerKept
<1> QED BY <1>1, <1>2, <1>3, TypeCorrect, PTL DEF Spec

-----------------------------------------------------------------------------
\* No save is open while the last one counts as settled.
SettledInv ==
    /\ settled => saving = "idle"
    /\ SavedInstanceRead

\* A step of a request asks the settled instance and caches what it answers.
LEMMA SettledRequest ==
  ASSUME TypeOK, SettledInv, NEW t \in Threads, RequestStep(t), settled
  PROVE  /\ \A k \in Keys : cache'[k] # NoEntry => cache'[k].host = cfg'.host
         /\ NoneLate'
<1> USE RequestFrame DEF TypeOK, SettledInv, SavedInstanceRead, NoneLate
<1>1. \A k \in Keys : cache'[k] # NoEntry => cache'[k].host = cfg.host
  <2>1. CASE UNCHANGED cache
    BY <2>1
  <2>2. CASE Store(t)
    BY <2>2 DEF Store, SentPoints
  <2>3. UNCHANGED cache \/ Store(t)
    BY DEF RequestStep, CacheHit, CacheMiss, ReadUrl, CheckToken, KeycloakAuth,
       LegacyAuth, Login, KeycloakRefused, LegacyRefused, KeepToken, Recheck, GrabToken,
       Send, Fault, Denied, Return, clientVars
  <2> QED BY <2>1, <2>2, <2>3
<1>2. ASSUME NEW u \in Threads, pc'[u] \in SentPoints
      PROVE  url'[u] = cfg.host
  <2>1. CASE u # t
    BY <1>2, <2>1
  <2>2. CASE u = t
    <3>1. CASE Moves(t)
      BY <1>2, <2>2, <3>1 DEF Moves, SentPoints, AuthPoints
    <3>2. CASE TakesUrl(t)
      BY <2>2, <3>2 DEF TakesUrl
    <3>3. CASE Ends(t) \/ Leaves(t)
      BY <1>2, <2>2, <3>3 DEF Ends, Leaves, SentPoints, AuthPoints
    <3> QED BY <3>1, <3>2, <3>3, RequestShape
  <2> QED BY <2>1, <2>2
<1> QED BY <1>1, <1>2

\* Every step keeps SettledInv.
LEMMA SettledStep == TypeOK /\ SettledInv /\ [Next]_vars => SettledInv'
<1> SUFFICES ASSUME TypeOK, SettledInv, [Next]_vars
             PROVE  SettledInv'
  OBVIOUS
<1> USE DEF SettledInv, SavedInstanceRead, NoneLate
<1>1. ASSUME NEW t \in Threads, RequestStep(t)
      PROVE  SettledInv'
  <2>1. UNCHANGED <<saving, settled>>
    BY <1>1 DEF RequestStep, CacheHit, CacheMiss, ReadUrl, CheckToken, KeycloakAuth,
       LegacyAuth, Login, KeycloakRefused, LegacyRefused, KeepToken, Recheck, GrabToken,
       Send, Fault, Denied, Store, Return, saveVars, clockVars
  <2> QED BY <1>1, <2>1, SettledRequest
<1>2. ASSUME NEW t \in Threads, NEW k \in Keys \cup {NoKey}, Begin(t, k)
      PROVE  SettledInv'
  BY <1>2 DEF TypeOK, Begin, Goto, SentPoints, AuthPoints, clientVars, saveVars
<1>3. CASE ClearCache
  BY <1>3 DEF TypeOK, ClearCache, requestVars
<1>4. ASSUME \/ \E c \in Saves : BeginSave(c)
             \/ \E f \in Fields : WriteField(f)
             \/ FieldRejected \/ WriteFails \/ ResetToken
      PROVE  SettledInv'
  BY <1>4 DEF BeginSave, WriteField, FieldRejected, WriteFails, ResetToken, clockVars
<1>5. ASSUME UNCHANGED vars \/ Tick \/ \E tok \in valid : Expire(tok)
      PROVE  SettledInv'
  BY <1>5 DEF vars, Tick, Expire, clientVars, saveVars, requestVars, clockVars
<1> QED BY <1>1, <1>2, <1>3, <1>4, <1>5 DEF Next, SaveStep

\* For any number of threads: once a save has succeeded and no call addressed
\* before it is left, the saved instance is asked and the cache is its own,
\* whatever refused and failed saves came before.
THEOREM SavedInstanceAlwaysRead == Spec => []SavedInstanceRead
<1>1. Init => SettledInv
  BY ClientAssumption DEF Init, SettledInv, SavedInstanceRead, NoneLate, SentPoints,
     AuthPoints
<1>2. SettledInv => SavedInstanceRead
  BY DEF SettledInv
<1> QED BY <1>1, <1>2, SettledStep, TypeCorrect, PTL DEF Spec

-----------------------------------------------------------------------------
(***************************************************************************)
(* One thread.  When the event loop runs every request, no save overlaps   *)
(* one, and no other call drops the token of this one.                     *)
(***************************************************************************)
me == EventLoop
OneThread == Threads = {me}

\* What the masking rests on.  Fewer strikes than attempts: the token the call
\* has or will take is honoured.  A second attempt means a strike was spent.
MaskInv ==
    /\ saving # "idle" => pc[me] = "idle"
    /\ pc[me] \in SentPoints =>
         /\ url[me] = cfg.host
         /\ attempt[me] \in {1, 2}
         /\ attempt[me] = 2 /\ Usable => strikes[me] >= 1
    /\ pc[me] \in {"lookup", "url"} /\ strikes[me] = 0 =>
         token = NoToken \/ Honoured(cfg.host, token)
    /\ strikes[me] < attempt[me] /\ Usable =>
         /\ pc[me] = "check" => token = NoToken \/ Honoured(url[me], token)
         /\ pc[me] = "keep" => Honoured(url[me], got[me])
         /\ pc[me] \in {"recheck", "grab"} => Honoured(url[me], token)
         /\ pc[me] = "send" => Honoured(url[me], bearer[me])
         /\ pc[me] # "denied"
    /\ pc[me] = "check" /\ attempt[me] = 2 => token = NoToken
    /\ pc[me] = "keep" => got[me] # NoToken
    /\ pc[me] = "recheck" => token # NoToken
    /\ pc[me] = "keycloak" => cfg.method = "keycloak"
    /\ pc[me] = "fallback" => cfg.method = "auto"
    /\ pc[me] = "legacy" => \/ cfg.method = "pdc"
                            \/ cfg.method = "auto" /\ LoginRefused(KeycloakHosts)
    /\ pc[me] = "done" /\ out[me] = "failed" /\ Usable => strikes[me] = 2

\* A step of a lone thread's request keeps what it knows of the token.
LEMMA MaskRequest ==
  ASSUME OneThread, TypeOK, MaskInv, RequestStep(me)
  PROVE  MaskInv'
<1> USE ClientAssumption DEF OneThread, me, TypeOK, MaskInv, Goto, Finish, SentPoints,
        AuthPoints, Usable, Honoured, LoginRefused, clientVars, saveVars, serverVars,
        clockVars, Strikes
<1>1. CASE CacheHit(me)
  BY <1>1 DEF CacheHit
<1>2. CASE CacheMiss(me)
  BY <1>2 DEF CacheMiss
<1>3. CASE ReadUrl(me)
  BY <1>3 DEF ReadUrl
<1>4. CASE CheckToken(me)
  BY <1>4 DEF CheckToken, AuthPoint, Config, Methods
<1>5. CASE KeycloakAuth(me) \/ LegacyAuth(me)
  BY <1>5 DEF KeycloakAuth, LegacyAuth, Login, Tokens, Config
<1>6. CASE KeycloakRefused(me)
  BY <1>6 DEF KeycloakRefused
<1>7. CASE LegacyRefused(me)
  BY <1>7 DEF LegacyRefused
<1>8. CASE KeepToken(me)
  BY <1>8 DEF KeepToken
<1>9. CASE Recheck(me)
  BY <1>9 DEF Recheck
<1>10. CASE GrabToken(me)
  BY <1>10 DEF GrabToken
<1>11. CASE Send(me)
  BY <1>11 DEF Send
<1>12. CASE Fault(me)
  BY <1>12 DEF Fault
<1>13. CASE Denied(me)
  BY <1>13 DEF Denied, Retryable
<1>14. CASE Store(me)
  BY <1>14 DEF Store
<1>15. CASE Return(me)
  BY <1>15 DEF Return
<1> QED
  BY <1>1, <1>2, <1>3, <1>4, <1>5, <1>6, <1>7, <1>8, <1>9, <1>10, <1>11, <1>12,
     <1>13, <1>14, <1>15 DEF RequestStep

\* Every step keeps MaskInv.
LEMMA MaskStep ==
  ASSUME OneThread, TypeOK, MaskInv, [Next]_vars
  PROVE  MaskInv'
<1> USE ClientAssumption DEF OneThread, me, TypeOK
<1>1. ASSUME NEW t \in Threads, RequestStep(t)
      PROVE  MaskInv'
  BY <1>1, MaskRequest
<1>2. ASSUME NEW t \in Threads, NEW k \in Keys \cup {NoKey}, Begin(t, k)
      PROVE  MaskInv'
  BY <1>2 DEF Begin, Goto, MaskInv, SentPoints, AuthPoints, Honoured, clientVars, saveVars,
     serverVars
<1>3. ASSUME NEW tok \in valid, Expire(tok)
      PROVE  MaskInv'
  BY <1>3 DEF Expire, StrikeAll, Strikes, MaskInv, SentPoints, AuthPoints, Usable,
     Honoured, LoginRefused, clientVars, saveVars, requestVars
<1>4. CASE Tick
  BY <1>4 DEF Tick, MaskInv, Usable, Honoured, LoginRefused, clientVars, saveVars,
     requestVars, serverVars
<1>5. CASE UNCHANGED vars
  BY <1>5 DEF vars, MaskInv, Usable, Honoured, LoginRefused, clientVars, saveVars,
     requestVars, serverVars, clockVars
<1>6. ASSUME SaveStep \/ \E c \in Saves : BeginSave(c)
      PROVE  MaskInv'
  <2>1. pc[me] = "idle" /\ pc' = pc
    BY <1>6 DEF SaveStep, BeginSave, WriteField, FieldRejected, WriteFails, ResetToken,
       ClearCache, MaskInv, requestVars
  <2> QED BY <2>1 DEF MaskInv, SentPoints, AuthPoints
<1> QED BY <1>1, <1>2, <1>3, <1>4, <1>5, <1>6 DEF Next

\* With one thread the retry masks any one stale or expired token: a call under
\* a usable configuration fails only after a fault or two such strikes.
THEOREM OneThreadMasks ==
  ASSUME OneThread
  PROVE  Spec => []OneStrikeMasked
<1>1. Init => MaskInv
  BY ClientAssumption DEF Init, MaskInv, SentPoints, AuthPoints, me
<1>2. TypeOK /\ MaskInv /\ [Next]_vars => MaskInv'
  BY MaskStep
<1>3. MaskInv => OneStrikeMasked
  BY DEF MaskInv, OneStrikeMasked, OneThread, me
<1> QED BY <1>1, <1>2, <1>3, TypeCorrect, PTL DEF Spec
=============================================================================
