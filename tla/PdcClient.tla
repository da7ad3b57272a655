------------------------------ MODULE PdcClient ------------------------------
(***************************************************************************)
(* The shared PDC client (app/pdc_client.py): one bearer token and one TTL *)
(* cache, used without a lock by every request thread of a worker, while   *)
(* the event loop may be applying saved settings (app/config.py).          *)
(*                                                                         *)
(* A step is what the interpreter may run between two thread switches that *)
(* matter: one read or write of client._token, one read or write of a      *)
(* configuration field, one HTTP exchange.  Request bodies, headers and    *)
(* the wording of errors are left out.  Credentials are one field (user),  *)
(* an answer is the instance that gave it, and version, TLS and realm are  *)
(* part of what identifies an instance (host).                             *)
(***************************************************************************)
EXTENDS Naturals, FiniteSets

CONSTANTS
    Threads,      \* threads that run requests: the pool's and the event loop's
    EventLoop,    \* the thread that also runs POST /api/settings
    Keys,         \* cache keys of the idempotent (facet) reads
    NoKey,        \* an uncached read (search, entities)
    Hosts,        \* PDC instances
    Users,        \* credentials that may be configured
    NoUser,       \* username or password missing
    NoHost, NoToken, NoEntry,
    Accounts,     \* pairs <<host, user>> that an instance lets log in
    KeycloakHosts,\* instances whose realm token endpoint answers with a token
    LegacyHosts,  \* instances whose /auth wrapper answers with a token
    Refusing,     \* instances whose API answers 401 to every token
    FixedBearer,  \* PDC_BEARER_TOKEN, or NoToken
    Initial,      \* the configuration the process started with
    Saves,        \* the configurations the Settings page may save
    Rejected,     \* those of Saves whose cache_ttl is not a number
    Latency,      \* the longest a request takes: the sum of its HTTP timeouts
    MaxTtl,       \* the largest cache_ttl
    MaxTime, MaxRequests, MaxSaves, MaxExpiries, MaxFaults  \* bounds

Methods == {"auto", "keycloak", "pdc"}
Fields == {"host", "user", "method", "ttl"}
Config == [host: Hosts, user: Users \cup {NoUser}, method: Methods, ttl: 0..MaxTtl]
Tokens == [host: Hosts, serial: Nat]
Entries == [at: Nat, host: Hosts]

ASSUME ClientAssumption ==
    /\ EventLoop \in Threads
    /\ NoKey \notin Keys
    /\ NoHost \notin Hosts
    /\ NoUser \notin Users
    /\ NoToken \notin Tokens
    /\ NoEntry \notin Entries
    /\ Accounts \subseteq Hosts \X Users
    /\ FixedBearer \in Tokens \cup {NoToken}
    /\ Initial \in Config
    /\ Saves \subseteq Config
    /\ Rejected \subseteq Saves
    /\ Latency \in Nat
    /\ MaxTtl \in Nat \ {0}

VARIABLES
    \* the live configuration and the client
    cfg,        \* settings.pdc
    token,      \* client._token
    cache,      \* client._cache
    \* the save in progress on the event loop
    saving,     \* "idle", "fields" (until the token is reset) or "cache"
    patch,      \* what it writes
    todo,       \* the fields it has still to write
    \* the requests
    pc, key, url, attempt, got, bearer, out, answer,
    \* the instances: the tokens they honour and how many they issued
    valid, serial,
    \* the clock, and history: when a request began, when a host was last in
    \* force, what befell a request that one more login could not mend, and
    \* whether the last save was completed with no call to another instance left
    now, began, lastLive, strikes, settled,
    \* events counted against their bounds
    requests, saves, expiries, faults

clientVars == <<cfg, token, cache>>
saveVars == <<saving, patch, todo>>
requestVars == <<pc, key, url, attempt, got, bearer, out, answer>>
serverVars == <<valid, serial>>
clockVars == <<now, began, lastLive, strikes, settled>>
countVars == <<requests, saves, expiries, faults>>
vars == <<clientVars, saveVars, requestVars, serverVars, clockVars, countVars>>

\* Program points of a request: _post ("lookup", "store"), _request ("url",
\* "send", "denied") and token ("check", "keycloak", "fallback", "legacy",
\* "keep", "recheck", "grab").
AuthPoints == {"keycloak", "fallback", "legacy", "keep", "recheck"}
SentPoints == {"check", "grab", "send", "denied", "store"} \cup AuthPoints
Points == {"idle", "lookup", "url", "done"} \cup SentPoints
Outcomes == {"none", "hit", "fetched", "failed"}

InFlight(t) == pc[t] \notin {"idle", "done"}
Answered(t) == pc[t] = "done" /\ out[t] \in {"hit", "fetched"}

-----------------------------------------------------------------------------
Init ==
    /\ cfg = Initial
    /\ token = FixedBearer
    /\ cache = [k \in Keys |-> NoEntry]
    /\ saving = "idle" /\ patch = Initial /\ todo = {}
    /\ pc = [t \in Threads |-> "idle"]
    /\ key = [t \in Threads |-> NoKey]
    /\ url = [t \in Threads |-> NoHost]
    /\ attempt = [t \in Threads |-> 0]
    /\ got = [t \in Threads |-> NoToken]
    /\ bearer = [t \in Threads |-> NoToken]
    /\ out = [t \in Threads |-> "none"]
    /\ answer = [t \in Threads |-> NoHost]
    /\ valid = {FixedBearer} \ {NoToken}
    /\ serial = 1
    /\ now = 0
    /\ began = [t \in Threads |-> 0]
    /\ lastLive = [h \in Hosts |-> 0]
    /\ strikes = [t \in Threads |-> 0]
    /\ settled = TRUE
    /\ requests = 0 /\ saves = 0 /\ expiries = 0 /\ faults = 0

Goto(t, point) == pc' = [pc EXCEPT ![t] = point]

\* The call returns: a value of a host, or an exception (NoHost).
Finish(t, outcome, host) ==
    /\ Goto(t, "done")
    /\ out' = [out EXCEPT ![t] = outcome]
    /\ answer' = [answer EXCEPT ![t] = host]

\* An instance honours the tokens it issued until they expire.
Honoured(host, tok) ==
    /\ tok # NoToken
    /\ tok.host = host
    /\ tok \in valid
    /\ host \notin Refusing

\* What can make a request fail although credentials and instance are good: a
\* token that is bad when it begins, a token that expires, and, twice as bad, a
\* fault or a save that overlaps it.
Strikes == 0..2

StrikeAll(n) ==
    strikes' = [t \in Threads |-> IF strikes[t] + n > 2 THEN 2 ELSE strikes[t] + n]

\* A handler calls facets() with its cache key, or an uncached read.  The event
\* loop runs one handler at a time, so it starts none while it saves.
Begin(t, k) ==
    /\ pc[t] = "idle"
    /\ t = EventLoop => saving = "idle"
    /\ requests < MaxRequests
    /\ Goto(t, "lookup")
    /\ key' = [key EXCEPT ![t] = k]
    /\ began' = [began EXCEPT ![t] = now]
    /\ strikes' = [strikes EXCEPT ![t] =
         IF saving # "idle" THEN 2
         ELSE IF token = NoToken \/ Honoured(cfg.host, token) THEN 0 ELSE 1]
    /\ requests' = requests + 1
    /\ UNCHANGED <<clientVars, saveVars, url, attempt, got, bearer, out, answer,
                   serverVars, now, lastLive, settled, saves, expiries, faults>>

\* Mutant: an entry is served whatever its age.
FreshForever(k) == k \in Keys /\ cfg.ttl > 0 /\ cache[k] # NoEntry

\* _post's test of the cache: a ttl of 0 disables it.
Fresh(k) ==
    /\ k \in Keys
    /\ cfg.ttl > 0
    /\ cache[k] # NoEntry
    /\ now - cache[k].at < cfg.ttl

CacheHit(t) ==
    /\ pc[t] = "lookup"
    /\ Fresh(key[t])
    /\ Finish(t, "hit", cache[key[t]].host)
    /\ UNCHANGED <<clientVars, saveVars, key, url, attempt, got, bearer,
                   serverVars, clockVars, countVars>>

CacheMiss(t) ==
    /\ pc[t] = "lookup"
    /\ ~Fresh(key[t])
    /\ Goto(t, "url")
    /\ UNCHANGED <<clientVars, saveVars, key, url, attempt, got, bearer, out,
                   answer, serverVars, clockVars, countVars>>

\* Mutants: the URL is never built; it is the one of the client's construction.
ReadUrlNever(t) ==
    /\ pc[t] = "url"
    /\ Goto(t, "check")
    /\ attempt' = [attempt EXCEPT ![t] = 1]
    /\ UNCHANGED <<clientVars, saveVars, key, url, got, bearer, out, answer,
                   serverVars, clockVars, countVars>>
ReadUrlAtStart(t) ==
    /\ pc[t] = "url"
    /\ Goto(t, "check")
    /\ url' = [url EXCEPT ![t] = Initial.host]
    /\ attempt' = [attempt EXCEPT ![t] = 1]
    /\ UNCHANGED <<clientVars, saveVars, key, got, bearer, out, answer,
                   serverVars, clockVars, countVars>>

\* _request builds its URL once, before the first attempt.
ReadUrl(t) ==
    /\ pc[t] = "url"
    /\ Goto(t, "check")
    /\ url' = [url EXCEPT ![t] = cfg.host]
    /\ attempt' = [attempt EXCEPT ![t] = 1]
    /\ UNCHANGED <<clientVars, saveVars, key, got, bearer, out, answer,
                   serverVars, clockVars, countVars>>

\* token(): a cached token is returned (by a second read of the attribute);
\* otherwise the configured method logs in, if there are credentials.
AuthPoint ==
    CASE cfg.method = "auto" -> "fallback"
      [] cfg.method = "keycloak" -> "keycloak"
      [] OTHER -> "legacy"

CheckToken(t) ==
    /\ pc[t] = "check"
    /\ \/ /\ token # NoToken
          /\ Goto(t, "grab")
          /\ UNCHANGED <<out, answer>>
       \/ /\ token = NoToken /\ cfg.user = NoUser
          /\ Finish(t, "failed", NoHost)
       \/ /\ token = NoToken /\ cfg.user # NoUser
          /\ Goto(t, AuthPoint)
          /\ UNCHANGED <<out, answer>>
    /\ UNCHANGED <<clientVars, saveVars, key, url, attempt, got, bearer,
                   serverVars, clockVars, countVars>>

\* A login: the instance the settings name now, with the credentials they hold.
Login(t, endpoints) ==
    /\ cfg.host \in endpoints
    /\ <<cfg.host, cfg.user>> \in Accounts
    /\ LET new == [host |-> cfg.host, serial |-> serial] IN
         /\ got' = [got EXCEPT ![t] = new]
         /\ valid' = valid \cup {new}
    /\ serial' = serial + 1
    /\ Goto(t, "keep")
    /\ UNCHANGED <<clientVars, saveVars, key, url, attempt, bearer, out, answer,
                   clockVars, countVars>>

LoginRefused(endpoints) ==
    cfg.host \notin endpoints \/ <<cfg.host, cfg.user>> \notin Accounts

KeycloakAuth(t) ==
    /\ pc[t] \in {"keycloak", "fallback"}
    /\ Login(t, KeycloakHosts)

\* An HTTP error or a missing token: "auto" goes on to the legacy wrapper.
KeycloakRefused(t) ==
    /\ pc[t] \in {"keycloak", "fallback"}
    /\ LoginRefused(KeycloakHosts)
    /\ \/ /\ pc[t] = "fallback"
          /\ Goto(t, "legacy")
          /\ UNCHANGED <<out, answer>>
       \/ /\ pc[t] = "keycloak"
          /\ Finish(t, "failed", NoHost)
    /\ UNCHANGED <<clientVars, saveVars, key, url, attempt, got, bearer,
                   serverVars, clockVars, countVars>>

LegacyAuth(t) ==
    /\ pc[t] = "legacy"
    /\ Login(t, LegacyHosts)

LegacyRefused(t) ==
    /\ pc[t] = "legacy"
    /\ LoginRefused(LegacyHosts)
    /\ Finish(t, "failed", NoHost)
    /\ UNCHANGED <<clientVars, saveVars, key, url, attempt, got, bearer,
                   serverVars, clockVars, countVars>>

\* self._token = ..., and the test that follows it reads the attribute again.
KeepToken(t) ==
    /\ pc[t] = "keep"
    /\ token' = got[t]
    /\ Goto(t, "recheck")
    /\ UNCHANGED <<cfg, cache, saveVars, key, url, attempt, got, bearer, out,
                   answer, serverVars, clockVars, countVars>>

Recheck(t) ==
    /\ pc[t] = "recheck"
    /\ \/ /\ token = NoToken
          /\ Finish(t, "failed", NoHost)
       \/ /\ token # NoToken
          /\ Goto(t, "grab")
          /\ UNCHANGED <<out, answer>>
    /\ UNCHANGED <<clientVars, saveVars, key, url, attempt, got, bearer,
                   serverVars, clockVars, countVars>>

\* return self._token: a read of its own, whatever the test before it saw.
GrabToken(t) ==
    /\ pc[t] = "grab"
    /\ bearer' = [bearer EXCEPT ![t] = token]
    /\ Goto(t, "send")
    /\ UNCHANGED <<clientVars, saveVars, key, url, attempt, got, out, answer,
                   serverVars, clockVars, countVars>>

Send(t) ==
    /\ pc[t] = "send"
    /\ Goto(t, IF Honoured(url[t], bearer[t]) THEN "store" ELSE "denied")
    /\ UNCHANGED <<clientVars, saveVars, key, url, attempt, got, bearer, out,
                   answer, serverVars, clockVars, countVars>>

\* A transport error or a timeout, in a login or in the call itself, or an HTTP
\* error other than 401 of the call.
Fault(t) ==
    /\ pc[t] \in {"keycloak", "fallback", "legacy", "send"}
    /\ faults < MaxFaults
    /\ faults' = faults + 1
    /\ strikes' = [strikes EXCEPT ![t] = 2]
    /\ Finish(t, "failed", NoHost)
    /\ UNCHANGED <<clientVars, saveVars, key, url, attempt, got, bearer,
                   serverVars, now, began, lastLive, settled, requests, saves,
                   expiries>>

\* A 401.  The first one drops the token, unless it is the fixed one, and the
\* loop goes round again; the second raises.
Retryable(t) == attempt[t] = 1 /\ FixedBearer = NoToken

\* Mutants: the retry goes out with the token that was refused; it is not
\* counted as an attempt either.
DeniedKeepsToken(t) ==
    /\ pc[t] = "denied"
    /\ \/ /\ Retryable(t)
          /\ attempt' = [attempt EXCEPT ![t] = 2]
          /\ Goto(t, "check")
          /\ UNCHANGED <<out, answer>>
       \/ /\ ~Retryable(t)
          /\ Finish(t, "failed", NoHost)
          /\ UNCHANGED attempt
    /\ UNCHANGED <<clientVars, saveVars, key, url, got, bearer, serverVars,
                   clockVars, countVars>>
DeniedForever(t) ==
    /\ pc[t] = "denied"
    /\ Retryable(t)
    /\ Goto(t, "check")
    /\ UNCHANGED <<clientVars, saveVars, key, url, attempt, got, bearer, out,
                   answer, serverVars, clockVars, countVars>>

Denied(t) ==
    /\ pc[t] = "denied"
    /\ \/ /\ Retryable(t)
          /\ token' = NoToken
          /\ attempt' = [attempt EXCEPT ![t] = 2]
          /\ Goto(t, "check")
          /\ UNCHANGED <<out, answer>>
       \/ /\ ~Retryable(t)
          /\ Finish(t, "failed", NoHost)
          /\ UNCHANGED <<token, attempt>>
    /\ UNCHANGED <<cfg, cache, saveVars, key, url, got, bearer, serverVars,
                   clockVars, countVars>>

\* _post stamps the entry when the answer is back, with the ttl of that moment.
Store(t) ==
    /\ pc[t] = "store"
    /\ \/ /\ key[t] \in Keys /\ cfg.ttl > 0
          /\ cache' = [cache EXCEPT ![key[t]] = [at |-> now, host |-> url[t]]]
       \/ /\ key[t] \notin Keys \/ cfg.ttl = 0
          /\ UNCHANGED cache
    /\ Finish(t, "fetched", url[t])
    /\ UNCHANGED <<cfg, token, saveVars, key, url, attempt, got, bearer,
                   serverVars, clockVars, countVars>>

\* The handler's response is sent; the thread is free.
Return(t) ==
    /\ pc[t] = "done"
    /\ Goto(t, "idle")
    /\ key' = [key EXCEPT ![t] = NoKey]
    /\ url' = [url EXCEPT ![t] = NoHost]
    /\ attempt' = [attempt EXCEPT ![t] = 0]
    /\ got' = [got EXCEPT ![t] = NoToken]
    /\ bearer' = [bearer EXCEPT ![t] = NoToken]
    /\ out' = [out EXCEPT ![t] = "none"]
    /\ answer' = [answer EXCEPT ![t] = NoHost]
    /\ UNCHANGED <<clientVars, saveVars, serverVars, clockVars, countVars>>

-----------------------------------------------------------------------------
\* apply_settings on the event loop: the fields in the order the request's JSON
\* has them (a field that keeps its value is no step), then the runtime reset,
\* token first and cache second.
BeginSave(c) ==
    /\ saving = "idle"
    /\ pc[EventLoop] = "idle"
    /\ saves < MaxSaves
    /\ saving' = "fields"
    /\ patch' = c
    /\ todo' = {f \in Fields : c[f] # cfg[f] \/ (f = "ttl" /\ c \in Rejected)}
    /\ saves' = saves + 1
    /\ StrikeAll(2)
    /\ settled' = FALSE
    /\ UNCHANGED <<clientVars, requestVars, serverVars, now, began, lastLive,
                   requests, expiries, faults>>

Overlay(old, new, f) ==
    [host   |-> IF f = "host" THEN new.host ELSE old.host,
     user   |-> IF f = "user" THEN new.user ELSE old.user,
     method |-> IF f = "method" THEN new.method ELSE old.method,
     ttl    |-> IF f = "ttl" THEN new.ttl ELSE old.ttl]

WriteField(f) ==
    /\ saving = "fields"
    /\ f \in todo
    /\ f = "ttl" => patch \notin Rejected
    /\ cfg' = Overlay(cfg, patch, f)
    /\ todo' = todo \ {f}
    /\ lastLive' = [lastLive EXCEPT ![cfg'.host] = now]
    /\ UNCHANGED <<token, cache, saving, patch, requestVars, serverVars, now,
                   began, strikes, settled, countVars>>

\* int() raises on a cache_ttl that is no number: the fields written so far
\* stay, the others and the reset never happen.
FieldRejected ==
    /\ saving = "fields"
    /\ "ttl" \in todo
    /\ patch \in Rejected
    /\ saving' = "idle"
    /\ todo' = {}
    /\ UNCHANGED <<clientVars, patch, requestVars, serverVars, clockVars,
                   countVars>>

\* _write_env raises (a read-only file, a full disk): every field is live, and
\* the reset never happens either.
WriteFails ==
    /\ saving = "fields"
    /\ todo = {}
    /\ saving' = "idle"
    /\ UNCHANGED <<clientVars, patch, todo, requestVars, serverVars, clockVars,
                   countVars>>

ResetToken ==
    /\ saving = "fields"
    /\ todo = {}
    /\ token' = FixedBearer
    /\ saving' = "cache"
    /\ UNCHANGED <<cfg, cache, patch, todo, requestVars, serverVars, clockVars,
                   countVars>>

\* No call that is on its way was addressed before the fields were written.
NoneLate == \A t \in Threads : pc[t] \in SentPoints => url[t] = cfg.host

\* Mutant: the reset leaves the cached reads.
ClearCacheNever ==
    /\ saving = "cache"
    /\ saving' = "idle"
    /\ settled' = NoneLate
    /\ UNCHANGED <<clientVars, patch, todo, requestVars, serverVars, now, began,
                   lastLive, strikes, countVars>>

ClearCache ==
    /\ saving = "cache"
    /\ cache' = [k \in Keys |-> NoEntry]
    /\ saving' = "idle"
    /\ settled' = NoneLate
    /\ UNCHANGED <<cfg, token, patch, todo, requestVars, serverVars, now, began,
                   lastLive, strikes, countVars>>

-----------------------------------------------------------------------------
\* A token reaches the end of its short life.
Expire(tok) ==
    /\ tok \in valid
    /\ expiries < MaxExpiries
    /\ valid' = valid \ {tok}
    /\ expiries' = expiries + 1
    /\ StrikeAll(1)
    /\ UNCHANGED <<clientVars, saveVars, requestVars, serial, now, began,
                   lastLive, settled, requests, saves, faults>>

\* Time passes; no request outlives the sum of its timeouts.
Tick ==
    /\ now < MaxTime
    /\ \A t \in Threads : InFlight(t) => now - began[t] < Latency
    /\ now' = now + 1
    /\ lastLive' = [lastLive EXCEPT ![cfg.host] = now + 1]
    /\ UNCHANGED <<clientVars, saveVars, requestVars, serverVars, began,
                   strikes, settled, countVars>>

RequestStep(t) ==
    \/ CacheHit(t) \/ CacheMiss(t) \/ ReadUrl(t) \/ CheckToken(t)
    \/ KeycloakAuth(t) \/ KeycloakRefused(t) \/ LegacyAuth(t) \/ LegacyRefused(t)
    \/ KeepToken(t) \/ Recheck(t) \/ GrabToken(t)
    \/ Send(t) \/ Fault(t) \/ Denied(t) \/ Store(t) \/ Return(t)

SaveStep ==
    \/ \E f \in Fields : WriteField(f)
    \/ FieldRejected \/ WriteFails \/ ResetToken \/ ClearCache

Next ==
    \/ \E t \in Threads, k \in Keys \cup {NoKey} : Begin(t, k)
    \/ \E t \in Threads : RequestStep(t)
    \/ \E c \in Saves : BeginSave(c)
    \/ SaveStep
    \/ \E tok \in valid : Expire(tok)
    \/ Tick

Spec == Init /\ [][Next]_vars

\* A started request or save is run on: every HTTP call has a timeout.  New
\* requests, saves, expiries and the clock are the environment's, and unfair.
FairSpec ==
    /\ Spec
    /\ \A t \in Threads : WF_vars(RequestStep(t))
    /\ WF_vars(SaveStep)

-----------------------------------------------------------------------------
TypeOK ==
    /\ cfg \in Config /\ patch \in Config
    /\ token \in Tokens \cup {NoToken}
    /\ cache \in [Keys -> Entries \cup {NoEntry}]
    /\ saving \in {"idle", "fields", "cache"}
    /\ todo \in SUBSET Fields
    /\ pc \in [Threads -> Points]
    /\ key \in [Threads -> Keys \cup {NoKey}]
    /\ url \in [Threads -> Hosts \cup {NoHost}]
    /\ \A t \in Threads : pc[t] \in SentPoints => url[t] \in Hosts
    /\ attempt \in [Threads -> 0..2]
    /\ got \in [Threads -> Tokens \cup {NoToken}]
    /\ bearer \in [Threads -> Tokens \cup {NoToken}]
    /\ out \in [Threads -> Outcomes]
    /\ answer \in [Threads -> Hosts \cup {NoHost}]
    /\ valid \subseteq Tokens
    /\ serial \in Nat
    /\ now \in Nat
    /\ began \in [Threads -> Nat]
    /\ lastLive \in [Hosts -> Nat]
    /\ strikes \in [Threads -> Strikes]
    /\ settled \in BOOLEAN
    /\ requests \in Nat /\ saves \in Nat /\ expiries \in Nat /\ faults \in Nat

\* The strengthening behind the freshness properties.  A call in flight is no
\* older than its timeouts; its URL names an instance that was in force since it
\* began; an entry of the cache was stored no later than that after the instance
\* was last in force; a call that is not over has answered nothing.
ClockInv ==
    /\ \A h \in Hosts : lastLive[h] <= now
    /\ lastLive[cfg.host] = now
    /\ \A t \in Threads : began[t] <= now
    /\ \A t \in Threads : InFlight(t) => now <= began[t] + Latency

RequestInv ==
    \A t \in Threads :
        /\ pc[t] \in SentPoints => lastLive[url[t]] >= began[t]
        /\ pc[t] # "done" => answer[t] = NoHost
        /\ Answered(t) => answer[t] \in Hosts
        /\ Answered(t) /\ out[t] = "fetched" => lastLive[answer[t]] >= began[t]

CacheInv ==
    \A k \in Keys : cache[k] # NoEntry => cache[k].at <= lastLive[cache[k].host] + Latency

FreshInv == ClockInv /\ RequestInv /\ CacheInv

\* An answer fetched over the network comes from an instance that was the
\* configured one at some moment since the call began, however the save's field
\* writes and the retry interleave with it (_request reads the live settings).
FetchedInForce ==
    \A t \in Threads :
        Answered(t) /\ out[t] = "fetched" => lastLive[answer[t]] >= began[t]

\* A save that succeeded takes effect (routes/settings.py:7-9): from then on
\* every call under way asks the saved instance and the cache holds no answer of
\* another one, whatever refused and failed saves came before.  The exception is
\* settled's: a call addressed before the save may store its answer after it.
SavedInstanceRead ==
    settled =>
        /\ \A k \in Keys : cache[k] # NoEntry => cache[k].host = cfg.host
        /\ NoneLate

\* The configuration in force lets its user log in and read.
Usable ==
    /\ FixedBearer = NoToken
    /\ cfg.host \notin Refusing
    /\ <<cfg.host, cfg.user>> \in Accounts
    /\ \/ cfg.method \in {"auto", "keycloak"} /\ cfg.host \in KeycloakHosts
       \/ cfg.method \in {"auto", "pdc"} /\ cfg.host \in LegacyHosts

\* One stale or expired token is masked by the retry: with a usable
\* configuration a call fails only after a fault, a save or two expiries
\* (_request: drop the token on the first 401, log in, retry once).
OneStrikeMasked ==
    \A t \in Threads : pc[t] = "done" /\ out[t] = "failed" /\ Usable => strikes[t] = 2

\* With a fixed bearer token the client never drops it, never replaces it and
\* never logs in, whatever the API answers and whatever is saved.
FixedBearerKept == FixedBearer # NoToken => token = FixedBearer /\ serial = 1

\* Every call ends: the retry loop is bounded even when each login succeeds and
\* the API refuses every token.
CallsEnd == \A t \in Threads : pc[t] = "lookup" ~> pc[t] = "done"

\* The client is a read service of bounded staleness: the ttl plus the length
\* of one call.
Promise == INSTANCE BoundedStaleness WITH
    Callers <- Threads,
    Slack <- MaxTtl + Latency,
    live <- cfg.host,
    call <- [t \in Threads |-> IF InFlight(t) THEN "busy" ELSE pc[t]]

PromiseKept == Promise!Spec
=============================================================================
