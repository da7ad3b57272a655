--------------------------- MODULE BoundedStaleness ---------------------------
(***************************************************************************)
(* What the PDC client promises its callers, whatever it does inside: each *)
(* caller has one call at a time, a call ends with an answer or an error,  *)
(* and an answer was given by an instance that was the configured one less *)
(* than Slack before.  Nothing is promised about errors.                   *)
(***************************************************************************)
EXTENDS Naturals

CONSTANTS Callers, Hosts, NoHost, Slack

VARIABLES
    now,       \* the clock
    live,      \* the configured instance
    lastLive,  \* when each instance was last the configured one
    call,      \* "idle", "busy" or "done"
    answer     \* the instance that answered, NoHost before or after an error

vars == <<now, live, lastLive, call, answer>>

Init ==
    /\ now = 0
    /\ live \in Hosts
    /\ lastLive = [h \in Hosts |-> 0]
    /\ call = [c \in Callers |-> "idle"]
    /\ answer = [c \in Callers |-> NoHost]

Ask(c) ==
    /\ call[c] = "idle"
    /\ call' = [call EXCEPT ![c] = "busy"]
    /\ UNCHANGED <<now, live, lastLive, answer>>

Answer(c) ==
    /\ call[c] = "busy"
    /\ \E h \in Hosts :
         /\ now - lastLive[h] < Slack
         /\ answer' = [answer EXCEPT ![c] = h]
    /\ call' = [call EXCEPT ![c] = "done"]
    /\ UNCHANGED <<now, live, lastLive>>

Fail(c) ==
    /\ call[c] = "busy"
    /\ call' = [call EXCEPT ![c] = "done"]
    /\ UNCHANGED <<now, live, lastLive, answer>>

Leave(c) ==
    /\ call[c] = "done"
    /\ call' = [call EXCEPT ![c] = "idle"]
    /\ answer' = [answer EXCEPT ![c] = NoHost]
    /\ UNCHANGED <<now, live, lastLive>>

Configure(h) ==
    /\ live' = h
    /\ lastLive' = [lastLive EXCEPT ![h] = now]
    /\ UNCHANGED <<now, call, answer>>

Tick ==
    /\ now' = now + 1
    /\ lastLive' = [lastLive EXCEPT ![live] = now + 1]
    /\ UNCHANGED <<live, call, answer>>

Next ==
    \/ \E c \in Callers : Ask(c) \/ Answer(c) \/ Fail(c) \/ Leave(c)
    \/ \E h \in Hosts : Configure(h)
    \/ Tick

Spec == Init /\ [][Next]_vars
=============================================================================
