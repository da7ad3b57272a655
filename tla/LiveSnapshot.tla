----------------------------- MODULE LiveSnapshot -----------------------------
(***************************************************************************)
(* The catalogue snapshot (app/catalog.py): the sweep that pages through   *)
(* the configured instance, its process-wide cache, and the fall back to   *)
(* the bundled sample.  Request threads run it without a lock; the event   *)
(* loop may save settings between two of their pages.                      *)
(*                                                                         *)
(* A page is one HTTP exchange of PDCClient.entities and carries one       *)
(* entity; what the sweep counts is SweepAggregate's.  A save is one step  *)
(* here: its field-by-field writes are PdcClient's.  Outages, HTTP errors, *)
(* lost tokens and entities that cannot be aggregated are one action each  *)
(* call may take at any point of its sweep.                                *)
(***************************************************************************)
EXTENDS Naturals, FiniteSets

CONSTANTS
    Threads, EventLoop,
    Hosts,       \* PDC instances
    PageCount,   \* PageCount[h]: the pages of h's catalogue that hold something
    SweepMax,    \* _SWEEP_MAX, in entities
    NoSnap,
    Initial,     \* [host, ttl, demo] the process started with
    Saves,       \* what the Settings page may save
    SweepTime,   \* the longest a call takes
    MaxTtl, MaxTime, MaxCalls, MaxSaves  \* bounds

Config == [host: Hosts, ttl: 0..MaxTtl, demo: BOOLEAN]
Pages == [host: Hosts, page: Nat, at: Nat]
\* roots: the instances data_sources listed; none when it swallowed an error.
\* asked is history: the instances that were asked for the listing or a page.
Snaps == [asked: SUBSET Hosts, roots: SUBSET Hosts, pages: SUBSET Pages,
          capped: BOOLEAN]
Points == {"idle", "check", "roots", "sweep", "build", "done"}
Outcomes == {"none", "sample", "noted", "live"}
NoSweep == [asked |-> {}, roots |-> {}, pages |-> {}, capped |-> FALSE]

ASSUME SnapshotAssumption ==
    /\ EventLoop \in Threads
    /\ PageCount \in [Hosts -> Nat]
    /\ SweepMax \in Nat \ {0}
    /\ NoSnap \notin Snaps
    /\ Initial \in Config
    /\ Saves \subseteq Config
    /\ SweepTime \in Nat
    /\ MaxTtl \in Nat \ {0}

VARIABLES
    cfg,      \* settings.pdc and INSIGHTS_DEMO
    live,     \* _LIVE_CACHE: [ts, snap]
    pc, ttl, cursor, sweep, out, result,  \* the calls
    now,
    began,    \* history: when a call began
    calls, saves

callVars == <<pc, ttl, cursor, sweep, out, result>>
vars == <<cfg, live, callVars, now, began, calls, saves>>

InFlight(t) == pc[t] \notin {"idle", "done"}

Init ==
    /\ cfg = Initial
    /\ live = [ts |-> 0, snap |-> NoSnap]
    /\ pc = [t \in Threads |-> "idle"]
    /\ ttl = [t \in Threads |-> 0]
    /\ cursor = [t \in Threads |-> 1]
    /\ sweep = [t \in Threads |-> NoSweep]
    /\ out = [t \in Threads |-> "none"]
    /\ result = [t \in Threads |-> NoSnap]
    /\ now = 0
    /\ began = [t \in Threads |-> 0]
    /\ calls = 0 /\ saves = 0

Goto(t, point) == pc' = [pc EXCEPT ![t] = point]

Finish(t, outcome, snap) ==
    /\ Goto(t, "done")
    /\ out' = [out EXCEPT ![t] = outcome]
    /\ result' = [result EXCEPT ![t] = snap]

\* catalog_snapshot: the sample at once when the demo is on, app-wide or for
\* this call; otherwise _live_snapshot, which reads the ttl once.
Call(t, forceDemo) ==
    /\ pc[t] = "idle"
    /\ calls < MaxCalls
    /\ calls' = calls + 1
    /\ began' = [began EXCEPT ![t] = now]
    /\ ttl' = [ttl EXCEPT ![t] = cfg.ttl]
    /\ \/ /\ forceDemo \/ cfg.demo
          /\ Finish(t, "sample", NoSnap)
       \/ /\ ~forceDemo /\ ~cfg.demo
          /\ Goto(t, "check")
          /\ UNCHANGED <<out, result>>
    /\ UNCHANGED <<cfg, live, cursor, sweep, now, saves>>

\* Mutant: the cache is believed whatever its age.
CachedForever(t) == ttl[t] > 0 /\ live.snap # NoSnap

Cached(t) ==
    /\ ttl[t] > 0
    /\ live.snap # NoSnap
    /\ now - live.ts < ttl[t]

Check(t) ==
    /\ pc[t] = "check"
    /\ \/ /\ Cached(t)
          /\ Finish(t, "live", live.snap)
       \/ /\ ~Cached(t)
          /\ Goto(t, "roots")
          /\ UNCHANGED <<out, result>>
    /\ UNCHANGED <<cfg, live, ttl, cursor, sweep, now, began, calls, saves>>

\* client.data_sources(): both of its reads swallow their errors, and an empty
\* list goes on to the sweep like any other.
Roots(t) ==
    /\ pc[t] = "roots"
    /\ Goto(t, "sweep")
    /\ \E roots \in {{}, {cfg.host}} :
         sweep' = [sweep EXCEPT ![t].asked = {cfg.host}, ![t].roots = roots]
    /\ UNCHANGED <<cfg, live, ttl, cursor, out, result, now, began, calls, saves>>

\* Mutant: the sweep ends with the first page.
AfterPageFirst(t) == "build"

\* What follows a page: the next one, the end of the catalogue, or the cap.
Capped(t) == cursor[t] > SweepMax
AfterPage(t) ==
    IF Capped(t) \/ cursor[t] >= PageCount[cfg.host] THEN "build" ELSE "sweep"

\* The entity beyond the cap ends the sweep and is not aggregated.
ReadPage(t) ==
    /\ pc[t] = "sweep"
    /\ cursor[t] <= PageCount[cfg.host]
    /\ Goto(t, AfterPage(t))
    /\ cursor' = [cursor EXCEPT ![t] = @ + 1]
    /\ sweep' = [sweep EXCEPT
         ![t].asked = @ \cup {cfg.host},
         ![t].pages = IF Capped(t) THEN @
                      ELSE @ \cup {[host |-> cfg.host, page |-> cursor[t], at |-> now]},
         ![t].capped = Capped(t)]
    /\ UNCHANGED <<cfg, live, ttl, out, result, now, began, calls, saves>>

\* The cursor is of the page before, and another instance gave it.
Foreign(t) == \E p \in sweep[t].pages : p.page = cursor[t] - 1 /\ p.host # cfg.host

\* No data and no cursor: an empty catalogue, or what an instance may make of the
\* cursor of another.  Either way the sweep is over (a foreign cursor may as well
\* be taken for a position, ReadPage, or be refused, Degrade).
ReadNothing(t) ==
    /\ pc[t] = "sweep"
    /\ PageCount[cfg.host] = 0 \/ Foreign(t)
    /\ Goto(t, "build")
    /\ sweep' = [sweep EXCEPT ![t].asked = @ \cup {cfg.host}]
    /\ UNCHANGED <<cfg, live, ttl, cursor, out, result, now, began, calls, saves>>

\* Any exception of the sweep or of the aggregation: the sample and a note.
Degrade(t) ==
    /\ pc[t] \in {"sweep", "build"}
    /\ Finish(t, "noted", NoSnap)
    /\ UNCHANGED <<cfg, live, ttl, cursor, sweep, now, began, calls, saves>>

\* The snapshot is built and cached, stamped with the time the sweep ended.
Build(t) ==
    /\ pc[t] = "build"
    /\ Finish(t, "live", sweep[t])
    /\ live' = IF ttl[t] > 0 THEN [ts |-> now, snap |-> sweep[t]] ELSE live
    /\ UNCHANGED <<cfg, ttl, cursor, sweep, now, began, calls, saves>>

\* Mutant: a thread's next call still holds the snapshot of the last.
ReturnKeepsResult(t) ==
    /\ pc[t] = "done"
    /\ Goto(t, "idle")
    /\ ttl' = [ttl EXCEPT ![t] = 0]
    /\ cursor' = [cursor EXCEPT ![t] = 1]
    /\ sweep' = [sweep EXCEPT ![t] = NoSweep]
    /\ out' = [out EXCEPT ![t] = "none"]
    /\ UNCHANGED <<cfg, live, result, now, began, calls, saves>>

Return(t) ==
    /\ pc[t] = "done"
    /\ Goto(t, "idle")
    /\ ttl' = [ttl EXCEPT ![t] = 0]
    /\ cursor' = [cursor EXCEPT ![t] = 1]
    /\ sweep' = [sweep EXCEPT ![t] = NoSweep]
    /\ out' = [out EXCEPT ![t] = "none"]
    /\ result' = [result EXCEPT ![t] = NoSnap]
    /\ UNCHANGED <<cfg, live, now, began, calls, saves>>

-----------------------------------------------------------------------------
\* apply_settings on the event loop, between two of its handlers: _reset_runtime
\* resets the client and leaves _LIVE_CACHE alone.
Save(c) ==
    /\ pc[EventLoop] = "idle"
    /\ saves < MaxSaves
    /\ cfg' = c
    /\ saves' = saves + 1
    /\ UNCHANGED <<live, callVars, now, began, calls>>

Tick ==
    /\ now < MaxTime
    /\ \A t \in Threads : InFlight(t) => now - began[t] < SweepTime
    /\ now' = now + 1
    /\ UNCHANGED <<cfg, live, callVars, began, calls, saves>>

Step(t) ==
    \/ Check(t) \/ Roots(t) \/ ReadPage(t) \/ ReadNothing(t)
    \/ Degrade(t) \/ Build(t) \/ Return(t)

Next ==
    \/ \E t \in Threads, forceDemo \in BOOLEAN : Call(t, forceDemo)
    \/ \E t \in Threads : Step(t)
    \/ \E c \in Saves : Save(c)
    \/ Tick

Spec == Init /\ [][Next]_vars

-----------------------------------------------------------------------------
TypeOK ==
    /\ cfg \in Config
    /\ live \in [ts: Nat, snap: Snaps \cup {NoSnap}]
    /\ pc \in [Threads -> Points]
    /\ ttl \in [Threads -> 0..MaxTtl]
    /\ cursor \in [Threads -> Nat \ {0}]
    /\ sweep \in [Threads -> Snaps]
    /\ out \in [Threads -> Outcomes]
    /\ result \in [Threads -> Snaps \cup {NoSnap}]
    /\ \A t \in Threads : out[t] = "live" <=> result[t] # NoSnap
    /\ now \in Nat
    /\ began \in [Threads -> Nat]

Answered(t) == pc[t] = "done" /\ out[t] = "live"

\* A live snapshot of one instance is whole: its listing and every page up to
\* the end of the catalogue or the cap are of that instance, whatever failed
\* before, whoever swept and whoever is served.  The exception is in asked: when
\* a save put another instance in force during the sweep, the snapshot is of both
\* or ends where the second one took the cursor of the first for the last.
Whole(snap, h) ==
    /\ snap.roots \subseteq {h}
    /\ \A p \in snap.pages : p.host = h
    /\ {p.page : p \in snap.pages} = 1..(IF snap.capped THEN SweepMax ELSE PageCount[h])
WholeOrMixed ==
    \A t \in Threads, h \in Hosts :
        Answered(t) /\ result[t].asked = {h} => Whole(result[t], h)

\* No number on a dashboard is older than the ttl and the sweep together, though
\* the cache is stamped when a sweep ends and not when it read.
AgeBounded ==
    [][\A t \in Threads : Answered(t)' /\ ~Answered(t) =>
         \A p \in result'[t].pages : now - p.at < MaxTtl + SweepTime]_vars
=============================================================================
