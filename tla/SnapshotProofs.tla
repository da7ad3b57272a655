---------------------------- MODULE SnapshotProofs ----------------------------
(***************************************************************************)
(* Proofs about a catalogue snapshot and what is shown of it.              *)
(*                                                                         *)
(* LiveSnapshot: for any threads, instances, sizes of their catalogues,    *)
(* caps and bounds, a live snapshot of one instance is whole, and none is  *)
(* too old.                                                                *)
(*                                                                         *)
(* PanelBoard: for any snapshots that catalog_snapshot may answer and any  *)
(* boards, a board is complete, its bars add up, its tiles and charts      *)
(* agree, the scopes add up to the whole, a drill-down covers its scope    *)
(* and signals come before the evergreen suggestions.                      *)
(***************************************************************************)
EXTENDS LiveSnapshot, PanelBoard, FiniteSetTheorems, SequenceTheorems, WellFoundedInduction, TLAPS

\* A snapshot for which one instance was asked is whole.
WholeSnap(snap) == \A h \in Hosts : snap.asked = {h} => Whole(snap, h)

\* What a sweep holds comes from the instances it asked, and from their catalogues.
FromAsked(s) ==
    /\ s.roots \subseteq s.asked
    /\ \A p \in s.pages : p.host \in s.asked /\ 1 <= p.page /\ p.page <= PageCount[p.host]

\* Where a sweep is: the pages below the cursor, until it ends.
Progress(t) ==
    /\ pc[t] \in {"idle", "check", "roots"} => cursor[t] = 1 /\ sweep[t] = NoSweep
    /\ pc[t] = "sweep" =>
          /\ {p.page : p \in sweep[t].pages} = 1..(cursor[t] - 1)
          /\ cursor[t] <= SweepMax + 1 /\ ~sweep[t].capped
          /\ FromAsked(sweep[t])
    /\ pc[t] = "build" => WholeSnap(sweep[t])
    /\ result[t] # NoSnap => WholeSnap(result[t])
AllWhole ==
    /\ \A t \in Threads : Progress(t)
    /\ live.snap # NoSnap => WholeSnap(live.snap)

\* When the pages of a call, and of the cache, were read.
Aged(t) ==
    InFlight(t) =>
      /\ began[t] <= now /\ now - began[t] <= SweepTime
      /\ \A p \in sweep[t].pages : began[t] <= p.at /\ p.at <= now
CacheAged ==
    live.snap # NoSnap =>
      /\ live.ts <= now
      /\ \A p \in live.snap.pages : p.at <= live.ts /\ live.ts - p.at <= SweepTime
AllAged == CacheAged /\ \A t \in Threads : Aged(t)

------------------------------------------------------------------------------
(* Types. *)

\* The page a thread reads next.
NextPage(t) == [host |-> cfg.host, page |-> cursor[t], at |-> now]

\* The fields of the page a thread reads.
LEMMA NextPageFields ==
  ASSUME TypeOK, NEW t \in Threads
  PROVE  /\ NextPage(t) \in Pages /\ NextPage(t).host = cfg.host
         /\ NextPage(t).page = cursor[t] /\ NextPage(t).at = now
BY DEF TypeOK, Pages, Config, NextPage

\* What a read of a page does to the sweeps.
LEMMA PageRead ==
  ASSUME TypeOK, NEW t \in Threads, ReadPage(t)
  PROVE  /\ sweep' \in [Threads -> Snaps]
         /\ sweep'[t].asked = sweep[t].asked \cup {cfg.host}
         /\ sweep'[t].roots = sweep[t].roots
         /\ Capped(t) => sweep'[t].pages = sweep[t].pages
         /\ ~Capped(t) => sweep'[t].pages = sweep[t].pages \cup {NextPage(t)}
         /\ sweep'[t].capped = Capped(t)
         /\ \A u \in Threads : u # t => sweep'[u] = sweep[u]
<1> DEFINE pages == IF Capped(t) THEN sweep[t].pages ELSE sweep[t].pages \cup {NextPage(t)}
           capped == Capped(t)
           asked == sweep[t].asked \cup {cfg.host}
           s == [sweep[t] EXCEPT !.asked = asked, !.pages = pages, !.capped = capped]
<1>1. sweep' = [sweep EXCEPT ![t] = s]
  BY DEF ReadPage, TypeOK, NextPage
<1>2. sweep[t] \in Snaps /\ sweep[t].pages \in SUBSET Pages /\ asked \in SUBSET Hosts
  BY DEF TypeOK, Snaps, Config
<1>3. pages \in SUBSET Pages /\ capped \in BOOLEAN
  BY <1>2, NextPageFields DEF Capped
<1>4. /\ Capped(t) => pages = sweep[t].pages
      /\ ~Capped(t) => pages = sweep[t].pages \cup {NextPage(t)}
  OBVIOUS
<1>5. capped = Capped(t) /\ asked = sweep[t].asked \cup {cfg.host}
  OBVIOUS
<1> HIDE DEF pages, capped, asked
<1>6. /\ s \in Snaps /\ s.pages = pages /\ s.capped = capped
      /\ s.asked = asked /\ s.roots = sweep[t].roots
  BY <1>2, <1>3 DEF Snaps
<1> HIDE DEF s
<1>7. sweep' \in [Threads -> Snaps] /\ sweep'[t] = s
      /\ \A u \in Threads : u # t => sweep'[u] = sweep[u]
  BY <1>1, <1>6 DEF TypeOK
<1> QED  BY <1>4, <1>5, <1>6, <1>7

\* What the listing does to the sweeps.
LEMMA RootsRead ==
  ASSUME TypeOK, NEW t \in Threads, Roots(t)
  PROVE  /\ sweep' \in [Threads -> Snaps]
         /\ sweep'[t].asked = {cfg.host} /\ sweep'[t].roots \subseteq {cfg.host}
         /\ sweep'[t].pages = sweep[t].pages /\ sweep'[t].capped = sweep[t].capped
         /\ \A u \in Threads : u # t => sweep'[u] = sweep[u]
<1>1. PICK roots \in {{}, {cfg.host}} :
        sweep' = [sweep EXCEPT ![t].asked = {cfg.host}, ![t].roots = roots]
  BY DEF Roots
<1> DEFINE s == [sweep[t] EXCEPT !.asked = {cfg.host}, !.roots = roots]
<1>0. sweep[t] \in Snaps /\ {cfg.host} \in SUBSET Hosts /\ roots \in SUBSET Hosts
  BY DEF TypeOK, Config
<1>2. /\ s \in Snaps /\ s.asked = {cfg.host} /\ s.roots = roots
      /\ s.pages = sweep[t].pages /\ s.capped = sweep[t].capped
  BY <1>0 DEF Snaps
<1>3. sweep' = [sweep EXCEPT ![t] = s]
  BY <1>1 DEF TypeOK
<1> HIDE DEF s
<1> QED  BY <1>2, <1>3 DEF TypeOK

\* What an empty page does to the sweeps.
LEMMA NothingRead ==
  ASSUME TypeOK, NEW t \in Threads, ReadNothing(t)
  PROVE  /\ sweep' \in [Threads -> Snaps]
         /\ sweep'[t].asked = sweep[t].asked \cup {cfg.host}
         /\ sweep'[t].roots = sweep[t].roots
         /\ sweep'[t].pages = sweep[t].pages /\ sweep'[t].capped = sweep[t].capped
         /\ \A u \in Threads : u # t => sweep'[u] = sweep[u]
<1> DEFINE s == [sweep[t] EXCEPT !.asked = sweep[t].asked \cup {cfg.host}]
<1>0. sweep[t] \in Snaps /\ sweep[t].asked \cup {cfg.host} \in SUBSET Hosts
  BY DEF TypeOK, Snaps, Config
<1>1. /\ s \in Snaps /\ s.asked = sweep[t].asked \cup {cfg.host} /\ s.roots = sweep[t].roots
      /\ s.pages = sweep[t].pages /\ s.capped = sweep[t].capped
  BY <1>0 DEF Snaps
<1>2. sweep' = [sweep EXCEPT ![t] = s]
  BY DEF ReadNothing, TypeOK
<1> HIDE DEF s
<1> QED  BY <1>1, <1>2 DEF TypeOK

\* A sweep that has read nothing.
LEMMA NoSweepType ==
  /\ NoSweep \in Snaps /\ NoSweep.pages = {} /\ ~NoSweep.capped
  /\ NoSweep.roots = {} /\ NoSweep.asked = {}
BY DEF NoSweep, Snaps

\* Every step keeps the types, and an answer goes with its snapshot.
LEMMA NextTypeOK == TypeOK /\ [Next]_vars => TypeOK'
<1> SUFFICES ASSUME TypeOK, [Next]_vars PROVE TypeOK'
  OBVIOUS
<1>1. CASE UNCHANGED vars
  BY <1>1 DEF vars, callVars, TypeOK
<1>2. ASSUME NEW t \in Threads, NEW forceDemo \in BOOLEAN, Call(t, forceDemo) PROVE TypeOK'
  BY <1>2 DEF Call, Finish, Goto, TypeOK, Points, Outcomes, Config
<1>3. ASSUME NEW t \in Threads, Check(t) PROVE TypeOK'
  BY <1>3 DEF Check, Cached, Finish, Goto, TypeOK, Points, Outcomes
<1>4. ASSUME NEW t \in Threads, Roots(t) PROVE TypeOK'
  BY <1>4, RootsRead DEF Roots, Goto, TypeOK, Points
<1>5. ASSUME NEW t \in Threads, ReadPage(t) PROVE TypeOK'
  <2>1. sweep' \in [Threads -> Snaps]
    BY <1>5, PageRead
  <2>2. cursor' \in [Threads -> Nat \ {0}] /\ pc' \in [Threads -> Points]
    BY <1>5 DEF ReadPage, Goto, AfterPage, TypeOK, Points
  <2> QED  BY <1>5, <2>1, <2>2 DEF ReadPage, TypeOK
<1>6. ASSUME NEW t \in Threads, Degrade(t) PROVE TypeOK'
  BY <1>6 DEF Degrade, Finish, Goto, TypeOK, Points, Outcomes
<1>7. ASSUME NEW t \in Threads, Build(t) PROVE TypeOK'
  BY <1>7, SnapshotAssumption DEF Build, Finish, Goto, TypeOK, Points, Outcomes
<1>8. ASSUME NEW t \in Threads, Return(t) PROVE TypeOK'
  <2>1. sweep' \in [Threads -> Snaps]
    BY <1>8, NoSweepType DEF Return, TypeOK
  <2>2. /\ pc' \in [Threads -> Points] /\ ttl' \in [Threads -> 0..MaxTtl]
        /\ cursor' \in [Threads -> Nat \ {0}] /\ out' \in [Threads -> Outcomes]
        /\ result' \in [Threads -> Snaps \cup {NoSnap}]
    BY <1>8, SnapshotAssumption DEF Return, Goto, TypeOK, Points, Outcomes
  <2>3. \A u \in Threads : out'[u] = "live" <=> result'[u] # NoSnap
    BY <1>8 DEF Return, TypeOK
  <2> QED  BY <1>8, <2>1, <2>2, <2>3 DEF Return, TypeOK
<1>9. ASSUME NEW c \in Saves, Save(c) PROVE TypeOK'
  BY <1>9, SnapshotAssumption DEF Save, callVars, TypeOK
<1>10. ASSUME NEW t \in Threads, ReadNothing(t) PROVE TypeOK'
  BY <1>10, NothingRead DEF ReadNothing, Goto, TypeOK, Points
<1>11. CASE Tick
  BY <1>11 DEF Tick, callVars, TypeOK
<1> QED
  BY <1>1, <1>2, <1>3, <1>4, <1>5, <1>6, <1>7, <1>8, <1>9, <1>10, <1>11 DEF Next, Step

\* The types of the cache and of every call, for any constants.
THEOREM SnapshotTypeCorrect == Spec => []TypeOK
<1>1. Init => TypeOK
  BY SnapshotAssumption, NoSweepType DEF Init, TypeOK, Config, Points, Outcomes
<1> QED  BY <1>1, NextTypeOK, PTL DEF Spec

------------------------------------------------------------------------------
(* Whole snapshots. *)

\* A sweep that ends is at the cap, or at the last page of the instance it reads.
LEMMA ReadPageWhole ==
  ASSUME TypeOK, NEW t \in Threads, Progress(t), ReadPage(t)
  PROVE  Progress(t)'
<1>1. /\ sweep'[t].asked = sweep[t].asked \cup {cfg.host} /\ sweep'[t].roots = sweep[t].roots
      /\ Capped(t) => sweep'[t].pages = sweep[t].pages
      /\ ~Capped(t) => sweep'[t].pages = sweep[t].pages \cup {NextPage(t)}
      /\ sweep'[t].capped = Capped(t)
      /\ NextPage(t).page = cursor[t] /\ NextPage(t).host = cfg.host
  BY PageRead, NextPageFields
<1>2. /\ {p.page : p \in sweep[t].pages} = 1..(cursor[t] - 1)
      /\ cursor[t] <= SweepMax + 1 /\ cursor[t] \in Nat \ {0} /\ SweepMax \in Nat \ {0}
      /\ cfg.host \in Hosts /\ PageCount[cfg.host] \in Nat
      /\ cursor[t] <= PageCount[cfg.host]
      /\ FromAsked(sweep[t])
  BY SnapshotAssumption DEF Progress, ReadPage, TypeOK, Config
<1>3. cursor'[t] = cursor[t] + 1 /\ pc'[t] = AfterPage(t) /\ result'[t] = result[t]
  BY DEF ReadPage, Goto, TypeOK
<1>4. result[t] # NoSnap => WholeSnap(result[t])
  BY DEF Progress
<1>5. FromAsked(sweep'[t])
  BY <1>1, <1>2 DEF FromAsked
<1>6. ASSUME NEW h \in Hosts, sweep'[t].asked = {h}
      PROVE  /\ h = cfg.host /\ sweep'[t].roots \subseteq {h}
             /\ \A p \in sweep'[t].pages : p.host = h
  BY <1>1, <1>5, <1>6 DEF FromAsked
<1>7. CASE Capped(t)
  <2>1. cursor[t] - 1 = SweepMax
    BY <1>2, <1>7 DEF Capped
  <2>2. {p.page : p \in sweep'[t].pages} = 1..SweepMax
    BY <1>1, <1>2, <1>7, <2>1
  <2>3. sweep'[t].capped
    BY <1>1, <1>7
  <2>4. WholeSnap(sweep'[t])
    BY <1>6, <2>2, <2>3 DEF WholeSnap, Whole
  <2>5. pc'[t] = "build"
    BY <1>3, <1>7 DEF AfterPage
  <2> QED  BY <1>3, <1>4, <2>4, <2>5 DEF Progress
<1>8. CASE ~Capped(t)
  <2>1. {p.page : p \in sweep'[t].pages} = {p.page : p \in sweep[t].pages} \cup {cursor[t]}
    BY <1>1, <1>8
  <2>2. {p.page : p \in sweep'[t].pages} = 1..cursor[t]
    <3>1. cursor[t] \in Nat \ {0} => (1..(cursor[t] - 1)) \cup {cursor[t]} = 1..cursor[t]
      OBVIOUS
    <3> QED BY <1>2, <2>1, <3>1
  <2>3. ~sweep'[t].capped
    BY <1>1, <1>8
  <2>4. CASE cursor[t] >= PageCount[cfg.host]
    <3>1. cursor[t] = PageCount[cfg.host]
      BY <1>2, <2>4
    <3>2. WholeSnap(sweep'[t])
      BY <1>6, <2>2, <2>3, <3>1 DEF WholeSnap, Whole
    <3>3. pc'[t] = "build"
      BY <1>3, <2>4 DEF AfterPage
    <3> QED  BY <1>3, <1>4, <3>2, <3>3 DEF Progress
  <2>5. CASE ~(cursor[t] >= PageCount[cfg.host])
    <3>1. pc'[t] = "sweep"
      BY <1>3, <1>8, <2>5 DEF AfterPage
    <3>2. cursor'[t] - 1 = cursor[t] /\ cursor'[t] <= SweepMax + 1
      BY <1>2, <1>3, <1>8 DEF Capped
    <3> QED  BY <1>3, <1>4, <1>5, <2>2, <2>3, <3>1, <3>2 DEF Progress
  <2> QED  BY <2>4, <2>5
<1> QED  BY <1>7, <1>8

\* An empty page of the only instance asked means an empty catalogue: a cursor of
\* its own is never foreign to it.
LEMMA ReadNothingWhole ==
  ASSUME TypeOK, NEW t \in Threads, Progress(t), ReadNothing(t)
  PROVE  Progress(t)'
<1>1. /\ sweep'[t].asked = sweep[t].asked \cup {cfg.host} /\ sweep'[t].roots = sweep[t].roots
      /\ sweep'[t].pages = sweep[t].pages /\ sweep'[t].capped = sweep[t].capped
  BY NothingRead
<1>2. /\ FromAsked(sweep[t]) /\ ~sweep[t].capped
      /\ PageCount[cfg.host] = 0 \/ \E p \in sweep[t].pages : p.host # cfg.host
  BY DEF Progress, ReadNothing, Foreign
<1>3. ASSUME NEW h \in Hosts, sweep'[t].asked = {h} PROVE Whole(sweep'[t], h)
  <2>1. /\ h = cfg.host /\ sweep'[t].roots \subseteq {h}
        /\ \A p \in sweep[t].pages : p.host = h
    BY <1>1, <1>2, <1>3 DEF FromAsked
  <2>2. PageCount[h] = 0
    BY <1>2, <2>1
  <2>3. sweep[t].pages = {}
    <3>1. ASSUME NEW p \in sweep[t].pages PROVE FALSE
      <4>1. p.page \in Nat
        BY <3>1 DEF TypeOK, Snaps, Pages
      <4> QED  BY <1>2, <2>1, <2>2, <4>1 DEF FromAsked
    <3> QED  BY <3>1
  <2>4. {p.page : p \in sweep'[t].pages} = 1..0
    BY <1>1, <2>3
  <2> QED  BY <1>1, <1>2, <2>1, <2>2, <2>4 DEF Whole
<1>4. pc'[t] = "build" /\ result'[t] = result[t] /\ (result[t] # NoSnap => WholeSnap(result[t]))
  BY DEF ReadNothing, Goto, TypeOK, Progress
<1> QED  BY <1>3, <1>4 DEF Progress, WholeSnap

\* A step of one thread leaves where the others are.
LEMMA OthersProgress ==
  ASSUME NEW t, NEW u, Progress(u), u # t,
         pc'[u] = pc[u], cursor'[u] = cursor[u], sweep'[u] = sweep[u], result'[u] = result[u]
  PROVE  Progress(u)'
BY DEF Progress

\* Every step keeps the sweeps, the cache and the answers whole.
LEMMA NextAllWhole == TypeOK /\ AllWhole /\ [Next]_vars => AllWhole'
<1> SUFFICES ASSUME TypeOK, AllWhole, [Next]_vars PROVE AllWhole'
  OBVIOUS
<1> USE DEF AllWhole
<1>1. CASE UNCHANGED <<callVars, live>>
  BY <1>1 DEF callVars, Progress
<1>2. ASSUME NEW t \in Threads, NEW forceDemo \in BOOLEAN, Call(t, forceDemo) PROVE AllWhole'
  BY <1>2 DEF Call, Finish, Goto, TypeOK, Progress
<1>3. ASSUME NEW t \in Threads, Check(t) PROVE AllWhole'
  BY <1>3 DEF Check, Cached, Finish, Goto, TypeOK, Progress
<1>4. ASSUME NEW t \in Threads, Roots(t) PROVE AllWhole'
  <2>1. sweep[t] = NoSweep /\ cursor[t] = 1 /\ cursor' = cursor /\ result' = result /\ live' = live
    BY <1>4 DEF Roots, Progress
  <2>2. /\ sweep'[t].pages = {} /\ ~sweep'[t].capped
        /\ sweep'[t].asked = {cfg.host} /\ sweep'[t].roots \subseteq {cfg.host}
        /\ \A u \in Threads : u # t => sweep'[u] = sweep[u]
    BY <1>4, <2>1, RootsRead, NoSweepType
  <2>3. pc'[t] = "sweep" /\ \A u \in Threads : u # t => pc'[u] = pc[u]
    BY <1>4 DEF Roots, Goto, TypeOK
  <2>4. 1..0 = {} /\ 1 <= SweepMax + 1
    BY SnapshotAssumption
  <2>5. Progress(t)'
    BY <2>1, <2>2, <2>3, <2>4 DEF Progress, FromAsked
  <2>6. \A u \in Threads : u # t => Progress(u)'
    BY <2>1, <2>2, <2>3, OthersProgress
  <2> QED  BY <2>1, <2>5, <2>6
<1>5. ASSUME NEW t \in Threads, ReadPage(t) PROVE AllWhole'
  <2>1. Progress(t)'
    BY <1>5, ReadPageWhole
  <2>2. ASSUME NEW u \in Threads, u # t PROVE Progress(u)'
    <3>1. /\ pc'[u] = pc[u] /\ cursor'[u] = cursor[u] /\ sweep'[u] = sweep[u]
          /\ result'[u] = result[u] /\ Progress(u)
      BY <1>5, <2>2, PageRead DEF ReadPage, Goto, TypeOK
    <3> QED  BY <2>2, <3>1, OthersProgress
  <2> QED  BY <1>5, <2>1, <2>2 DEF ReadPage
<1>6. ASSUME NEW t \in Threads, Degrade(t) PROVE AllWhole'
  BY <1>6, OthersProgress DEF Degrade, Finish, Goto, TypeOK, Progress
<1>7. ASSUME NEW t \in Threads, Build(t) PROVE AllWhole'
  BY <1>7 DEF Build, Finish, Goto, TypeOK, Progress
<1>8. ASSUME NEW t \in Threads, Return(t) PROVE AllWhole'
  BY <1>8 DEF Return, Goto, TypeOK, Progress
<1>9. ASSUME NEW t \in Threads, ReadNothing(t) PROVE AllWhole'
  <2>1. Progress(t)'
    BY <1>9, ReadNothingWhole
  <2>2. ASSUME NEW u \in Threads, u # t PROVE Progress(u)'
    <3>1. /\ pc'[u] = pc[u] /\ cursor'[u] = cursor[u] /\ sweep'[u] = sweep[u]
          /\ result'[u] = result[u] /\ Progress(u)
      BY <1>9, <2>2, NothingRead DEF ReadNothing, Goto, TypeOK
    <3> QED  BY <2>2, <3>1, OthersProgress
  <2> QED  BY <1>9, <2>1, <2>2 DEF ReadNothing
<1> QED
  BY <1>1, <1>2, <1>3, <1>4, <1>5, <1>6, <1>7, <1>8, <1>9
     DEF Next, Step, Save, Tick, vars

\* For any sizes, caps, saves, failures and threads: a live snapshot for which one
\* instance was asked has its listing and every page up to the end or the cap of
\* that instance, also when it was cached by another call.
THEOREM AlwaysWhole == Spec => []WholeOrMixed
<1>1. Init => AllWhole
  BY DEF Init, AllWhole, Progress
<1>2. Spec => []AllWhole
  BY <1>1, NextAllWhole, SnapshotTypeCorrect, PTL DEF Spec
<1>3. TypeOK /\ AllWhole => WholeOrMixed
  BY DEF TypeOK, AllWhole, Progress, WholeOrMixed, Answered, WholeSnap
<1> QED  BY <1>2, <1>3, SnapshotTypeCorrect, PTL

------------------------------------------------------------------------------
(* Ages. *)

\* Every step keeps the ages: a sweep's pages are no older than the sweep, and the
\* cache's no older than its stamp and one sweep.
LEMMA NextAllAged == TypeOK /\ AllWhole /\ AllAged /\ [Next]_vars => AllAged'
<1> SUFFICES ASSUME TypeOK, AllWhole, AllAged, [Next]_vars PROVE AllAged'
  OBVIOUS
<1>1. /\ now \in Nat /\ SweepTime \in Nat /\ began \in [Threads -> Nat] /\ live.ts \in Nat
      /\ \A t \in Threads : \A p \in sweep[t].pages : p.at \in Nat
      /\ live.snap # NoSnap => \A p \in live.snap.pages : p.at \in Nat
  BY SnapshotAssumption DEF TypeOK, Snaps, Pages
<1>2. CASE UNCHANGED <<live, now, began, pc, sweep>>
  BY <1>2 DEF AllAged, CacheAged, Aged, InFlight
<1>3. ASSUME NEW t \in Threads, NEW forceDemo \in BOOLEAN, Call(t, forceDemo) PROVE AllAged'
  <2>1. sweep[t].pages = {} /\ now' = now /\ live' = live /\ sweep' = sweep
    BY <1>3, NoSweepType DEF Call, AllWhole, Progress
  <2>2. began'[t] = now /\ \A u \in Threads : u # t => began'[u] = began[u] /\ pc'[u] = pc[u]
    BY <1>3 DEF Call, Finish, Goto, TypeOK
  <2> QED  BY <1>1, <2>1, <2>2 DEF AllAged, CacheAged, Aged, InFlight
<1>4. ASSUME NEW t \in Threads, Check(t) \/ Degrade(t) PROVE AllAged'
  BY <1>4 DEF Check, Degrade, Finish, Goto, TypeOK, AllAged, CacheAged, Aged, InFlight
<1>5. ASSUME NEW t \in Threads, Roots(t) PROVE AllAged'
  <2>1. /\ sweep'[t].pages = sweep[t].pages /\ live' = live /\ now' = now /\ began' = began
        /\ \A u \in Threads : u # t => sweep'[u] = sweep[u] /\ pc'[u] = pc[u]
        /\ InFlight(t)
    BY <1>5, RootsRead DEF Roots, Goto, TypeOK, InFlight
  <2> QED  BY <2>1 DEF AllAged, CacheAged, Aged, InFlight
<1>6. ASSUME NEW t \in Threads, ReadPage(t) PROVE AllAged'
  <2>1. /\ \A p \in sweep'[t].pages : p \in sweep[t].pages \/ p.at = now
        /\ \A u \in Threads : u # t => sweep'[u] = sweep[u]
    BY <1>6, PageRead, NextPageFields
  <2>2. /\ live' = live /\ now' = now /\ began' = began /\ InFlight(t)
        /\ \A u \in Threads : u # t => pc'[u] = pc[u]
    BY <1>6 DEF ReadPage, Goto, TypeOK, InFlight
  <2> QED  BY <1>1, <2>1, <2>2 DEF AllAged, CacheAged, Aged, InFlight
<1>7. ASSUME NEW t \in Threads, Build(t) PROVE AllAged'
  <2>1. /\ now' = now /\ began' = began /\ sweep' = sweep /\ InFlight(t)
        /\ \A u \in Threads : u # t => pc'[u] = pc[u]
        /\ pc'[t] = "done"
    BY <1>7 DEF Build, Finish, Goto, TypeOK, InFlight
  <2>2. \A p \in sweep[t].pages : p.at <= now /\ now - p.at <= SweepTime
    BY <1>1, <2>1 DEF AllAged, Aged
  <2>3. CacheAged'
    BY <1>1, <1>7, <2>1, <2>2 DEF Build, AllAged, CacheAged
  <2> QED  BY <2>1, <2>3 DEF AllAged, Aged, InFlight
<1>8. ASSUME NEW t \in Threads, Return(t) PROVE AllAged'
  BY <1>8 DEF Return, Goto, TypeOK, AllAged, CacheAged, Aged, InFlight
<1>9. CASE Tick
  <2>1. /\ now' = now + 1 /\ live' = live /\ began' = began /\ pc' = pc /\ sweep' = sweep
        /\ \A t \in Threads : InFlight(t) => now - began[t] < SweepTime
    BY <1>9 DEF Tick, callVars
  <2> QED  BY <1>1, <2>1 DEF AllAged, CacheAged, Aged, InFlight
<1>10. ASSUME NEW t \in Threads, ReadNothing(t) PROVE AllAged'
  <2>1. /\ sweep'[t].pages = sweep[t].pages /\ live' = live /\ now' = now /\ began' = began
        /\ \A u \in Threads : u # t => sweep'[u] = sweep[u] /\ pc'[u] = pc[u]
        /\ InFlight(t)
    BY <1>10, NothingRead DEF ReadNothing, Goto, TypeOK, InFlight
  <2> QED  BY <2>1 DEF AllAged, CacheAged, Aged, InFlight
<1> QED
  BY <1>2, <1>3, <1>4, <1>5, <1>6, <1>7, <1>8, <1>9, <1>10
     DEF Next, Step, Save, vars, callVars

\* For any ttls and sweeps: no number that is served is older than the longest ttl
\* and the longest sweep together.
THEOREM AlwaysAgeBounded == Spec => AgeBounded
<1>1. Init => AllWhole /\ AllAged
  BY DEF Init, AllWhole, Progress, AllAged, CacheAged, Aged, InFlight
<1>2. TypeOK /\ AllAged /\ [Next]_vars =>
        [\A t \in Threads : Answered(t)' /\ ~Answered(t) =>
           \A p \in result'[t].pages : now - p.at < MaxTtl + SweepTime]_vars
  <2> SUFFICES ASSUME TypeOK, AllAged, Next, NEW t \in Threads, Answered(t)', ~Answered(t)
               PROVE  \A p \in result'[t].pages : now - p.at < MaxTtl + SweepTime
    OBVIOUS
  <2>1. /\ now \in Nat /\ SweepTime \in Nat /\ MaxTtl \in Nat \ {0} /\ live.ts \in Nat
        /\ ttl[t] \in 0..MaxTtl /\ began[t] \in Nat
        /\ \A p \in sweep[t].pages : p.at \in Nat
        /\ live.snap # NoSnap => \A p \in live.snap.pages : p.at \in Nat
    BY SnapshotAssumption DEF TypeOK, Snaps, Pages
  <2>2. \/ pc[t] = "check" /\ Cached(t) /\ result'[t] = live.snap
        \/ pc[t] = "build" /\ result'[t] = sweep[t]
    <3>1. pc'[t] = "done" /\ out'[t] = "live" /\ ~(pc[t] = "done" /\ out[t] = "live")
      BY DEF Answered
    <3>2. ASSUME NEW u \in Threads, NEW forceDemo \in BOOLEAN, Call(u, forceDemo) PROVE FALSE
      BY <3>1, <3>2 DEF Call, Finish, Goto, TypeOK
    <3>3. ASSUME NEW u \in Threads, Roots(u) \/ ReadPage(u) \/ ReadNothing(u) \/ Degrade(u)
                                  \/ Return(u) PROVE FALSE
      BY <3>1, <3>3 DEF Roots, ReadPage, AfterPage, ReadNothing, Degrade, Return, Finish, Goto, TypeOK
    <3>4. ASSUME UNCHANGED callVars PROVE FALSE
      BY <3>1, <3>4 DEF callVars
    <3>5. ASSUME NEW u \in Threads, Check(u) \/ Build(u)
          PROVE  \/ pc[t] = "check" /\ Cached(t) /\ result'[t] = live.snap
                 \/ pc[t] = "build" /\ result'[t] = sweep[t]
      BY <3>1, <3>5 DEF Check, Build, Finish, Goto, TypeOK
    <3> QED  BY <3>2, <3>3, <3>4, <3>5 DEF Next, Step, Save, Tick
  <2>3. CASE pc[t] = "check" /\ Cached(t) /\ result'[t] = live.snap
    BY <2>1, <2>3 DEF Cached, AllAged, CacheAged
  <2>4. CASE pc[t] = "build" /\ result'[t] = sweep[t]
    BY <2>1, <2>4 DEF AllAged, Aged, InFlight
  <2> QED  BY <2>2, <2>3, <2>4
<1> QED  BY <1>1, <1>2, NextAllWhole, NextAllAged, SnapshotTypeCorrect, PTL DEF Spec, AgeBounded

------------------------------------------------------------------------------
(* Sums: FoldFunction on the domain is the number of marks, x of each. *)

\* A nonempty set of numbers has a least one.
LEMMA LeastNumber ==
  ASSUME NEW S, S \subseteq Nat, S # {}
  PROVE  \E m \in S : \A k \in S : m <= k
<1> DEFINE R == OpToRel(<, Nat)
<1>1. IsWellFoundedOn(R, Nat)
  BY NatLessThanWellFounded
<1>2. \A x, y \in Nat : <<x, y>> \in R <=> x < y
  BY DEF OpToRel
<1> HIDE DEF R
<1>3. PICK m \in S : \A k \in S : ~ (<<k, m>> \in R)
  BY <1>1, WFMin
<1>4. ASSUME NEW k \in S PROVE m <= k
  <2>1. k \in Nat /\ m \in Nat /\ ~ (<<k, m>> \in R)
    BY <1>3
  <2> QED  BY <1>2, <2>1
<1> QED  BY <1>4

\* Of a family of finite sets, one is smallest.
LEMMA SmallestSet ==
  ASSUME NEW W, W # {}, \A S \in W : IsFiniteSet(S)
  PROVE  \E S \in W : \A R \in W : Cardinality(S) <= Cardinality(R)
<1> DEFINE sizes == {Cardinality(S) : S \in W}
<1>1. sizes # {} /\ sizes \subseteq Nat
  BY FS_CardinalityType
<1>2. PICK m \in sizes : \A k \in sizes : m <= k
  BY <1>1, LeastNumber
<1> QED  BY <1>2

------------------------------------------------------------------------------
(* Sums of natural numbers. *)

SumOn(f, S) == FoldFunctionOnSet(LAMBDA v, sum : v + sum, 0, f, S)
Pick(S) == CHOOSE x \in S : TRUE

\* 1 to n are n.
LEMMA IntervalSize == \A n \in Nat : IsFiniteSet(1..n) /\ Cardinality(1..n) = n
<1> SUFFICES ASSUME NEW n \in Nat PROVE IsFiniteSet(1..n) /\ Cardinality(1..n) = n
  OBVIOUS
<1>1. /\ IsFiniteSet(1..n)
      /\ Cardinality(1..n) = IF 1 > n THEN 0 ELSE n - 1 + 1
  BY FS_Interval
<1> QED  BY <1>1

\* A number as a set: f[d] marks for each d of S.
Marks(f, S) == UNION {{d} \X (1..f[d]) : d \in S}

\* g sums f over the subsets of D, one element after the other.
Sums(g, f, D) ==
    /\ g = [S \in SUBSET D |-> g[S]]
    /\ \A S \in SUBSET D :
         g[S] = IF S = {} THEN 0 ELSE f[Pick(S)] + g[S \ {Pick(S)}]

\* The marks of a finite set are finitely many.
LEMMA MarksFinite ==
  ASSUME NEW f, NEW S, IsFiniteSet(S), \A d \in S : f[d] \in Nat
  PROVE  IsFiniteSet(Marks(f, S)) /\ Cardinality(Marks(f, S)) \in Nat
<1> DEFINE Mark(d) == {d} \X (1..f[d])
           all == {Mark(d) : d \in S}
<1>1. IsFiniteSet(all)
  <2> DEFINE g == [d \in S |-> Mark(d)]
  <2>1. g \in Surjection(S, all)
    BY DEF Surjection
  <2> QED  BY <2>1, FS_Surjection
<1>2. ASSUME NEW d \in S PROVE IsFiniteSet(Mark(d))
  <2>1. IsFiniteSet({d}) /\ IsFiniteSet(1..f[d])
    BY FS_Singleton, IntervalSize
  <2> QED  BY <2>1, FS_Product
<1>3. IsFiniteSet(UNION all)
  <2>1. \A R \in all : IsFiniteSet(R)
    BY <1>2
  <2> HIDE DEF all
  <2> QED  BY <1>1, <2>1, FS_UNION
<1>4. Marks(f, S) = UNION all
  BY DEF Marks
<1> QED  BY <1>3, <1>4, FS_CardinalityType

\* With one more element the marks grow by its number.
LEMMA MarksGrow ==
  ASSUME NEW f, NEW S, IsFiniteSet(S), \A d \in S : f[d] \in Nat, NEW x \in S
  PROVE  Cardinality(Marks(f, S)) = f[x] + Cardinality(Marks(f, S \ {x}))
<1> DEFINE U == Marks(f, S \ {x})
           M == {x} \X (1..f[x])
<1>1. Marks(f, S) = M \cup U
  BY DEF Marks
<1>2. M \cap U = {}
  BY DEF Marks
<1>3. IsFiniteSet(S \ {x}) /\ IsFiniteSet({x}) /\ IsFiniteSet(1..f[x]) /\ f[x] \in Nat
  BY FS_RemoveElement, FS_Singleton, IntervalSize
<1>4. IsFiniteSet(U) /\ Cardinality(U) \in Nat
  BY <1>3, MarksFinite
<1>5. IsFiniteSet(M) /\ Cardinality(M) = f[x]
  <2>1. Cardinality({x}) = 1 /\ Cardinality(1..f[x]) = f[x]
    BY <1>3, FS_Singleton, IntervalSize
  <2>2. IsFiniteSet(M) /\ Cardinality(M) = Cardinality({x}) * Cardinality(1..f[x])
    BY <1>3, FS_Product
  <2> QED  BY <1>3, <2>1, <2>2
<1>6. Cardinality(M \cup U) = Cardinality(M) + Cardinality(U) - Cardinality(M \cap U)
  BY <1>4, <1>5, FS_Union
<1>7. Cardinality(M \cap U) = 0
  BY <1>2, FS_EmptySet
<1> HIDE DEF M, U
<1>8. Cardinality(M \cup U) = f[x] + Cardinality(U)
  BY <1>3, <1>4, <1>5, <1>6, <1>7
<1> QED  BY <1>1, <1>8 DEF U

\* Marks are what is summed.
LEMMA MarksSum ==
  ASSUME NEW f, NEW D, IsFiniteSet(D), \A d \in D : f[d] \in Nat
  PROVE  \E g : Sums(g, f, D)
<1> DEFINE g == [S \in SUBSET D |-> Cardinality(Marks(f, S))]
<1>1. ASSUME NEW S \in SUBSET D
      PROVE  g[S] = IF S = {} THEN 0 ELSE f[Pick(S)] + g[S \ {Pick(S)}]
  <2>1. CASE S = {}
    <3>1. Marks(f, S) = {}
      BY <2>1 DEF Marks
    <3> QED  BY <2>1, <3>1, FS_EmptySet
  <2>2. CASE S # {}
    <3>1. Pick(S) \in S /\ S \ {Pick(S)} \in SUBSET D
      BY <2>2 DEF Pick
    <3>2. IsFiniteSet(S) /\ \A d \in S : f[d] \in Nat
      BY FS_Subset
    <3>3. Cardinality(Marks(f, S)) = f[Pick(S)] + Cardinality(Marks(f, S \ {Pick(S)}))
      BY <3>1, <3>2, MarksGrow
    <3> QED  BY <2>2, <3>1, <3>3
  <2> QED  BY <2>1, <2>2
<1>2. g = [S \in SUBSET D |-> g[S]]
  OBVIOUS
<1> HIDE DEF g
<1> QED  BY <1>1, <1>2 DEF Sums

\* Whatever sums the numbers counts their marks.
LEMMA SumsAreMarks ==
  ASSUME NEW f, NEW D, IsFiniteSet(D), \A d \in D : f[d] \in Nat,
         NEW g, Sums(g, f, D)
  PROVE  g[D] = Cardinality(Marks(f, D))
<1> DEFINE wrong == {S \in SUBSET D : g[S] # Cardinality(Marks(f, S))}
<1> SUFFICES ASSUME wrong # {} PROVE FALSE
  OBVIOUS
<1>1. \A S \in SUBSET D : IsFiniteSet(S) /\ Cardinality(S) \in Nat
  BY FS_Subset, FS_CardinalityType
<1>2. PICK S \in wrong : \A R \in wrong : Cardinality(S) <= Cardinality(R)
  <2>1. \A S \in wrong : IsFiniteSet(S)
    BY <1>1
  <2> HIDE DEF wrong
  <2> QED  BY <2>1, SmallestSet
<1>3. S # {}
  <2>1. ASSUME S = {} PROVE FALSE
    <3>1. Marks(f, S) = {} /\ g[S] = 0
      BY <2>1 DEF Marks, Sums
    <3> QED  BY <1>2, <3>1, FS_EmptySet
  <2> QED  BY <2>1
<1> DEFINE x == Pick(S)
           R == S \ {x}
<1>4. x \in S /\ S \in SUBSET D /\ R \in SUBSET D
  BY <1>3 DEF Pick
<1>5. Cardinality(R) = Cardinality(S) - 1 /\ Cardinality(S) \in Nat
  BY <1>1, <1>4, FS_RemoveElement
<1>6. g[R] = Cardinality(Marks(f, R))
  <2>1. R \notin wrong
    BY <1>2, <1>5
  <2> QED  BY <1>4, <2>1
<1>7. g[S] = f[x] + g[R]
  BY <1>3, <1>4 DEF Sums
<1>8. Cardinality(Marks(f, S)) = f[x] + Cardinality(Marks(f, R))
  BY <1>1, <1>4, MarksGrow
<1> QED  BY <1>2, <1>6, <1>7, <1>8

\* The fold is such a sum.
LEMMA SumCounts ==
  ASSUME NEW f, NEW D, IsFiniteSet(D), \A d \in D : f[d] \in Nat
  PROVE  SumOn(f, D) = Cardinality(Marks(f, D))
<1>1. PICK g : Sums(g, f, D)
  BY MarksSum
<1>2. g = [S \in SUBSET D |-> IF S = {} THEN 0 ELSE f[Pick(S)] + g[S \ {Pick(S)}]]
  BY <1>1 DEF Sums
<1>3. PICK h : /\ h = [S \in SUBSET D |-> IF S = {} THEN 0 ELSE f[Pick(S)] + h[S \ {Pick(S)}]]
               /\ h[D] = SumOn(f, D)
  BY <1>2 DEF SumOn, FoldFunctionOnSet, MapThenFoldSet, Pick
<1>4. Sums(h, f, D)
  BY <1>3 DEF Sums
<1> QED  BY <1>3, <1>4, SumsAreMarks

\* What is summed over nothing, its type, and one element taken off.
LEMMA SumEmpty == \A f : SumOn(f, {}) = 0
<1> SUFFICES ASSUME NEW f PROVE SumOn(f, {}) = 0
  OBVIOUS
<1>1. Marks(f, {}) = {}
  BY DEF Marks
<1>2. SumOn(f, {}) = Cardinality(Marks(f, {}))
  BY SumCounts, FS_EmptySet
<1> QED  BY <1>1, <1>2, FS_EmptySet

\* A sum of natural numbers is one.
LEMMA SumType ==
  ASSUME NEW f, NEW S, IsFiniteSet(S), \A d \in S : f[d] \in Nat
  PROVE  SumOn(f, S) \in Nat
BY SumCounts, MarksFinite

\* A number taken off a sum.
LEMMA SumStep ==
  ASSUME NEW f, NEW S, IsFiniteSet(S), \A d \in S : f[d] \in Nat, NEW x \in S
  PROVE  SumOn(f, S) = f[x] + SumOn(f, S \ {x})
<1>1. IsFiniteSet(S \ {x})
  BY FS_RemoveElement
<1> QED  BY <1>1, SumCounts, MarksGrow

\* A total (Python's sum of the values of a dict) is a sum on the domain.
LEMMA TotalIsSum == \A f : Total(f) = SumOn(f, DOMAIN f)
BY DEF Total, SumOn, FoldFunction, FoldFunctionOnSet, MapThenFoldSet

------------------------------------------------------------------------------
(* Rounding. *)

\* Division with a remainder.
LEMMA DivMod ==
  ASSUME NEW n \in Nat, NEW d \in Nat \ {0}
  PROVE  /\ n \div d \in Nat /\ n % d \in Nat
         /\ n = d * (n \div d) + (n % d) /\ n % d < d
OBVIOUS

\* Rounding is off by half at most.
LEMMA RoundNear ==
  ASSUME NEW n \in Nat, NEW d \in Nat \ {0}
  PROVE  /\ Round(n, d) \in Nat
         /\ 2 * (d * Round(n, d)) <= 2 * n + d
         /\ 2 * n <= 2 * (d * Round(n, d)) + d
<1> DEFINE q == n \div d
           r == n % d
<1>1. q \in Nat /\ r \in Nat /\ n = d * q + r /\ r < d
  BY DivMod
<1>2. \/ Round(n, d) = q /\ 2 * r <= d
      \/ Round(n, d) = q + 1 /\ 2 * r >= d
  <2>1. Round(n, d) = IF 2 * r < d \/ (2 * r = d /\ q % 2 = 0) THEN q ELSE q + 1
    BY DEF Round
  <2> HIDE DEF q, r
  <2> QED  BY <1>1, <2>1
<1> HIDE DEF q, r
<1>3. d * (q + 1) = d * q + d /\ d * q \in Nat
  BY <1>1
<1>4. CASE Round(n, d) = q /\ 2 * r <= d
  BY <1>1, <1>3, <1>4
<1>5. CASE Round(n, d) = q + 1 /\ 2 * r >= d
  BY <1>1, <1>3, <1>5
<1> QED  BY <1>2, <1>4, <1>5

\* A number no greater than m times d rounds to m at most.
LEMMA RoundAtMost ==
  ASSUME NEW n \in Nat, NEW d \in Nat \ {0}, NEW m \in Nat, n <= m * d
  PROVE  Round(n, d) <= m
<1>1. Round(n, d) \in Nat /\ 2 * (d * Round(n, d)) <= 2 * n + d
  BY RoundNear
<1>2. ASSUME NEW r \in Nat, r >= m + 1 PROVE d * r >= m * d + d
  BY <1>2
<1> QED  BY <1>1, <1>2

------------------------------------------------------------------------------
(* Sources of a snapshot. *)

\* The constants, apart from one another.
LEMMA ConstantsApart ==
  /\ None # Raised /\ None \notin Int /\ Raised \notin Int
  /\ \A name \in DOMAIN NameSeed : name # None /\ name # Raised /\ NameSeed[name] \in Nat
BY PanelAssumption

\* A sequence's positions.
LEMMA Positions ==
  ASSUME NEW q, q \in Seq(Range(q))
  PROVE  Len(q) \in Nat /\ DOMAIN q = 1..Len(q) /\ IsFiniteSet(DOMAIN q)
<1>1. Len(q) \in Nat /\ DOMAIN q = 1..Len(q)
  OBVIOUS
<1> QED  BY <1>1, IntervalSize

\* A source is found by its name.
LEMMA SourceAt ==
  ASSUME NEW s, HasSources(s), NEW i \in DOMAIN s.sources
  PROVE  Source(s, s.sources[i].name) = s.sources[i]
<1> DEFINE q == s.sources
           I == {j \in 1..Len(q) : q[j].name = q[i].name}
<1>1. DOMAIN q = 1..Len(q)
  BY Positions DEF HasSources
<1>2. I = {i}
  BY <1>1 DEF HasSources
<1>3. Min(I) = i
  <2>1. i <= i
    BY <1>1
  <2>2. Min({i}) = CHOOSE x \in {i} : \A y \in {i} : x <= y
    BY DEF Min
  <2> HIDE DEF I
  <2> QED  BY <1>2, <2>1, <2>2
<1>4. SelectInSeq(s.sources, LAMBDA x : x.name = q[i].name) = Min(I)
  BY <1>2 DEF SelectInSeq
<1> QED  BY <1>3, <1>4 DEF Source

\* A name of a source finds its source.
LEMMA SourceNamed ==
  ASSUME NEW s, HasSources(s), NEW name \in Names(s)
  PROVE  /\ IsSource(Source(s, name)) /\ Source(s, name).name = name
         /\ \E i \in DOMAIN s.sources : Source(s, name) = s.sources[i]
         /\ name \in DOMAIN NameSeed /\ name # "all"
<1>1. PICK i \in DOMAIN s.sources : s.sources[i].name = name
  BY DEF Names
<1>2. Source(s, name) = s.sources[i]
  BY <1>1, SourceAt
<1> QED  BY <1>1, <1>2 DEF HasSources, IsSource

\* There are as many names as sources.
LEMMA NamesFinite ==
  ASSUME NEW s, HasSources(s)
  PROVE  IsFiniteSet(Names(s)) /\ Cardinality(Names(s)) = Len(s.sources)
<1>1. Len(s.sources) \in Nat /\ DOMAIN s.sources = 1..Len(s.sources) /\ IsFiniteSet(DOMAIN s.sources)
  BY Positions DEF HasSources
<1> DEFINE g == [i \in DOMAIN s.sources |-> s.sources[i].name]
<1>2. g \in Bijection(DOMAIN s.sources, Names(s))
  BY DEF Bijection, Injection, Surjection, IsInjective, Names, HasSources
<1>3. ExistsBijection(DOMAIN s.sources, Names(s))
  BY <1>2 DEF ExistsBijection
<1>4. Cardinality(DOMAIN s.sources) = Len(s.sources)
  BY <1>1, IntervalSize
<1> QED  BY <1>1, <1>3, <1>4, FS_Bijection

\* The fields of a source, read or made up.
LEMMA FieldRange ==
  ASSUME NEW x, IsSource(x), NEW key \in Percentages
  PROVE  Field(x, key) \in Nat /\ Field(x, key) <= 100 * Unit[key]
<1>1. NameSeed[x.name] \in Nat
  BY ConstantsApart DEF IsSource
<1>2. CASE key \in DOMAIN x
  BY <1>2 DEF Field, Get, IsSource
<1>3. CASE key \notin DOMAIN x
  <2> DEFINE made == FieldLow[key] + ((NameSeed[x.name] + KeySeed[key]) % FieldSpan[key])
  <2>1. ASSUME NEW n \in Nat, NEW d \in Nat \ {0}, NEW lo \in Nat, lo + d <= 100
        PROVE  lo + (n % d) \in Nat /\ lo + (n % d) <= 100
    <3>1. n % d \in Nat /\ n % d < d
      BY DivMod
    <3> QED  BY <2>1, <3>1
  <2>2. Field(x, key) = Unit[key] * made
    BY <1>3 DEF Field, Get
  <2>3. /\ FieldLow[key] \in Nat /\ FieldSpan[key] \in Nat \ {0} /\ KeySeed[key] \in Nat
        /\ FieldLow[key] + FieldSpan[key] <= 100
    BY DEF Percentages, FieldLow, FieldSpan, KeySeed
  <2>4. NameSeed[x.name] + KeySeed[key] \in Nat
    BY <1>1, <2>3
  <2>5. made \in Nat /\ made <= 100
    <3> HIDE DEF FieldLow
    <3> QED  BY <2>1, <2>3, <2>4
  <2>6. Unit[key] \in {1, 10}
    BY DEF Percentages, Unit
  <2> HIDE DEF made, Unit
  <2> QED  BY <2>2, <2>5, <2>6
<1> QED  BY <1>2, <1>3

\* What is read of a source is a number.
LEMMA SourceNumbers ==
  ASSUME NEW x, IsSource(x)
  PROVE  /\ Assets(x) \in Nat /\ High(x) \in Nat /\ High(x) <= Assets(x)
         /\ FailedScans(x) \in Nat /\ Mq(x) \in Nat /\ Mq(x) <= 100
         /\ Assets(x) = x.assets /\ High(x) = x.high_sensitivity
<1>1. Mq(x) \in Nat /\ Mq(x) <= 100
  BY FieldRange DEF Mq, Percentages, Unit
<1> QED  BY <1>1 DEF Assets, High, FailedScans, Get, IsSource

\* A sum over the sources.
LEMMA TotalBySource ==
  ASSUME NEW s, HasSources(s), NEW f, DOMAIN f = Names(s), \A name \in Names(s) : f[name] \in Nat
  PROVE  Total(f) = SumOn(f, Names(s)) /\ Total(f) \in Nat
BY NamesFinite, TotalIsSum, SumType

\* The assets by source are those of the sources in order.
LEMMA AssetsTotal ==
  ASSUME NEW s, HasSources(s)
  PROVE  /\ Total(BySource(s, Assets)) \in Nat /\ Total(BySource(s, High)) \in Nat
         /\ Total(BySource(s, FailedScans)) \in Nat
<1>1. \A name \in Names(s) : IsSource(Source(s, name))
  BY SourceNamed
<1>2. \A name \in Names(s) : /\ Assets(Source(s, name)) \in Nat /\ High(Source(s, name)) \in Nat
                             /\ FailedScans(Source(s, name)) \in Nat
  BY <1>1, SourceNumbers
<1> QED  BY <1>2, TotalBySource DEF BySource

------------------------------------------------------------------------------
(* Narrowing: a narrowed snapshot is a view. *)

\* What a board is resolved against: a snapshot, or one narrowed to a source.
IsView(v) ==
    /\ {"sources", "totals"} \subseteq DOMAIN v
    /\ HasSources(v) /\ HasTallies(v) /\ HasRows(v)
    /\ NoOrphans(v) => Get(v.sensitivity, "High", 0) = Total(BySource(v, High))
    /\ \A key \in DOMAIN v.totals : v.totals[key] \in Nat \cup {None}
    /\ Get(v.totals, "term_coverage_pct", 610) # None

\* Projections of what a snapshot is.
LEMMA SnapshotSources == ASSUME NEW s, IsSnapshot(s) PROVE HasSources(s)
BY DEF IsSnapshot

\* The whole catalogue is a view of itself.
LEMMA SnapshotIsView == ASSUME NEW s, IsSnapshot(s) PROVE IsView(s)
<1>1. Get(s.totals, "term_coverage_pct", 610) # None
  <2>1. Get(s.totals, "term_coverage_pct", 610) \in Int
    BY DEF IsSnapshot, Get
  <2> QED  BY <2>1, ConstantsApart
<1>2. NoOrphans(s) => Get(s.sensitivity, "High", 0) = Total(BySource(s, High))
  BY DEF IsSnapshot, HighOfSources
<1> QED  BY <1>1, <1>2 DEF IsSnapshot, IsView

\* A scaled count is a count.
LEMMA ShareType ==
  ASSUME NEW v \in Nat, NEW assets \in Nat, NEW total \in Nat
  PROVE  Share(v, assets, total) \in Nat
<1>1. v * assets \in Nat /\ AtLeastOne(total) \in Nat \ {0}
  BY DEF AtLeastOne
<1> QED  BY <1>1, RoundNear DEF Share

\* The parts of a narrowed snapshot.
LEMMA ScopeParts ==
  ASSUME NEW s, IsSnapshot(s), NEW name \in Names(s)
  PROVE  /\ DOMAIN Scope(s, name) = DOMAIN s
         /\ Scope(s, name).sources = <<Source(s, name)>>
         /\ \A key \in DOMAIN s \ (Scaled \cup {"sources", "totals"}) : Scope(s, name)[key] = s[key]
         /\ \A key \in (DOMAIN s \cap Scaled) \ {"sensitivity"} :
              Scope(s, name)[key] = [k \in DOMAIN s[key] |->
                Share(s[key][k], Assets(Source(s, name)), Total(BySource(s, Assets)))]
         /\ Scope(s, name).sensitivity = [k \in DOMAIN s.sensitivity \cup {"High"} |->
                IF k = "High" THEN High(Source(s, name))
                ELSE Share(s.sensitivity[k], Assets(Source(s, name)), Total(BySource(s, Assets)))]
<1> DEFINE x == Source(s, name)
           all == Total(BySource(s, Assets))
           scaled(key) == [k \in DOMAIN s[key] |-> Share(s[key][k], Assets(x), all)]
           totals == [key \in DOMAIN s.totals \cup
                            {"assets", "sources", "mean_quality", "term_coverage_pct", "profiled_pct"} |->
                          CASE key = "assets" -> Assets(x) [] key = "sources" -> 1
                            [] key \in {"mean_quality", "term_coverage_pct", "profiled_pct"} -> Get(x, key, None)
                            [] OTHER -> s.totals[key]]
           narrowed == [key \in DOMAIN s |->
                CASE key = "sources" -> <<x>>
                  [] key = "totals" -> totals
                  [] key = "sensitivity" -> OwnHigh(s, x, scaled(key))
                  [] key \in Scaled \ {"sensitivity"} -> scaled(key)
                  [] OTHER -> s[key]]
<1>1. name # "all" /\ IsSource(x)
  BY SourceNamed DEF IsSnapshot
<1>2. Scope(s, name) = narrowed
  BY <1>1 DEF Scope
<1>3. {"sources", "totals", "trust", "sensitivity"} \subseteq DOMAIN s
  BY DEF IsSnapshot, HasTallies
<1>4. "sources" \notin Scaled /\ "totals" \notin Scaled /\ "sensitivity" \in Scaled
  BY DEF Scaled
<1>5. OwnHigh(s, x, scaled("sensitivity"))
        = [k \in DOMAIN s.sensitivity \cup {"High"} |->
             IF k = "High" THEN High(x) ELSE Share(s.sensitivity[k], Assets(x), all)]
  <2>1. "high_sensitivity" \in DOMAIN x /\ High(x) = x.high_sensitivity
    BY <1>1, SourceNumbers DEF IsSource
  <2>2. OwnHigh(s, x, scaled("sensitivity"))
        = [k \in DOMAIN scaled("sensitivity") \cup {"High"} |->
             IF k = "High" THEN x.high_sensitivity ELSE scaled("sensitivity")[k]]
    BY <1>3, <2>1 DEF OwnHigh
  <2> HIDE DEF x, all
  <2> QED  BY <2>1, <2>2
<1>6. DOMAIN narrowed = DOMAIN s /\ narrowed.sources = <<x>>
      /\ narrowed.sensitivity = OwnHigh(s, x, scaled("sensitivity"))
  BY <1>3, <1>4
<1>7. ASSUME NEW key \in DOMAIN s \ (Scaled \cup {"sources", "totals"}) PROVE narrowed[key] = s[key]
  BY <1>4
<1>8. ASSUME NEW key \in (DOMAIN s \cap Scaled) \ {"sensitivity"} PROVE narrowed[key] = scaled(key)
  BY <1>4
<1> HIDE DEF narrowed, x, all
<1> QED  BY <1>2, <1>5, <1>6, <1>7, <1>8 DEF x, all

\* The totals of a narrowed snapshot: those of its source, and the others as they were.
LEMMA ScopeTotals ==
  ASSUME NEW s, IsSnapshot(s), NEW name \in Names(s)
  PROVE  /\ \A key \in DOMAIN Scope(s, name).totals : Scope(s, name).totals[key] \in Nat \cup {None}
         /\ Get(Scope(s, name).totals, "term_coverage_pct", 610) \in Nat
         /\ Get(Scope(s, name).totals, "assets", 0) = Assets(Source(s, name))
<1> DEFINE x == Source(s, name)
           own == {"assets", "sources", "mean_quality", "term_coverage_pct", "profiled_pct"}
           totals == [key \in DOMAIN s.totals \cup own |->
                          CASE key = "assets" -> Assets(x) [] key = "sources" -> 1
                            [] key \in {"mean_quality", "term_coverage_pct", "profiled_pct"} -> Get(x, key, None)
                            [] OTHER -> s.totals[key]]
<1>1. name # "all" /\ IsSource(x) /\ "totals" \in DOMAIN s
  BY SourceNamed DEF IsSnapshot
<1>2. Scope(s, name).totals = totals
  <2> DEFINE all == Total(BySource(s, Assets))
             scaled(key) == [k \in DOMAIN s[key] |-> Share(s[key][k], Assets(x), all)]
             narrowed == [key \in DOMAIN s |->
                CASE key = "sources" -> <<x>>
                  [] key = "totals" -> totals
                  [] key = "sensitivity" -> OwnHigh(s, x, scaled(key))
                  [] key \in Scaled \ {"sensitivity"} -> scaled(key)
                  [] OTHER -> s[key]]
  <2>1. Scope(s, name) = narrowed
    BY <1>1 DEF Scope
  <2>2. narrowed.totals = totals
    <3>1. "totals" \notin Scaled
      BY DEF Scaled
    <3> HIDE DEF totals, scaled, x
    <3> QED  BY <1>1, <3>1
  <2> HIDE DEF narrowed, totals
  <2> QED  BY <2>1, <2>2
<1>3. ASSUME NEW key \in {"mean_quality", "term_coverage_pct", "profiled_pct"}
      PROVE  Get(x, key, None) \in Nat \cup {None}
  BY <1>1 DEF Get, IsSource, Percentages
<1>4. Get(x, "term_coverage_pct", None) \in Nat
  BY <1>1 DEF Get, IsSource, Percentages
<1>5. Assets(x) \in Nat /\ \A key \in DOMAIN s.totals : s.totals[key] \in Nat
  BY <1>1, SourceNumbers DEF IsSnapshot
<1> HIDE DEF x
<1>6. ASSUME NEW key \in DOMAIN totals PROVE totals[key] \in Nat \cup {None}
  BY <1>3, <1>5
<1>7. Get(totals, "term_coverage_pct", 610) \in Nat /\ Get(totals, "assets", 0) = Assets(x)
  BY <1>4 DEF Get
<1> HIDE DEF totals
<1> QED  BY <1>2, <1>6, <1>7 DEF x

\* A narrowed snapshot has one source, and what it counts are numbers.
LEMMA ScopeSources ==
  ASSUME NEW s, IsSnapshot(s), NEW name \in Names(s)
  PROVE  /\ HasSources(Scope(s, name)) /\ Names(Scope(s, name)) = {name}
         /\ Source(Scope(s, name), name) = Source(s, name)
<1> DEFINE x == Source(s, name)
           v == Scope(s, name)
<1>1. v.sources = <<x>> /\ IsSource(x) /\ x.name = name
  BY ScopeParts, SourceNamed, SnapshotSources
<1>2. <<x>> \in Seq(Range(<<x>>))
  BY DEF Range
<1> HIDE DEF x, v
<1>3. HasSources(v)
  BY <1>1, <1>2 DEF HasSources
<1>4. Names(v) = {name}
  BY <1>1 DEF Names
<1>5. Source(v, v.sources[1].name) = v.sources[1] /\ v.sources[1] = x
  BY <1>1, <1>3, SourceAt
<1> QED  BY <1>1, <1>3, <1>4, <1>5 DEF x, v

\* The distributions of a narrowed snapshot are scaled, and still counts.
LEMMA ScopeTallies ==
  ASSUME NEW s, IsSnapshot(s), NEW name \in Names(s)
  PROVE  HasTallies(Scope(s, name))
<1> DEFINE x == Source(s, name)
           all == Total(BySource(s, Assets))
           v == Scope(s, name)
           scaled(key) == [k \in DOMAIN s[key] |-> Share(s[key][k], Assets(x), all)]
<1>1. Assets(x) \in Nat /\ High(x) \in Nat /\ all \in Nat
  BY SourceNamed, SourceNumbers, AssetsTotal, SnapshotSources
<1>2. HasTallies(s)
  BY DEF IsSnapshot
<1>3. /\ DOMAIN v = DOMAIN s
      /\ \A key \in DOMAIN s \ (Scaled \cup {"sources", "totals"}) : v[key] = s[key]
      /\ \A key \in (DOMAIN s \cap Scaled) \ {"sensitivity"} : v[key] = scaled(key)
      /\ v.sensitivity = [k \in DOMAIN s.sensitivity \cup {"High"} |->
                            IF k = "High" THEN High(x) ELSE Share(s.sensitivity[k], Assets(x), all)]
  BY ScopeParts
<1> HIDE DEF x, all, v
<1>4. ASSUME NEW key \in (DOMAIN s \cap Scaled) \ {"sensitivity"}
      PROVE  IsTally(v[key]) /\ DOMAIN v[key] = DOMAIN s[key]
  <2>1. IsTally(s[key])
    BY <1>2, <1>4 DEF HasTallies, Scaled, Tallies
  <2>2. \A k \in DOMAIN s[key] : Share(s[key][k], Assets(x), all) \in Nat
    BY <1>1, <2>1, ShareType DEF IsTally
  <2> QED  BY <1>3, <1>4, <2>1, <2>2 DEF IsTally
<1>5. IsTally(v.sensitivity)
  <2>1. IsTally(s.sensitivity)
    BY <1>2 DEF HasTallies, Tallies
  <2>2. \A k \in DOMAIN s.sensitivity : Share(s.sensitivity[k], Assets(x), all) \in Nat
    BY <1>1, <2>1, ShareType DEF IsTally
  <2>3. IsFiniteSet(DOMAIN s.sensitivity \cup {"High"})
    BY <2>1, FS_AddElement DEF IsTally
  <2> QED  BY <1>1, <1>3, <2>2, <2>3 DEF IsTally
<1>6. ASSUME NEW key \in Tallies \cap DOMAIN v PROVE IsTally(v[key])
  <2>1. CASE key \in Scaled \ {"sensitivity"}
    BY <1>3, <1>4, <1>6, <2>1
  <2>2. CASE key = "sensitivity"
    BY <1>5, <2>2
  <2>3. CASE key \notin Scaled
    <3>1. key \in DOMAIN s \ (Scaled \cup {"sources", "totals"})
      BY <1>3, <1>6, <2>3 DEF Tallies
    <3> QED  BY <1>2, <1>3, <1>6, <3>1 DEF HasTallies
  <2> QED  BY <2>1, <2>2, <2>3
<1>7. {"trust", "sensitivity"} \subseteq DOMAIN v /\ "Untrusted" \in DOMAIN v.trust
  BY <1>2, <1>3, <1>4 DEF HasTallies, Scaled
<1>8. "ratings" \in DOMAIN v => DOMAIN v.ratings \subseteq Nat
  BY <1>2, <1>3, <1>4 DEF HasTallies, Scaled
<1> QED  BY <1>6, <1>7, <1>8 DEF HasTallies, v

\* Summed over one element.
LEMMA SumOne ==
  ASSUME NEW f, NEW x, f[x] \in Nat
  PROVE  SumOn(f, {x}) = f[x]
<1>1. IsFiniteSet({x})
  BY FS_Singleton
<1>2. SumOn(f, {x}) = f[x] + SumOn(f, {x} \ {x})
  BY <1>1, SumStep
<1>3. {x} \ {x} = {}
  OBVIOUS
<1> QED  BY <1>2, <1>3, SumEmpty

\* A snapshot that is narrowed to any of its sources, or to all, still is what the
\* resolvers need of one, although a mean that the source has not becomes None
\* (scope_snapshot, panel_data.py:487-516).
THEOREM ScopeIsView ==
  ASSUME NEW s, IsSnapshot(s), NEW name \in Names(s) \cup {"all"}
  PROVE  IsView(Scope(s, name))
<1>1. CASE name = "all"
  <2>1. Scope(s, name) = s
    BY <1>1 DEF Scope
  <2> QED  BY <2>1, SnapshotIsView
<1>2. CASE name \in Names(s)
  <2> DEFINE v == Scope(s, name)
             x == Source(s, name)
  <2>1. HasSources(v) /\ Names(v) = {name} /\ Source(v, name) = x /\ HasTallies(v)
    BY <1>2, ScopeSources, ScopeTallies
  <2>2. /\ \A key \in DOMAIN v.totals : v.totals[key] \in Nat \cup {None}
        /\ Get(v.totals, "term_coverage_pct", 610) \in Nat
    BY <1>2, ScopeTotals
  <2>3. DOMAIN v = DOMAIN s /\ \A key \in DOMAIN s \ (Scaled \cup {"sources", "totals"}) : v[key] = s[key]
    BY <1>2, ScopeParts
  <2>4. v.sensitivity = [k \in DOMAIN s.sensitivity \cup {"High"} |->
                           IF k = "High" THEN High(x)
                           ELSE Share(s.sensitivity[k], Assets(x), Total(BySource(s, Assets)))]
    BY <1>2, ScopeParts
  <2>5. High(x) \in Nat
    BY <1>2, SourceNamed, SourceNumbers DEF IsSnapshot
  <2> HIDE DEF v, x
  <2>6. HasRows(v)
    BY <2>3 DEF IsSnapshot, HasRows, Scaled
  <2>7. Get(v.sensitivity, "High", 0) = High(x)
    BY <2>4 DEF Get
  <2>8. Total(BySource(v, High)) = High(x)
    <3>1. DOMAIN BySource(v, High) = {name} /\ BySource(v, High)[name] = High(x)
      BY <2>1 DEF BySource
    <3> QED  BY <2>5, <3>1, SumOne, TotalIsSum
  <2>9. Get(v.totals, "term_coverage_pct", 610) # None
    BY <2>2, ConstantsApart
  <2> QED  BY <2>1, <2>2, <2>3, <2>6, <2>7, <2>8, <2>9 DEF IsView, IsSnapshot, v
<1> QED  BY <1>1, <1>2

------------------------------------------------------------------------------
(* Resolvers: what they return is sound. *)

\* The columns of a stacked bar are the sources' assets, in parts.
Adds(groups, v) ==
    \A name \in Names(v) :
      /\ \A g \in DOMAIN groups : groups[g][name] >= 0
      /\ Total([g \in DOMAIN groups |-> groups[g][name]]) = Assets(Source(v, name))

\* What a resolver may return: nothing that raises, no bar that does not add up.
Sound(data, v) == ~ Raises(data) /\ (data.groups = << >> \/ Adds(data.groups, v))

\* A number is not Raised.
LEMMA NumberSound == \A n \in Int : n # Raised
BY ConstantsApart

\* A number alone is sound.
LEMMA KpiSound ==
  ASSUME NEW v, NEW n, n # Raised
  PROVE  Sound(Kpi(n), v)
BY DEF Sound, Raises, Kpi, Data

\* A number and rows are sound.
LEMMA TableSound ==
  ASSUME NEW v, NEW n, n # Raised, NEW rows
  PROVE  Sound(Table(n, rows), v)
BY DEF Sound, Raises, Table, Data

\* A number and a series of numbers are sound.
LEMMA ChartSound ==
  ASSUME NEW v, NEW n, n # Raised, NEW series, \A k \in DOMAIN series : series[k] # Raised
  PROVE  Sound(Chart(n, series), v)
BY DEF Sound, Raises, Chart, Data

\* A number and groups that add up are sound.
LEMMA StackedSound ==
  ASSUME NEW v, NEW n, n # Raised, NEW groups, Adds(groups, v)
  PROVE  Sound(Stacked(n, groups), v)
BY DEF Sound, Raises, Stacked, Data

\* A chart of numbers.
LEMMA NumbersSound ==
  ASSUME NEW v, NEW n \in Int, NEW series, \A k \in DOMAIN series : series[k] \in Int
  PROVE  Sound(Chart(n, series), v)
BY NumberSound, ChartSound

------------------------------------------------------------------------------
(* Numbers of a view. *)

\* A distribution that the snapshot may not have is one of counts, or empty.
LEMMA DistTally ==
  ASSUME NEW v, IsView(v), NEW key \in Tallies
  PROVE  IsTally(Dist(v, key)) /\ Total(Dist(v, key)) \in Nat
         /\ Cardinality(DOMAIN Dist(v, key)) \in Nat
         /\ \A k : Get(Dist(v, key), k, 0) \in Nat
<1>1. IsTally(<< >>)
  <2>1. DOMAIN << >> = {}
    OBVIOUS
  <2> QED  BY <2>1, FS_EmptySet DEF IsTally
<1>2. IsTally(Dist(v, key))
  BY <1>1 DEF Dist, Get, IsView, HasTallies
<1> HIDE DEF Dist
<1>3. Total(Dist(v, key)) \in Nat
  BY <1>2, TotalIsSum, SumType DEF IsTally
<1>4. Cardinality(DOMAIN Dist(v, key)) \in Nat
  BY <1>2, FS_CardinalityType DEF IsTally
<1> QED  BY <1>2, <1>3, <1>4 DEF Get, IsTally

\* A divisor is positive.
LEMMA AtLeastOneType == \A n \in Nat : AtLeastOne(n) \in Nat \ {0}
BY DEF AtLeastOne

\* A percentage is a natural number.
LEMMA PctType == \A n, d \in Nat : Pct(n, d) \in Nat
<1> SUFFICES ASSUME NEW n \in Nat, NEW d \in Nat PROVE Pct(n, d) \in Nat
  OBVIOUS
<1>1. CASE d = 0
  BY <1>1 DEF Pct
<1>2. CASE d # 0
  <2>1. 100 * n \in Nat /\ d \in Nat \ {0}
    BY <1>2
  <2>2. Round(100 * n, d) \in Nat
    BY <2>1, RoundNear
  <2> QED  BY <1>2, <2>2 DEF Pct
<1> QED  BY <1>1, <1>2

\* A total of a view is a natural number or missing.
LEMMA ViewTotal ==
  ASSUME NEW v, IsView(v), NEW key, NEW default
  PROVE  Get(v.totals, key, default) \in Nat \cup {None, default}
BY DEF IsView, Get

\* Or of a total and a natural number is a natural number.
LEMMA OrType == 
  ASSUME NEW n \in Nat \cup {None}, NEW default \in Nat
  PROVE  Or(n, default) \in Nat /\ (default # 0 => Or(n, default) # 0)
BY DEF Or

------------------------------------------------------------------------------
(* The resolvers of distributions. *)

\* The resolvers of distributions are sound, whatever the snapshot has of them.
LEMMA TrustSound == ASSUME NEW v, IsView(v) PROVE Sound(TrustDistribution(v), v)
<1> DEFINE t == Dist(v, "trust")
           top == Get(t, "Highly Trusted", 0)
<1>1. IsTally(t) /\ Total(t) \in Nat /\ \A k : Get(t, k, 0) \in Nat
  BY DistTally DEF Tallies
<1>2. top \in Nat
  BY <1>1, Zenon
<1>3. TrustDistribution(v) = Chart(Pct(top, AtLeastOne(Total(t))), t)
  BY DEF TrustDistribution
<1>4. \A k \in DOMAIN t : t[k] \in Int
  BY <1>1 DEF IsTally
<1> HIDE DEF t, top
<1>5. Pct(top, AtLeastOne(Total(t))) \in Nat
  BY <1>1, <1>2, PctType, AtLeastOneType
<1> QED  BY <1>3, <1>4, <1>5, NumbersSound

\* The sensitivity of a view is shown as it is.
LEMMA SensitivitySound == ASSUME NEW v, IsView(v) PROVE Sound(SensitivityMix(v), v)
<1> DEFINE t == Dist(v, "sensitivity")
<1>1. IsTally(t) /\ Get(t, "High", 0) \in Nat
  BY DistTally DEF Tallies
<1>2. \A k \in DOMAIN t : t[k] \in Int
  BY <1>1 DEF IsTally
<1> HIDE DEF t
<1> QED  BY <1>1, <1>2, NumbersSound DEF SensitivityMix, t

\* Counted, discovered and edited: numbers of what there is.
LEMMA CountsSound ==
  ASSUME NEW v, IsView(v), NEW key \in Tallies
  PROVE  Sound(Chart(Total(Dist(v, key)), Dist(v, key)), v) /\ Sound(Counted(v, key), v)
<1> DEFINE t == Dist(v, key)
<1>1. IsTally(t) /\ Total(t) \in Nat /\ Cardinality(DOMAIN t) \in Nat
  BY DistTally
<1>2. \A k \in DOMAIN t : t[k] \in Int
  BY <1>1 DEF IsTally
<1> HIDE DEF t
<1>3. Sound(Chart(Total(t), t), v) /\ Sound(Chart(Cardinality(DOMAIN t), t), v)
  BY <1>1, <1>2, NumbersSound
<1> QED  BY <1>3 DEF Counted, t

\* The share profiled is a total, or what the distribution gives.
LEMMA ProfileSound == ASSUME NEW v, IsView(v) PROVE Sound(ProfileStatus(v), v)
<1> DEFINE p == Dist(v, "profiling")
           n == Get(v.totals, "profiled_pct", None)
           value == IF n # None THEN n ELSE 10 * Pct(Get(p, "Completed", 0), Total(p))
<1>1. IsTally(p) /\ Total(p) \in Nat /\ Get(p, "Completed", 0) \in Nat
  BY DistTally DEF Tallies
<1>2. n \in Nat \cup {None}
  BY ViewTotal
<1>3. value \in Int
  <2>1. Pct(Get(p, "Completed", 0), Total(p)) \in Nat
    BY <1>1, PctType
  <2> HIDE DEF p, n
  <2> QED  BY <1>2, <2>1
<1>4. \A k \in DOMAIN p : p[k] \in Int
  BY <1>1 DEF IsTally
<1>5. ProfileStatus(v) = Chart(value, p)
  BY DEF ProfileStatus
<1> HIDE DEF p, n, value
<1> QED  BY <1>3, <1>4, <1>5, NumbersSound

\* The share verified is one of at least one asset.
LEMMA LineageSound == ASSUME NEW v, IsView(v) PROVE Sound(LineageStatus(v), v)
<1> DEFINE t == Dist(v, "lineage")
<1>1. IsTally(t) /\ Total(t) \in Nat /\ Get(t, "Verified", 0) \in Nat
  BY DistTally DEF Tallies
<1>2. Pct(Get(t, "Verified", 0), AtLeastOne(Total(t))) \in Nat
  BY <1>1, PctType, AtLeastOneType
<1>3. \A k \in DOMAIN t : t[k] \in Int
  BY <1>1 DEF IsTally
<1> HIDE DEF t
<1> QED  BY <1>2, <1>3, NumbersSound DEF LineageStatus, t

\* The average rating is one of at least one rating.
LEMMA RatingsSound == ASSUME NEW v, IsView(v) PROVE Sound(RatingsDistribution(v), v)
<1> DEFINE r == Dist(v, "ratings")
           w == [k \in DOMAIN r |-> k * r[k]]
<1>1. IsTally(r) /\ Total(r) \in Nat
  BY DistTally DEF Tallies
<1>2. DOMAIN r \subseteq Nat
  BY DEF IsView, HasTallies, Dist, Get
<1>3. Total(w) \in Nat
  <2>1. IsFiniteSet(DOMAIN w) /\ \A k \in DOMAIN w : w[k] \in Nat
    BY <1>1, <1>2 DEF IsTally
  <2> HIDE DEF w
  <2> QED  BY <2>1, TotalIsSum, SumType
<1>4. Round(10 * Total(w), AtLeastOne(Total(r))) \in Nat
  <2>1. 10 * Total(w) \in Nat /\ AtLeastOne(Total(r)) \in Nat \ {0}
    BY <1>1, <1>3, AtLeastOneType
  <2> QED  BY <2>1, RoundNear
<1>5. \A k \in DOMAIN r : r[k] \in Int
  BY <1>1 DEF IsTally
<1>6. RatingsDistribution(v) = Chart(Round(10 * Total(w), AtLeastOne(Total(r))), r)
  BY DEF RatingsDistribution
<1> HIDE DEF r, w
<1> QED  BY <1>4, <1>5, <1>6, NumbersSound

\* The owners are a number, its series and rows.
LEMMA OwnersSound == ASSUME NEW v, IsView(v) PROVE Sound(OwnerWorkload(v), v)
<1> DEFINE owners == Get(v, "owners", << >>)
<1>1. Len(owners) \in Int
  BY DEF IsView, HasRows, Get
<1>2. /\ OwnerWorkload(v).value = Len(owners)
      /\ OwnerWorkload(v).series = owners /\ OwnerWorkload(v).groups = << >>
  BY DEF OwnerWorkload, Data
<1>3. \A k \in DOMAIN owners : owners[k] \in Int
  BY DEF IsView, HasRows, Get
<1> HIDE DEF owners
<1> QED  BY <1>1, <1>2, <1>3, NumberSound DEF Sound, Raises

\* The types are the sweep's, or those of the sources.
LEMMA AssetsByTypeSound == ASSUME NEW v, IsView(v) PROVE Sound(AssetsByType(v), v)
<1> DEFINE types == {Get(x, "type", "other") : x \in Range(v.sources)}
           of(t) == [name \in {n \in Names(v) : Get(Source(v, n), "type", "other") = t} |->
                       Assets(Source(v, name))]
           made == [t \in types |-> Total(of(t))]
           series == IF Dist(v, "types") # << >> THEN v.types ELSE made
<1>1. ASSUME NEW t PROVE Total(of(t)) \in Nat
  <2>1. IsFiniteSet(DOMAIN of(t))
    BY NamesFinite, FS_Subset DEF IsView
  <2>2. \A name \in DOMAIN of(t) : of(t)[name] \in Nat
    <3>1. \A name \in Names(v) : Assets(Source(v, name)) \in Nat
      BY SourceNamed, SourceNumbers DEF IsView
    <3> QED  BY <3>1
  <2> HIDE DEF of
  <2> QED  BY <2>1, <2>2, TotalIsSum, SumType
<1>2. IsTally(Dist(v, "types"))
  BY DistTally DEF Tallies
<1>3. CASE Dist(v, "types") # << >>
  <2>1. v.types = Dist(v, "types")
    BY <1>3 DEF Dist, Get
  <2>2. AssetsByType(v) = Chart(0, v.types)
    BY <1>3 DEF AssetsByType
  <2> QED  BY <1>2, <2>1, <2>2, NumbersSound DEF IsTally
<1>4. CASE Dist(v, "types") = << >>
  <2>1. AssetsByType(v) = Chart(0, made)
    BY <1>4 DEF AssetsByType
  <2>2. \A t \in DOMAIN made : made[t] \in Int
    BY <1>1
  <2> HIDE DEF made
  <2> QED  BY <2>1, <2>2, NumbersSound
<1> QED  BY <1>3, <1>4

------------------------------------------------------------------------------
(* The resolvers by source. *)

\* The source of a name is one, with numbers.
LEMMA SourcesOfView ==
  ASSUME NEW v, IsView(v), NEW name \in Names(v)
  PROVE  IsSource(Source(v, name))
BY SourceNamed DEF IsView

\* The assets by source are numbers.
LEMMA AssetsBySourceSound == ASSUME NEW v, IsView(v) PROVE Sound(AssetsBySource(v), v)
<1>1. \A name \in Names(v) : Assets(Source(v, name)) \in Int
  BY SourcesOfView, SourceNumbers
<1>2. \A name \in DOMAIN BySource(v, Assets) : BySource(v, Assets)[name] \in Int
  BY <1>1 DEF BySource
<1> HIDE DEF BySource
<1> QED  BY <1>2, NumbersSound DEF AssetsBySource

\* A total or the mean of the sources is a natural number, of no source too.
LEMMA TotalOrMeanType ==
  ASSUME NEW v, IsView(v), NEW key \in Percentages
  PROVE  TotalOrMean(v, key) \in Nat
<1> DEFINE n == Get(v.totals, key, None)
           f == [name \in Names(v) |-> Field(Source(v, name), key)]
<1>1. n \in Nat \cup {None}
  BY ViewTotal
<1>2. Total(f) \in Nat
  <2>1. \A name \in Names(v) : f[name] \in Nat
    BY SourcesOfView, FieldRange
  <2>2. DOMAIN f = Names(v)
    OBVIOUS
  <2> HIDE DEF f
  <2> QED  BY <2>1, <2>2, TotalBySource DEF IsView
<1>3. v.sources # << >> => Cardinality(DOMAIN f) \in Nat \ {0}
  <2>1. v.sources \in Seq(Range(v.sources)) /\ Cardinality(Names(v)) = Len(v.sources)
    BY NamesFinite DEF IsView, HasSources
  <2>2. v.sources # << >> => Len(v.sources) \in Nat \ {0}
    BY <2>1
  <2> QED  BY <2>1, <2>2
<1>4. v.sources # << >> => Unit[key] * Round(Total(f), Unit[key] * Cardinality(DOMAIN f)) \in Nat
  <2>1. Unit[key] \in Nat \ {0}
    BY DEF Percentages, Unit
  <2> HIDE DEF f, Unit
  <2>2. ASSUME NEW a \in Nat \ {0}, NEW b \in Nat \ {0} PROVE a * b \in Nat \ {0}
    OBVIOUS
  <2>3. v.sources # << >> => Unit[key] * Cardinality(DOMAIN f) \in Nat \ {0}
    BY <1>3, <2>1, <2>2
  <2>4. v.sources # << >> => Round(Total(f), Unit[key] * Cardinality(DOMAIN f)) \in Nat
    BY <1>2, <2>3, RoundNear
  <2> QED  BY <2>1, <2>4
<1>5. TotalOrMean(v, key) = CASE n # None -> n
          [] n = None /\ v.sources = << >> -> 0
          [] OTHER -> Unit[key] * Round(Total(f), Unit[key] * Cardinality(DOMAIN f))
  BY DEF TotalOrMean, BySource
<1> HIDE DEF n, f
<1> QED  BY <1>1, <1>4, <1>5

\* The means of quality and of term coverage are numbers.
LEMMA MeansSound ==
  ASSUME NEW v, IsView(v)
  PROVE  Sound(QualityBySource(v), v) /\ Sound(TermCoverage(v), v)
<1>1. TotalOrMean(v, "mean_quality") \in Int /\ TotalOrMean(v, "term_coverage_pct") \in Int
  BY TotalOrMeanType DEF Percentages
<1>2. \A name \in Names(v) : /\ Mq(Source(v, name)) \in Int
                             /\ Field(Source(v, name), "term_coverage_pct") \in Int
  BY SourcesOfView, SourceNumbers, FieldRange DEF Percentages
<1>3. \A name \in DOMAIN BySource(v, Mq) : BySource(v, Mq)[name] \in Int
  BY <1>2 DEF BySource
<1> DEFINE g == [name \in Names(v) |-> Field(Source(v, name), "term_coverage_pct")]
<1>4. \A name \in DOMAIN g : g[name] \in Int
  BY <1>2
<1>5. TermCoverage(v) = Chart(TotalOrMean(v, "term_coverage_pct"), g)
  BY DEF TermCoverage, BySource
<1> HIDE DEF BySource, g
<1> QED  BY <1>1, <1>3, <1>4, <1>5, NumbersSound DEF QualityBySource

\* The counts of assets and of sources are numbers.
LEMMA AssetCountsSound ==
  ASSUME NEW v, IsView(v)
  PROVE  Sound(AssetCounts(v), v) /\ Sound(SourceCounts(v), v)
<1>1. Total(BySource(v, Assets)) \in Nat /\ Len(v.sources) \in Nat
  BY AssetsTotal DEF IsView, HasSources
<1>2. Get(v.totals, "assets", 0) \in Nat \cup {None} /\ Get(v.totals, "sources", 0) \in Nat \cup {None}
  BY ViewTotal
<1>3. /\ Or(Get(v.totals, "assets", 0), Total(BySource(v, Assets))) \in Int
      /\ Or(Get(v.totals, "sources", 0), Len(v.sources)) \in Int
  <2>1. Or(Get(v.totals, "assets", 0), Total(BySource(v, Assets))) \in Nat
    BY <1>1, <1>2, OrType
  <2>2. Or(Get(v.totals, "sources", 0), Len(v.sources)) \in Nat
    BY <1>1, <1>2, OrType
  <2> QED  BY <2>1, <2>2
<1> QED  BY <1>3, NumberSound, KpiSound DEF AssetCounts, SourceCounts

\* The failed scans are a number and rows.
LEMMA StaleSound ==
  ASSUME NEW v, IsView(v)
  PROVE  Sound(StaleFailed(v), v) /\ Sound(Kpi(StaleFailed(v).value), v)
<1>1. Total(BySource(v, FailedScans)) \in Int
  BY AssetsTotal DEF IsView
<1> DEFINE rows == Rows(v.sources, LAMBDA x : FailedScans(x) # 0, FailedScans)
<1>2. StaleFailed(v) = Table(Total(BySource(v, FailedScans)), rows)
  BY DEF StaleFailed
<1> HIDE DEF rows
<1>3. StaleFailed(v).value = Total(BySource(v, FailedScans))
  BY <1>2 DEF Table, Data
<1> QED  BY <1>1, <1>2, <1>3, NumberSound, TableSound, KpiSound

------------------------------------------------------------------------------
(* Stacked bars. *)

\* Sums over two and three positions.
LEMMA SumTwo ==
  ASSUME NEW f, DOMAIN f = 1..2, f[1] \in Nat, f[2] \in Nat
  PROVE  Total(f) = f[1] + f[2]
<1>1. IsFiniteSet(1..2) /\ \A i \in 1..2 : f[i] \in Nat
  <2>1. 2 \in Nat
    OBVIOUS
  <2>2. IsFiniteSet(1..2)
    BY <2>1, IntervalSize, Zenon
  <2>3. \A i \in 1..2 : f[i] \in Nat
    OBVIOUS
  <2> QED  BY <2>2, <2>3
<1>2. SumOn(f, 1..2) = f[2] + SumOn(f, (1..2) \ {2})
  BY <1>1, SumStep
<1>3. (1..2) \ {2} = {1}
  OBVIOUS
<1>4. SumOn(f, {1}) = f[1]
  BY SumOne
<1>5. Total(f) = SumOn(f, 1..2)
  BY TotalIsSum
<1>6. Total(f) = f[2] + f[1]
  BY <1>2, <1>3, <1>4, <1>5, Zenon
<1> QED  BY <1>6

\* The sum of three functions on a set.
LEMMA SumThree ==
  ASSUME NEW f, DOMAIN f = 1..3, f[1] \in Nat, f[2] \in Nat, f[3] \in Nat
  PROVE  Total(f) = f[1] + f[2] + f[3]
<1>1. IsFiniteSet(1..3) /\ \A i \in 1..3 : f[i] \in Nat
  <2>1. 3 \in Nat
    OBVIOUS
  <2>2. IsFiniteSet(1..3)
    BY <2>1, IntervalSize, Zenon
  <2>3. \A i \in 1..3 : f[i] \in Nat
    OBVIOUS
  <2> QED  BY <2>2, <2>3
<1>2. SumOn(f, 1..3) = f[3] + SumOn(f, (1..3) \ {3})
  BY <1>1, SumStep
<1>3. (1..3) \ {3} = {1, 2} /\ {1, 2} \ {2} = {1}
  OBVIOUS
<1>4. IsFiniteSet({1, 2})
  BY <1>1, <1>3, FS_RemoveElement
<1>5. SumOn(f, {1, 2}) = f[2] + SumOn(f, {1})
  <2>1. SumOn(f, {1, 2}) = f[2] + SumOn(f, {1, 2} \ {2})
    BY <1>4, SumStep
  <2> QED  BY <1>3, <2>1
<1>6. SumOn(f, {1}) = f[1]
  BY SumOne
<1>7. Total(f) = SumOn(f, 1..3)
  BY TotalIsSum
<1> QED  BY <1>2, <1>3, <1>5, <1>6, <1>7

\* Two functions of the names that add up to the assets.
LEMMA PairAdds ==
  ASSUME NEW v, NEW f, NEW h,
         \A name \in Names(v) : /\ f[name] \in Nat /\ h[name] \in Nat
                                /\ f[name] + h[name] = Assets(Source(v, name))
  PROVE  Adds(<<f, h>>, v)
<1> SUFFICES ASSUME NEW name \in Names(v)
             PROVE  /\ \A g \in DOMAIN <<f, h>> : <<f, h>>[g][name] >= 0
                    /\ Total([g \in DOMAIN <<f, h>> |-> <<f, h>>[g][name]]) = Assets(Source(v, name))
  BY DEF Adds
<1> DEFINE part == [g \in DOMAIN <<f, h>> |-> <<f, h>>[g][name]]
<1>1. DOMAIN part = 1..2 /\ part[1] = f[name] /\ part[2] = h[name]
  OBVIOUS
<1>2. \A g \in DOMAIN <<f, h>> : <<f, h>>[g][name] >= 0
  OBVIOUS
<1> HIDE DEF part
<1>3. Total(part) = part[1] + part[2]
  BY <1>1, SumTwo
<1> QED  BY <1>1, <1>2, <1>3 DEF part

\* Three groups of a source that share out its assets add up.
LEMMA TripleAdds ==
  ASSUME NEW v, NEW f, NEW e, NEW h,
         \A name \in Names(v) : /\ f[name] \in Nat /\ e[name] \in Nat /\ h[name] \in Nat
                                /\ f[name] + e[name] + h[name] = Assets(Source(v, name))
  PROVE  Adds(<<f, e, h>>, v)
<1> SUFFICES ASSUME NEW name \in Names(v)
             PROVE  /\ \A g \in DOMAIN <<f, e, h>> : <<f, e, h>>[g][name] >= 0
                    /\ Total([g \in DOMAIN <<f, e, h>> |-> <<f, e, h>>[g][name]]) = Assets(Source(v, name))
  BY DEF Adds
<1> DEFINE part == [g \in DOMAIN <<f, e, h>> |-> <<f, e, h>>[g][name]]
<1>1. DOMAIN part = 1..3 /\ part[1] = f[name] /\ part[2] = e[name] /\ part[3] = h[name]
  OBVIOUS
<1>2. \A g \in DOMAIN <<f, e, h>> : <<f, e, h>>[g][name] >= 0
  OBVIOUS
<1> HIDE DEF part
<1>3. Total(part) = part[1] + part[2] + part[3]
  BY <1>1, SumThree
<1> QED  BY <1>1, <1>2, <1>3 DEF part

\* A share of p in d is a part.
LEMMA ShareOf ==
  ASSUME NEW n \in Nat, NEW d \in Nat \ {0}, NEW p \in Nat, p <= d
  PROVE  Round(n * p, d) \in Nat /\ Round(n * p, d) <= n
<1>1. n * p \in Nat /\ n * p <= n * d
  OBVIOUS
<1> QED  BY <1>1, RoundNear, RoundAtMost

\* Half of p percent and three tenths, each rounded, fit.
LEMMA HalfAndThirdFit ==
  ASSUME NEW n \in Nat, NEW p \in Nat, p <= 100
  PROVE  /\ Round(n * p, 200) \in Nat /\ Round(3 * n, 10) \in Nat
         /\ Round(n * p, 200) + Round(3 * n, 10) <= n
<1> DEFINE np == n * p
<1>1. np \in Nat /\ np <= n * 100
  OBVIOUS
<1> HIDE DEF np
<1>2. 200 \in Nat \ {0} /\ 10 \in Nat \ {0} /\ 3 * n \in Nat
  OBVIOUS
<1>3. Round(np, 200) \in Nat /\ 2 * (200 * Round(np, 200)) <= 2 * np + 200
  BY <1>1, <1>2, RoundNear
<1>4. Round(3 * n, 10) \in Nat /\ 2 * (10 * Round(3 * n, 10)) <= 2 * (3 * n) + 10
  BY <1>2, RoundNear
<1>5. Round(np, 200) + Round(3 * n, 10) <= n
  BY <1>1, <1>3, <1>4
<1> QED  BY <1>3, <1>4, <1>5 DEF np

\* The sensitive assets and the others share out a source.
LEMMA SensitiveBySourceSound == ASSUME NEW v, IsView(v) PROVE Sound(SensitiveBySource(v), v)
<1> DEFINE f == [name \in Names(v) |-> High(Source(v, name))]
           h == [name \in Names(v) |-> Rest(Assets(Source(v, name)), High(Source(v, name)))]
<1>1. \A name \in Names(v) : /\ f[name] \in Nat /\ h[name] \in Nat
                             /\ f[name] + h[name] = Assets(Source(v, name))
  BY SourcesOfView, SourceNumbers DEF Rest
<1>2. SensitiveBySource(v) = Stacked(Total(BySource(v, High)), <<f, h>>)
  BY DEF SensitiveBySource, Split, BySource
<1> HIDE DEF f, h
<1>3. Adds(<<f, h>>, v)
  BY <1>1, PairAdds
<1>4. Total(BySource(v, High)) \in Int
  BY AssetsTotal DEF IsView
<1> QED  BY <1>2, <1>3, <1>4, NumberSound, StackedSound

\* The owned assets and the others share out a source: the part is a rounded percentage.
LEMMA OwnersCoverageSound == ASSUME NEW v, IsView(v) PROVE Sound(OwnersCoverage(v), v)
<1> DEFINE un(name) == Round(Assets(Source(v, name)) * Field(Source(v, name), "unowned_pct"), 1000)
           f == [name \in Names(v) |-> un(name)]
           h == [name \in Names(v) |-> Rest(Assets(Source(v, name)), un(name))]
<1>1. ASSUME NEW name \in Names(v)
      PROVE  /\ f[name] \in Nat /\ h[name] \in Nat
             /\ f[name] + h[name] = Assets(Source(v, name))
             /\ h[name] + f[name] = Assets(Source(v, name))
  <2>1. IsSource(Source(v, name)) /\ Assets(Source(v, name)) \in Nat
    BY SourcesOfView, SourceNumbers
  <2>2. Field(Source(v, name), "unowned_pct") \in Nat /\ Field(Source(v, name), "unowned_pct") <= 1000
    BY <2>1, FieldRange DEF Percentages, Unit
  <2>3. un(name) \in Nat /\ un(name) <= Assets(Source(v, name))
    BY <2>1, <2>2, ShareOf
  <2> HIDE DEF un
  <2> QED  BY <2>1, <2>3 DEF Rest
<1>2. OwnersCoverage(v) = Stacked(Pct(Total(h), AtLeastOne(Total(f) + Total(h))), <<h, f>>)
  BY DEF OwnersCoverage, Split, BySource
<1>3. DOMAIN f = Names(v) /\ DOMAIN h = Names(v)
  OBVIOUS
<1> HIDE DEF f, h
<1>4. Adds(<<h, f>>, v)
  BY <1>1, PairAdds
<1>5. Total(f) \in Nat /\ Total(h) \in Nat
  BY <1>1, <1>3, TotalBySource DEF IsView
<1>6. Pct(Total(h), AtLeastOne(Total(f) + Total(h))) \in Int
  BY <1>5, PctType, AtLeastOneType
<1> QED  BY <1>2, <1>4, <1>6, NumberSound, StackedSound

\* A percentage of a source and the rest share it out.
LEMMA StackedBySourceSound ==
  ASSUME NEW v, IsView(v), NEW key \in Percentages
  PROVE  Sound(StackedBySource(v, key), v)
<1> DEFINE pt(name) == Round(Assets(Source(v, name)) * Field(Source(v, name), key), 100 * Unit[key])
           f == [name \in Names(v) |-> pt(name)]
           h == [name \in Names(v) |-> Rest(Assets(Source(v, name)), pt(name))]
<1>1. ASSUME NEW name \in Names(v)
      PROVE  /\ f[name] \in Nat /\ h[name] \in Nat
             /\ f[name] + h[name] = Assets(Source(v, name))
  <2>1. IsSource(Source(v, name)) /\ Assets(Source(v, name)) \in Nat
    BY SourcesOfView, SourceNumbers
  <2>2. Field(Source(v, name), key) \in Nat /\ Field(Source(v, name), key) <= 100 * Unit[key]
    BY <2>1, FieldRange
  <2>3. 100 * Unit[key] \in Nat \ {0}
    BY DEF Percentages, Unit
  <2>4. pt(name) \in Nat /\ pt(name) <= Assets(Source(v, name))
    <3> HIDE DEF Unit
    <3> QED  BY <2>1, <2>2, <2>3, ShareOf
  <2> HIDE DEF pt
  <2> QED  BY <2>1, <2>4 DEF Rest
<1>2. StackedBySource(v, key) = Stacked(0, <<f, h>>)
  BY DEF StackedBySource, Split, BySource
<1> HIDE DEF f, h
<1>3. Adds(<<f, h>>, v)
  BY <1>1, PairAdds
<1> QED  BY <1>2, <1>3, NumberSound, StackedSound

\* Half the quality, three tenths and the rest share a source out.
LEMMA TrustBySourceSound == ASSUME NEW v, IsView(v) PROVE Sound(TrustBySource(v), v)
<1> DEFINE hi(name) == Round(Assets(Source(v, name)) * Mq(Source(v, name)), 200)
           mid(name) == Round(3 * Assets(Source(v, name)), 10)
           f == [name \in Names(v) |-> hi(name)]
           e == [name \in Names(v) |-> mid(name)]
           h == [name \in Names(v) |-> Rest(Assets(Source(v, name)), hi(name) + mid(name))]
<1>1. ASSUME NEW name \in Names(v)
      PROVE  /\ f[name] \in Nat /\ e[name] \in Nat /\ h[name] \in Nat
             /\ f[name] + e[name] + h[name] = Assets(Source(v, name))
  <2>1. /\ Assets(Source(v, name)) \in Nat
        /\ Mq(Source(v, name)) \in Nat /\ Mq(Source(v, name)) <= 100
    BY SourcesOfView, SourceNumbers
  <2>2. hi(name) \in Nat /\ mid(name) \in Nat /\ hi(name) + mid(name) <= Assets(Source(v, name))
    BY <2>1, HalfAndThirdFit
  <2> HIDE DEF hi, mid
  <2> QED  BY <2>1, <2>2 DEF Rest
<1>2. TrustBySource(v) = Stacked(0, <<f, e, h>>)
  BY DEF TrustBySource, BySource
<1> HIDE DEF f, e, h
<1>3. Adds(<<f, e, h>>, v)
  BY <1>1, TripleAdds
<1> QED  BY <1>2, <1>3, NumberSound, StackedSound

------------------------------------------------------------------------------
(* Ranked rows, dimensions and derived series. *)

\* The lowest-ranked source has the least quality.
LEMMA FirstRanked ==
  ASSUME NEW v, HasSources(v), v.sources # << >>
  PROVE  \E i \in DOMAIN v.sources :
           /\ Ranked(v, Mq)[1] = v.sources[i]
           /\ \A j \in DOMAIN v.sources : Mq(v.sources[i]) <= Mq(v.sources[j])
<1> DEFINE D == DOMAIN v.sources
           value == [i \in D |-> Mq(v.sources[i])]
           below(i) == {j \in D : value[j] < value[i] \/ (value[j] = value[i] /\ j < i)}
<1>1. Len(v.sources) \in Nat /\ D = 1..Len(v.sources) /\ IsFiniteSet(D) /\ 1 \in D
  BY Positions DEF HasSources
<1>2. \A i \in D : value[i] \in Nat /\ value[i] = Mq(v.sources[i])
  BY SourceNumbers DEF HasSources
<1> HIDE DEF value
<1>3. PICK i \in D : below(i) = {}
  <2> DEFINE all == {value[j] : j \in D}
  <2>1. PICK m \in all : \A k \in all : m <= k
    <3>1. all # {} /\ all \subseteq Nat
      BY <1>1, <1>2
    <3> HIDE DEF all
    <3> QED  BY <3>1, LeastNumber
  <2> DEFINE least == {j \in D : value[j] = m}
  <2>2. PICK i \in least : \A k \in least : i <= k
    <3>1. least # {} /\ least \subseteq Nat
      BY <1>1
    <3> HIDE DEF least
    <3> QED  BY <3>1, LeastNumber
  <2>3. ASSUME NEW j \in below(i) PROVE FALSE
    <3>1. j \in D /\ i \in D /\ value[i] = m /\ value[j] \in all
      OBVIOUS
    <3>2. value[i] <= value[j] /\ value[i] \in Nat /\ value[j] \in Nat /\ i \in Nat /\ j \in Nat
      BY <1>1, <1>2, <2>1, <3>1
    <3>3. value[j] = value[i] /\ j < i
      BY <2>3, <3>2
    <3>4. j \in least
      BY <3>1, <3>3
    <3> QED  BY <2>2, <3>2, <3>3, <3>4
  <2> QED  BY <2>3
<1>4. \A j \in D : Cardinality(below(j)) = 0 <=> below(j) = {}
  <2>1. \A j \in D : IsFiniteSet(below(j))
    BY <1>1, FS_Subset
  <2> HIDE DEF below
  <2> QED  BY <2>1, FS_EmptySet
<1> DEFINE lowest == CHOOSE k \in D : Cardinality(below(k)) = 0
<1>5. lowest \in D /\ below(lowest) = {}
  <2>1. \E k \in D : Cardinality(below(k)) = 0
    BY <1>3, <1>4
  <2> HIDE DEF below
  <2> QED  BY <1>4, <2>1
<1>6. Ranked(v, Mq)[1] = v.sources[lowest]
  <2>1. Ranked(v, Mq)[1] = v.sources[CHOOSE k \in D : Cardinality(below(k)) = 1 - 1]
    BY <1>1 DEF Ranked, Ordered, value
  <2>2. 1 - 1 = 0
    OBVIOUS
  <2> HIDE DEF below
  <2> QED  BY <2>1, <2>2
<1> HIDE DEF lowest
<1>7. ASSUME NEW j \in D PROVE value[lowest] <= value[j]
  BY <1>2, <1>5
<1> QED  BY <1>2, <1>5, <1>6, <1>7

\* The sources in their order are as many.
LEMMA RankedLength ==
  ASSUME NEW v, HasSources(v)
  PROVE  /\ DOMAIN Ranked(v, Mq) = 1..Len(v.sources)
         /\ Len(Ranked(v, Mq)) = Len(v.sources) /\ Len(v.sources) \in Nat
         /\ \E S : Ranked(v, Mq) \in Seq(S)
<1> DEFINE r == Ranked(v, Mq)
<1>1. DOMAIN v.sources = 1..Len(v.sources) /\ Len(v.sources) \in Nat
  BY Positions DEF HasSources
<1>2. DOMAIN r = DOMAIN v.sources /\ r = [n \in DOMAIN r |-> r[n]]
  BY DEF Ranked, Ordered
<1> HIDE DEF r
<1>3. r \in [1..Len(v.sources) -> Range(r)]
  BY <1>1, <1>2 DEF Range
<1>4. r \in Seq(Range(r)) /\ Len(r) = Len(v.sources)
  BY <1>1, <1>3
<1> QED  BY <1>1, <1>2, <1>4 DEF r

\* Rows of the chosen: as many as there are, the first of them first.
LEMMA RowsLength ==
  ASSUME NEW xs, IsFiniteSet(DOMAIN xs), NEW chosen \in SUBSET DOMAIN xs
  PROVE  Cardinality(chosen) \in Nat
BY FS_Subset, FS_CardinalityType

\* The first of a set of places is the least.
LEMMA NthFirst ==
  ASSUME NEW n \in Nat \ {0}
  PROVE  Nth(1..n, 1) = 1
<1> DEFINE I == 1..n
           before(i) == {j \in I : j < i}
<1>1. \A i \in I : IsFiniteSet(before(i))
  <2>1. IsFiniteSet(I)
    BY IntervalSize
  <2>2. \A i \in I : before(i) \in SUBSET I
    OBVIOUS
  <2> HIDE DEF I, before
  <2> QED  BY <2>1, <2>2, FS_Subset
<1>2. \A i \in I : Cardinality(before(i)) = 0 <=> i = 1
  <2>1. \A i \in I : Cardinality(before(i)) = 0 <=> before(i) = {}
    <3> HIDE DEF before
    <3> QED  BY <1>1, FS_EmptySet
  <2>2. \A i \in I : before(i) = {} <=> i = 1
    OBVIOUS
  <2> QED  BY <2>1, <2>2
<1>3. Nth(I, 1) = CHOOSE i \in I : Cardinality(before(i)) = 0
  BY DEF Nth
<1>4. 1 \in I
  OBVIOUS
<1> HIDE DEF before, I
<1> QED  BY <1>2, <1>3, <1>4 DEF I

\* The worst tables are the sweep's rows or the sources' stand-ins; the first has a number.
LEMMA WorstSound == ASSUME NEW v, IsView(v) PROVE Sound(WorstTables(v), v)
<1> DEFINE xs == First(Ranked(v, Mq), 6)
           chosen == {i \in DOMAIN xs : Every(xs[i])}
           picked == [n \in 1..Cardinality(chosen) |-> xs[Nth(chosen, n)]]
           made == [n \in DOMAIN picked |-> Row(picked[n].name, Mq(picked[n]))]
           rows == IF Dist(v, "worst_rows") # << >> THEN v.worst_rows ELSE made
           value == IF rows = << >> THEN 0 ELSE rows[1].last
<1>1. WorstTables(v) = Table(value, rows)
  BY DEF WorstTables, RealOr, Rows, Picked
<1>2. HasSources(v)
  BY DEF IsView
<1>3. CASE Dist(v, "worst_rows") # << >>
  <2>1. "worst_rows" \in DOMAIN v /\ v.worst_rows # << >>
    BY <1>3 DEF Dist, Get
  <2>2. /\ v.worst_rows \in Seq(Range(v.worst_rows))
        /\ \A i \in DOMAIN v.worst_rows : v.worst_rows[i].last \in Nat
    BY <2>1 DEF IsView, HasRows
  <2>3. 1 \in DOMAIN v.worst_rows
    BY <2>1, <2>2
  <2>4. rows = v.worst_rows
    BY <1>3
  <2> HIDE DEF rows
  <2>5. value \in Int
    BY <2>1, <2>2, <2>3, <2>4
  <2> HIDE DEF value
  <2> QED  BY <1>1, <2>5, NumberSound, TableSound
<1>4. CASE Dist(v, "worst_rows") = << >>
  <2> DEFINE k == IF Len(v.sources) < 6 THEN Len(v.sources) ELSE 6
  <2>1. PICK S : Ranked(v, Mq) \in Seq(S) /\ Len(Ranked(v, Mq)) = Len(v.sources)
    BY <1>2, RankedLength
  <2>2. Len(v.sources) \in Nat /\ k \in Nat /\ k <= Len(v.sources)
    BY <1>2, RankedLength
  <2>3. xs = SubSeq(Ranked(v, Mq), 1, k)
    BY <2>1 DEF First
  <2>4. DOMAIN xs = 1..k /\ (k # 0 => xs[1] = Ranked(v, Mq)[1])
    <3> HIDE DEF k
    <3> QED  BY <2>1, <2>2, <2>3
  <2>5. chosen = 1..k
    BY <2>4 DEF Every
  <2>6. Cardinality(1..k) = k
    <3> HIDE DEF k
    <3> QED  BY <2>2, IntervalSize
  <2>7. rows = made
    BY <1>4
  <2>8. CASE k = 0
    <3>1. made = << >>
      <4>1. Cardinality(chosen) = 0
        <5> HIDE DEF chosen, k
        <5> QED  BY <2>5, <2>6, <2>8
      <4> HIDE DEF chosen, xs
      <4>2. DOMAIN made = {}
        BY <4>1
      <4>3. made = [n \in {} |-> made[n]]
        BY <4>2
      <4> HIDE DEF made
      <4> QED  BY <4>3
    <3> HIDE DEF made, rows
    <3>2. value = 0
      BY <2>7, <3>1
    <3> HIDE DEF value
    <3> QED  BY <1>1, <3>2, NumberSound, TableSound
  <2>9. CASE k # 0
    <3>1. made[1] = Row(xs[Nth(1..k, 1)].name, Mq(xs[Nth(1..k, 1)])) /\ made # << >>
      <4>1. Cardinality(chosen) = k
        <5> HIDE DEF chosen, k
        <5> QED  BY <2>5, <2>6
      <4>2. 1 \in 1..k
        <5> HIDE DEF k
        <5> QED  BY <2>2, <2>9
      <4>3. made[1] = Row(xs[Nth(chosen, 1)].name, Mq(xs[Nth(chosen, 1)])) /\ 1 \in DOMAIN made
        <5> HIDE DEF k, chosen, xs
        <5> QED  BY <4>1, <4>2
      <4>4. made # << >>
        <5> HIDE DEF made
        <5>1. DOMAIN << >> = {}
          OBVIOUS
        <5> QED  BY <4>3, <5>1, Zenon
      <4> HIDE DEF k, xs, chosen, made
      <4> QED  BY <4>3, <4>4, <2>5
    <3>2. Nth(1..k, 1) = 1
      <4> HIDE DEF k
      <4> QED  BY <2>2, <2>9, NthFirst
    <3>3. v.sources # << >>
      BY <2>9
    <3>4. PICK i \in DOMAIN v.sources : Ranked(v, Mq)[1] = v.sources[i]
      BY <1>2, <3>3, FirstRanked
    <3>5. Mq(xs[1]) \in Nat
      BY <1>2, <2>4, <2>9, <3>4, SourceNumbers DEF HasSources
    <3>6. made[1].last \in Nat
      <4> HIDE DEF made, xs, k
      <4> QED  BY <3>1, <3>2, <3>5 DEF Row
    <3> HIDE DEF made, rows
    <3>7. value = made[1].last
      BY <2>7, <3>1
    <3>8. made[1].last \in Int
      BY <3>6
    <3>9. value \in Int
      BY <3>7, <3>8, Zenon
    <3> HIDE DEF value
    <3> QED  BY <1>1, <3>9, NumberSound, TableSound
  <2> QED  BY <2>8, <2>9, <2>2
<1> QED  BY <1>3, <1>4

\* The weakest source is None or a name, and neither is Raised.
LEMMA WeakestSound == ASSUME NEW v, IsView(v) PROVE Sound(WeakestSource(v), v)
<1>1. CASE v.sources = << >>
  BY <1>1, ConstantsApart, KpiSound DEF WeakestSource
<1>2. CASE v.sources # << >>
  <2>1. PICK i \in DOMAIN v.sources : Ranked(v, Mq)[1] = v.sources[i]
    BY <1>2, FirstRanked DEF IsView
  <2>2. v.sources[i].name \in DOMAIN NameSeed
    BY DEF IsView, HasSources, IsSource
  <2>3. WeakestSource(v) = Kpi(v.sources[i].name)
    BY <1>2, <2>1 DEF WeakestSource
  <2> QED  BY <2>2, <2>3, ConstantsApart, KpiSound
<1> QED  BY <1>1, <1>2

------------------------------------------------------------------------------
(* The dimensions of data quality. *)

\* Every query about one dimension names one.
LEMMA DimensionType ==
  /\ \A dim \in DOMAIN Dimensions : Dimensions[dim] \in Int
  /\ \A q \in DOMAIN DimQueries : DimQueries[q] \in DOMAIN Dimensions
  /\ \A dim \in DOMAIN Dimensions : DimSeed[dim] \in Nat
<1>1. \A dim \in DOMAIN Dimensions : Dimensions[dim] \in Int
  BY DEF Dimensions
<1>2. \A q \in DOMAIN DimQueries : DimQueries[q] \in DOMAIN Dimensions
  BY DEF Dimensions, DimQueries
<1>3. \A dim \in DOMAIN Dimensions : DimSeed[dim] \in Nat
  BY DEF Dimensions, DimSeed
<1> QED  BY <1>1, <1>2, <1>3

\* Clamped, a number is one.
LEMMA ClampType == \A n \in Int : Clamp(n) \in Int
BY DEF Clamp

\* The base of the dimensions is a number: 76 where there is no mean quality.
LEMMA BaseType == ASSUME NEW v, IsView(v) PROVE Base(v) \in Nat
<1>1. Get(v.totals, "mean_quality", None) \in Nat \cup {None}
  BY ViewTotal
<1> QED  BY <1>1, OrType DEF Base

\* A dimension's score is a number.
LEMMA DimScoreType ==
  ASSUME NEW v, IsView(v), NEW dim \in DOMAIN Dimensions
  PROVE  DimScore(v, dim) \in Int
<1>1. Base(v) \in Nat /\ Base(v) # None
  BY BaseType, ConstantsApart
<1>2. CASE dim \in DOMAIN Dist(v, "dq")
  <2>1. DimScore(v, dim) = v.dq[dim]
    BY <1>2 DEF DimScore
  <2>2. Dist(v, "dq") = v.dq
    BY <1>2 DEF Dist, Get
  <2>3. IsTally(Dist(v, "dq"))
    BY DistTally DEF Tallies
  <2> QED  BY <1>2, <2>1, <2>2, <2>3 DEF IsTally
<1>3. CASE dim \notin DOMAIN Dist(v, "dq")
  <2>1. DimScore(v, dim) = Clamp(Base(v) + Dimensions[dim])
    BY <1>1, <1>3 DEF DimScore
  <2>2. Base(v) + Dimensions[dim] \in Int
    BY <1>1, DimensionType
  <2> QED  BY <2>1, <2>2, ClampType
<1> QED  BY <1>2, <1>3

\* A source's score in a dimension is a number.
LEMMA DimSourceScoreType ==
  ASSUME NEW x, IsSource(x), NEW dim \in DOMAIN Dimensions
  PROVE  DimSourceScore(x, dim) \in Int
<1>1. Mq(x) \in Nat /\ Dimensions[dim] \in Int /\ NameSeed[x.name] + DimSeed[dim] \in Nat
  <2>1. NameSeed[x.name] \in Nat /\ DimSeed[dim] \in Nat
    BY ConstantsApart, DimensionType DEF IsSource
  <2> QED  BY <2>1, SourceNumbers, DimensionType
<1>2. (NameSeed[x.name] + DimSeed[dim]) % 9 \in Int
  BY <1>1
<1>3. Mq(x) + Dimensions[dim] + ((NameSeed[x.name] + DimSeed[dim]) % 9) - 4 \in Int
  BY <1>1, <1>2
<1> QED  BY <1>3, ClampType DEF DimSourceScore

\* All dimensions are shown as numbers.
LEMMA DqDimensionsSound == ASSUME NEW v, IsView(v) PROVE Sound(DqDimensions(v), v)
<1> DEFINE series == [dim \in DOMAIN Dimensions |-> DimScore(v, dim)]
<1>1. \A k \in DOMAIN series : series[k] \in Int
  BY DimScoreType
<1>2. DqDimensions(v) = Chart(Base(v), series)
  BY DEF DqDimensions
<1>3. Base(v) \in Int
  BY BaseType
<1> HIDE DEF series
<1> QED  BY <1>1, <1>2, <1>3, NumbersSound

\* One dimension is shown as numbers, by source too.
LEMMA DqDimSound ==
  ASSUME NEW v, IsView(v), NEW dim \in DOMAIN Dimensions
  PROVE  Sound(DqDim(v, dim), v)
<1> DEFINE series == [name \in Names(v) |-> DimSourceScore(Source(v, name), dim)]
<1>1. \A k \in DOMAIN series : series[k] \in Int
  BY SourcesOfView, DimSourceScoreType
<1>2. DimScore(v, dim) \in Int
  BY DimScoreType
<1>3. /\ DqDim(v, dim).value = DimScore(v, dim) /\ DqDim(v, dim).series = series
      /\ DqDim(v, dim).groups = << >>
  BY DEF DqDim, Data, BySource
<1> HIDE DEF series
<1> QED  BY <1>1, <1>2, <1>3, NumberSound DEF Sound, Raises

\* The bins of quality are counts.
LEMMA QualityDistributionSound == ASSUME NEW v, IsView(v) PROVE Sound(QualityDistribution(v), v)
<1> DEFINE inBin(b) == {n \in Names(v) : Mq(Source(v, n)) \in Bins[b]}
           series == [b \in DOMAIN Bins |-> Cardinality(inBin(b))]
<1>1. ASSUME NEW b PROVE Cardinality(inBin(b)) \in Int
  <2>1. IsFiniteSet(Names(v))
    BY NamesFinite DEF IsView
  <2> QED  BY <2>1, FS_Subset, FS_CardinalityType
<1>2. QualityDistribution(v) = Chart(0, series)
  BY DEF QualityDistribution
<1>3. \A k \in DOMAIN series : series[k] \in Int
  BY <1>1
<1> HIDE DEF series
<1> QED  BY <1>2, <1>3, NumbersSound

------------------------------------------------------------------------------
(* The remaining ones. *)

\* The weeks of the trend are numbers unless the coverage is None, which it never is.
LEMMA TrendSound == ASSUME NEW v, IsView(v) PROVE Sound(CoverageTrend(v), v)
<1> DEFINE end == Get(v.totals, "term_coverage_pct", 610)
           series == [w \in 1..8 |-> IF end = None THEN Raised ELSE end - 15 * (8 - w)]
<1>1. end \in Nat /\ end # None
  <2>1. end \in Nat \cup {None, 610} /\ end # None
    BY ViewTotal DEF IsView
  <2> HIDE DEF end
  <2> QED  BY <2>1
<1>2. CoverageTrend(v) = Chart(0, series)
  BY DEF CoverageTrend
<1> HIDE DEF end
<1>3. \A k \in DOMAIN series : series[k] \in Int
  BY <1>1
<1> HIDE DEF series
<1> QED  BY <1>2, <1>3, NumbersSound

\* What was modified in a week is numbers.
LEMMA ModifiedSound == ASSUME NEW v, IsView(v) PROVE Sound(RecentlyModified(v), v)
<1> DEFINE base == AtLeastOne(Or(Get(v.totals, "assets", None), 12480) \div 400)
           series == [day \in 1..7 |-> base + ((day - 1) % 4) * 3]
<1>1. Or(Get(v.totals, "assets", None), 12480) \in Nat
  <2> DEFINE n == Get(v.totals, "assets", None)
  <2>1. n \in Nat \cup {None}
    BY ViewTotal
  <2>2. 12480 \in Nat
    OBVIOUS
  <2> HIDE DEF n
  <2>3. Or(n, 12480) \in Nat
    BY <2>1, <2>2, OrType
  <2> QED  BY <2>3 DEF n
<1>2. base \in Nat
  <2>1. Or(Get(v.totals, "assets", None), 12480) \div 400 \in Nat
    BY <1>1
  <2> QED  BY <2>1, AtLeastOneType
<1>3. RecentlyModified(v) = Chart(base * 7, series)
  BY DEF RecentlyModified
<1> HIDE DEF base
<1>4. base * 7 \in Int /\ \A k \in DOMAIN series : series[k] \in Int
  BY <1>2
<1> HIDE DEF series
<1> QED  BY <1>3, <1>4, NumbersSound

\* Two weeks of scans are numbers.
LEMMA ScanSound == ASSUME NEW v, IsView(v) PROVE Sound(ScanActivity(v), v)
<1> DEFINE base == AtLeastOne(Len(v.sources))
           digits(i) == IF i < 10 THEN 48 + i ELSE 49 + 48 + (i - 10)
           series == [day \in 1..14 |-> base + (digits(day - 1) % 5)]
<1>1. base \in Nat
  BY AtLeastOneType DEF IsView, HasSources
<1>2. ScanActivity(v) = Chart(base * 30, series)
  BY DEF ScanActivity
<1> HIDE DEF base
<1>3. \A day \in 1..14 : digits(day - 1) \in Int
  OBVIOUS
<1> HIDE DEF digits
<1>4. base * 30 \in Int /\ \A k \in DOMAIN series : series[k] \in Int
  BY <1>1, <1>3
<1> HIDE DEF series
<1> QED  BY <1>2, <1>4, NumbersSound

\* The workers that are up are a count.
LEMMA WorkersSound == ASSUME NEW v, IsView(v) PROVE Sound(WorkersUp(v), v)
<1>1. IsFiniteSet(DOMAIN v.sources)
  BY Positions DEF IsView, HasSources
<1>2. Cardinality({i \in DOMAIN v.sources : FailedScans(v.sources[i]) = 0}) \in Int
  BY <1>1, FS_Subset, FS_CardinalityType
<1> QED  BY <1>2, NumberSound, KpiSound DEF WorkersUp

\* The tables without a value of their own are sound.
LEMMA TablesSound ==
  ASSUME NEW v
  PROVE  /\ Sound(PiiAssets(v), v) /\ Sound(SensitiveUnowned(v), v) /\ Sound(UnownedHighValue(v), v)
         /\ Sound(RiskAssets(v), v) /\ Sound(SourceInventory(v), v)
<1>1. \A rows : Sound(Table(0, rows), v)
  BY NumberSound, TableSound
<1>2. Sound(PiiAssets(v), v)
  BY <1>1 DEF PiiAssets
<1>3. Sound(SensitiveUnowned(v), v)
  BY <1>1 DEF SensitiveUnowned
<1>4. Sound(UnownedHighValue(v), v)
  BY <1>1 DEF UnownedHighValue
<1>5. Sound(RiskAssets(v), v)
  BY <1>1 DEF RiskAssets
<1>6. Sound(SourceInventory(v), v)
  BY <1>1 DEF SourceInventory
<1> QED  BY <1>2, <1>3, <1>4, <1>5, <1>6

\* The assets without a term are a total or a number of rows.
LEMMA UntermedSound == ASSUME NEW v, IsView(v) PROVE Sound(UntermedCritical(v), v)
<1> DEFINE chosen == {i \in DOMAIN v.sources : Field(v.sources[i], "term_coverage_pct") < 500}
           picked == [n \in 1..Cardinality(chosen) |-> v.sources[Nth(chosen, n)]]
           made == [n \in DOMAIN picked |-> Row(picked[n].name, "High")]
           rows == IF "untermed_rows" \in DOMAIN v THEN v.untermed_rows ELSE made
           value == Get(v, "untermed_hi_total", Len(rows))
<1>1. UntermedCritical(v) = Table(value, rows)
  BY DEF UntermedCritical, Rows, Picked
<1>2. value \in Int
  <2>1. CASE "untermed_hi_total" \in DOMAIN v
    BY <2>1 DEF Get, IsView, HasRows
  <2>2. CASE "untermed_hi_total" \notin DOMAIN v
    <3>1. rows = made /\ value = Len(rows)
      BY <2>2 DEF Get, IsView, HasRows
    <3>2. IsFiniteSet(DOMAIN v.sources)
      BY Positions DEF IsView, HasSources
    <3>3. Cardinality(chosen) \in Nat
      BY <3>2, RowsLength
    <3>4. Len(made) \in Int
      <4> HIDE DEF chosen
      <4> QED  BY <3>3
    <3> QED  BY <3>1, <3>4
  <2> QED  BY <2>1, <2>2
<1> HIDE DEF value, rows
<1> QED  BY <1>1, <1>2, NumberSound, TableSound

\* A query without a resolver is answered by what every snapshot has.
LEMMA GenericSound == ASSUME NEW v, IsView(v), NEW kind PROVE Sound(Generic(v, kind), v)
<1>1. Sound(Kpi(Or(Get(v.totals, "assets", None), Len(v.sources))), v)
  <2> DEFINE n == Get(v.totals, "assets", None)
             m == Len(v.sources)
  <2>1. n \in Nat \cup {None}
    BY ViewTotal
  <2>2. m \in Nat
    BY DEF IsView, HasSources
  <2> HIDE DEF n, m
  <2>3. Or(n, m) \in Nat
    BY <2>1, <2>2, OrType
  <2>4. Or(n, m) # Raised
    BY <2>3, NumberSound
  <2> QED  BY <2>4, KpiSound DEF n, m
<1>2. \A rows : Sound(Table(0, rows), v)
  BY NumberSound, TableSound
<1>3. Sound(AssetsBySource(v), v)
  BY AssetsBySourceSound
<1> HIDE DEF Sound
<1> QED  BY <1>1, <1>2, <1>3 DEF Generic

\* Tiles that read a count, a percentage or None.
LEMMA TilesSound ==
  ASSUME NEW v, IsView(v)
  PROVE  /\ \A key \in Tallies : \A k : Sound(Kpi(Get(Dist(v, key), k, 0)), v)
         /\ \A key \in Tallies : \A k : Sound(Kpi(Get(Dist(v, key), k, None)), v)
         /\ Sound(Kpi(Get(v.totals, "term_coverage_pct", 0)), v)
         /\ Sound(Kpi(Get(v, "terms_total", None)), v)
         /\ Sound(Kpi(4), v)
<1>1. ASSUME NEW key \in Tallies, NEW k
      PROVE  Sound(Kpi(Get(Dist(v, key), k, 0)), v) /\ Sound(Kpi(Get(Dist(v, key), k, None)), v)
  <2>1. IsTally(Dist(v, key)) /\ Get(Dist(v, key), k, 0) \in Nat
    BY DistTally
  <2>2. Get(Dist(v, key), k, None) \in Nat \cup {None}
    BY <2>1 DEF Get, IsTally
  <2>3. Get(Dist(v, key), k, 0) # Raised /\ Get(Dist(v, key), k, None) # Raised
    BY <2>1, <2>2, ConstantsApart
  <2> QED  BY <2>3, KpiSound
<1>2. Sound(Kpi(Get(v.totals, "term_coverage_pct", 0)), v)
  <2>1. Get(v.totals, "term_coverage_pct", 0) \in Nat \cup {None, 0}
    BY ViewTotal
  <2>2. Get(v.totals, "term_coverage_pct", 0) # Raised
    BY <2>1, ConstantsApart
  <2> QED  BY <2>2, KpiSound
<1>3. Sound(Kpi(Get(v, "terms_total", None)), v)
  <2>1. Get(v, "terms_total", None) \in Nat \cup {None}
    BY DEF Get, IsView, HasRows
  <2>2. Get(v, "terms_total", None) # Raised
    BY <2>1, ConstantsApart
  <2> QED  BY <2>2, KpiSound
<1>4. Sound(Kpi(4), v)
  BY NumberSound, KpiSound
<1> QED  BY <1>1, <1>2, <1>3, <1>4

------------------------------------------------------------------------------
(* Every query. *)

\* Every query, with or without a resolver of its own, is answered from every view
\* without arithmetic on None, and what it stacks adds up (panel_data.py:394-464).
THEOREM ResolveSound ==
  ASSUME NEW v, IsView(v), NEW query, NEW kind
  PROVE  Sound(Resolve(query, kind, v), v)
<1>1. /\ Sound(TrustDistribution(v), v) /\ Sound(SensitivityMix(v), v)
      /\ Sound(ProfileStatus(v), v) /\ Sound(LineageStatus(v), v)
      /\ Sound(RatingsDistribution(v), v) /\ Sound(OwnerWorkload(v), v)
      /\ Sound(AssetsByType(v), v)
  BY TrustSound, SensitivitySound, ProfileSound, LineageSound, RatingsSound, OwnersSound,
     AssetsByTypeSound
<1>2. /\ Sound(PiiDiscoveries(v), v) /\ Sound(EditActivity(v), v)
      /\ Sound(Counted(v, "policies"), v) /\ Sound(Counted(v, "terms"), v)
  <2>1. {"pii_types", "edits", "policies", "terms"} \subseteq Tallies
    BY DEF Tallies
  <2>2. \A key \in Tallies : /\ Sound(Chart(Total(Dist(v, key)), Dist(v, key)), v)
                             /\ Sound(Counted(v, key), v)
    BY CountsSound
  <2> QED  BY <2>1, <2>2 DEF PiiDiscoveries, EditActivity
<1>3. /\ Sound(AssetsBySource(v), v) /\ Sound(QualityBySource(v), v) /\ Sound(TermCoverage(v), v)
      /\ Sound(AssetCounts(v), v) /\ Sound(SourceCounts(v), v)
      /\ Sound(StaleFailed(v), v) /\ Sound(Kpi(StaleFailed(v).value), v)
  BY AssetsBySourceSound, MeansSound, AssetCountsSound, StaleSound
<1>4. /\ Sound(SensitiveBySource(v), v) /\ Sound(OwnersCoverage(v), v) /\ Sound(TrustBySource(v), v)
      /\ Sound(StackedBySource(v, "term_coverage_pct"), v)
      /\ Sound(StackedBySource(v, "mean_quality"), v)
  BY SensitiveBySourceSound, OwnersCoverageSound, TrustBySourceSound, StackedBySourceSound DEF Percentages
<1>5. /\ Sound(DqDimensions(v), v) /\ Sound(QualityDistribution(v), v) /\ Sound(WorstTables(v), v)
      /\ Sound(CoverageTrend(v), v) /\ Sound(RecentlyModified(v), v) /\ Sound(ScanActivity(v), v)
      /\ Sound(WorkersUp(v), v) /\ Sound(UntermedCritical(v), v) /\ Sound(WeakestSource(v), v)
      /\ Sound(Generic(v, kind), v)
  BY DqDimensionsSound, QualityDistributionSound, WorstSound, TrendSound, ModifiedSound,
     ScanSound, WorkersSound, UntermedSound, WeakestSound, GenericSound
<1>6. \A q \in DOMAIN DimQueries : Sound(DqDim(v, DimQueries[q]), v)
  BY DqDimSound, DimensionType
<1>7. /\ Sound(PiiAssets(v), v) /\ Sound(SensitiveUnowned(v), v) /\ Sound(UnownedHighValue(v), v)
      /\ Sound(RiskAssets(v), v) /\ Sound(SourceInventory(v), v)
  BY TablesSound
<1>8. /\ Sound(Kpi(Get(v.totals, "term_coverage_pct", 0)), v)
      /\ Sound(Kpi(Get(v, "terms_total", None)), v) /\ Sound(Kpi(4), v)
      /\ \A k : /\ Sound(Kpi(Get(Dist(v, "coverage"), k, None)), v)
                /\ Sound(Kpi(Get(Dist(v, "types"), k, None)), v)
                /\ Sound(Kpi(Get(Dist(v, "trust"), k, 0)), v)
                /\ Sound(Kpi(Get(Dist(v, "lineage"), k, 0)), v)
  <2>1. {"coverage", "types", "trust", "lineage"} \subseteq Tallies
    BY DEF Tallies
  <2> QED  BY <2>1, TilesSound
<1> QED  BY <1>1, <1>2, <1>3, <1>4, <1>5, <1>6, <1>7, <1>8 DEF Resolve

------------------------------------------------------------------------------
(* The board. *)

\* A panel is an error only where its query is malformed, and what it shows by
\* groups adds up.
LEMMA PanelSound ==
  ASSUME NEW v, IsView(v), NEW p
  PROVE  /\ Panel(p, v) = Failure <=> p.kind # "text" /\ p.query = Malformed
         /\ "groups" \in DOMAIN Panel(p, v) => Adds(Panel(p, v).groups, v)
<1> DEFINE data == Resolve(p.query, p.kind, v)
<1>1. CASE p.kind = "text"
  <2>1. Panel(p, v) = [kind |-> "text"]
    BY <1>1 DEF Panel
  <2>2. [kind |-> "text"] # Failure /\ "groups" \notin DOMAIN [kind |-> "text"]
    BY DEF Failure
  <2> QED  BY <1>1, <2>1, <2>2
<1>2. CASE p.kind # "text" /\ p.query = Malformed
  <2>1. Panel(p, v) = Failure
    BY <1>2 DEF Panel
  <2> QED  BY <1>2, <2>1 DEF Failure
<1>3. CASE p.kind # "text" /\ p.query # Malformed
  <2>1. Sound(data, v)
    BY ResolveSound
  <2> HIDE DEF data
  <2>2. Panel(p, v) = Shape(p.kind, data)
    BY <1>3, <2>1 DEF Panel, Sound, data
  <2>3. Shape(p.kind, data) # Failure
    BY DEF Shape, Failure
  <2>4. "groups" \in DOMAIN Shape(p.kind, data) =>
          data.groups # << >> /\ Shape(p.kind, data).groups = data.groups
    BY DEF Shape
  <2> QED  BY <1>3, <2>1, <2>2, <2>3, <2>4 DEF Sound
<1> QED  BY <1>1, <1>2, <1>3

------------------------------------------------------------------------------
\* The panels passed by the time the n-th is next.
Passed(b, n) == {b[i].id : i \in 1..(n - 1)} \ {None}

\* While a board is resolved: the entries are those of the panels passed, each the
\* answer to the last panel of its id.  No panel passed raised outside of its try, and
\* if the board is lost, the next one did.
BoardIInv ==
    /\ snapshot \in Snapshots /\ board \in Boards
    /\ source \in Names(snapshot) \cup {"all"}
    /\ view = Scope(snapshot, source)
    /\ next \in 1..(Len(board) + 1)
    /\ DOMAIN panels = Passed(board, next)
    /\ \A i \in Standing : panels[board[i].id] = Panel(board[i], view)
    /\ \A id \in DOMAIN panels : \E i \in Standing : board[i].id = id
    /\ \A i \in 1..(next - 1) : Resolvable(board[i])
    /\ broken => ~Resolvable(board[next])

\* At the start no panel is there, and none is missing.
LEMMA BoardInitInv == BoardInit => BoardIInv
<1> SUFFICES ASSUME BoardInit PROVE BoardIInv
  OBVIOUS
<1>1. snapshot \in Snapshots /\ board \in Boards /\ source \in Names(snapshot) \cup {"all"}
      /\ view = Scope(snapshot, source) /\ next = 1 /\ panels = << >> /\ broken = FALSE
  BY DEF BoardInit
<1>2. Len(board) \in Nat
  BY <1>1, PanelAssumption
<1>3. next \in 1..(Len(board) + 1)
  BY <1>1, <1>2
<1>4. 1..(next - 1) = {}
  BY <1>1
<1>5. Passed(board, next) = {} /\ Standing = {}
  BY <1>4 DEF Passed, Standing
<1>6. DOMAIN panels = {}
  <2>1. DOMAIN << >> = {}
    OBVIOUS
  <2> QED  BY <1>1, <2>1, Zenon
<1> QED  BY <1>1, <1>3, <1>4, <1>5, <1>6 DEF BoardIInv

\* A panel resolved, or passed over, leaves the entries of the others: of those of
\* its id it becomes the one that stands.
LEMMA BoardStepInv == BoardIInv /\ [BoardNext]_boardVars => BoardIInv'
<1> SUFFICES ASSUME BoardIInv, [BoardNext]_boardVars PROVE BoardIInv'
  OBVIOUS
<1>1. CASE UNCHANGED boardVars
  BY <1>1 DEF boardVars, BoardIInv, Standing, Passed
<1>2. CASE ResolveNext
  <2> DEFINE p == board[next]
  <2>1. /\ snapshot' = snapshot /\ source' = source /\ view' = view /\ board' = board
        /\ next' = next + 1 /\ next <= Len(board) /\ ~broken' /\ Resolvable(board[next])
        /\ panels' = IF p.id = None THEN panels
                     ELSE [id \in DOMAIN panels \cup {p.id} |->
                             IF id = p.id THEN Panel(p, view) ELSE panels[id]]
    BY <1>2 DEF ResolveNext
  <2>2. next \in Nat \ {0} /\ Len(board) \in Nat /\ next' \in 1..(Len(board) + 1)
    BY <2>1, PanelAssumption DEF BoardIInv
  <2>3. 1..(next' - 1) = (1..(next - 1)) \cup {next} /\ next \notin 1..(next - 1)
    BY <2>1, <2>2
  <2>4. Passed(board', next') = IF p.id = None THEN Passed(board, next)
                                ELSE Passed(board, next) \cup {p.id}
    BY <2>1, <2>3 DEF Passed
  <2>5. Standing' = {i \in Standing : board[i].id # p.id} \cup
                      (IF p.id = None THEN {} ELSE {next})
    <3>1. Standing' = {i \in 1..(next' - 1) :
             board[i].id # None /\ \A j \in (i + 1)..(next' - 1) : board[j].id # board[i].id}
      BY <2>1 DEF Standing
    <3>2. \A i \in 1..(next - 1) : (i + 1)..(next' - 1) = ((i + 1)..(next - 1)) \cup {next}
      BY <2>1, <2>2
    <3>3. (next + 1)..(next' - 1) = {}
      BY <2>1, <2>2
    <3> HIDE DEF p
    <3>4. ASSUME NEW i \in 1..(next - 1)
          PROVE  i \in Standing' <=> i \in Standing /\ board[i].id # p.id
      BY <2>3, <3>1, <3>2 DEF Standing, p
    <3>5. next \in Standing' <=> p.id # None
      BY <2>3, <3>1, <3>3 DEF p
    <3>6. Standing \subseteq 1..(next - 1) /\ Standing' \subseteq (1..(next - 1)) \cup {next}
      BY <2>3, <3>1 DEF Standing
    <3>7. \A i \in Standing : board[i].id # None
      BY DEF Standing
    <3> QED  BY <2>3, <3>4, <3>5, <3>6, <3>7
  <2>6. /\ DOMAIN panels = Passed(board, next)
        /\ \A i \in Standing : panels[board[i].id] = Panel(board[i], view)
        /\ \A id \in DOMAIN panels : \E i \in Standing : board[i].id = id
        /\ \A i \in Standing : board[i].id # None /\ board[i].id \in DOMAIN panels
    <3>1. \A i \in Standing : i \in 1..(next - 1) /\ board[i].id # None
      BY DEF Standing
    <3>2. \A i \in Standing : board[i].id \in Passed(board, next)
      BY <3>1 DEF Passed
    <3> QED  BY <3>1, <3>2 DEF BoardIInv
  <2> DEFINE Good(S, f) == /\ \A i \in S : f[board[i].id] = Panel(board[i], view)
                           /\ \A id \in DOMAIN f : \E i \in S : board[i].id = id
  <2>7. DOMAIN panels' = Passed(board', next') /\ Good(Standing', panels')
    <3>1. CASE p.id = None
      <4>1. panels' = panels /\ Standing' = Standing
        BY <2>1, <2>5, <2>6, <3>1
      <4> QED  BY <2>4, <2>6, <3>1, <4>1
    <3>2. CASE p.id # None
      <4>1. panels' = [id \in DOMAIN panels \cup {p.id} |->
                         IF id = p.id THEN Panel(p, view) ELSE panels[id]]
        BY <2>1, <3>2
      <4>2. Standing' = {i \in Standing : board[i].id # p.id} \cup {next}
        BY <2>5, <3>2
      <4>3. ASSUME NEW i \in Standing' PROVE panels'[board[i].id] = Panel(board[i], view)
        BY <2>6, <4>1, <4>2
      <4>4. ASSUME NEW id \in DOMAIN panels' PROVE \E i \in Standing' : board[i].id = id
        BY <2>6, <4>1, <4>2
      <4> QED  BY <2>4, <2>6, <3>2, <4>1, <4>3, <4>4
    <3> QED  BY <3>1, <3>2
  <2>8. \A i \in 1..(next' - 1) : Resolvable(board'[i])
    BY <2>1, <2>3 DEF BoardIInv
  <2> QED  BY <2>1, <2>2, <2>7, <2>8 DEF BoardIInv
<1>3. CASE LoseBoard
  BY <1>3 DEF LoseBoard, BoardIInv, Standing, Passed
<1> QED  BY <1>1, <1>2, <1>3 DEF BoardNext

\* The invariant holds of every board.
LEMMA BoardInductive == BoardSpec => []BoardIInv
<1> QED  BY BoardInitInv, BoardStepInv, PTL DEF BoardSpec

\* The view of a reachable state is one, and its entries are panels in it.
LEMMA EntriesOfView ==
  ASSUME BoardIInv
  PROVE  /\ IsSnapshot(snapshot) /\ IsView(view)
         /\ \A id \in DOMAIN panels : \E i \in Standing : panels[id] = Panel(board[i], view)
<1>1. IsSnapshot(snapshot)
  BY PanelAssumption DEF BoardIInv
<1>2. IsView(view)
  BY <1>1, ScopeIsView DEF BoardIInv
<1> QED  BY <1>1, <1>2 DEF BoardIInv

\* A board never comes back with a hole or with an error of the code's own: every
\* panel passed that has an id has an entry, and the entry is an error only where the
\* query is malformed, whatever the snapshot lacks (panel_data.py:52-56 and 530-534);
\* the board is lost with an entry that is no object or whose id is no key, which
\* raises outside of the try (529 and 534), and with nothing else.
THEOREM AlwaysBoardComplete == BoardSpec => []BoardComplete
<1>1. BoardIInv => BoardComplete
  <2> SUFFICES ASSUME BoardIInv PROVE BoardComplete
    OBVIOUS
  <2>1. ASSUME NEW i \in Standing
        PROVE panels[board[i].id] = Failure <=> board[i].kind # "text" /\ board[i].query = Malformed
    <3>1. panels[board[i].id] = Panel(board[i], view)
      BY DEF BoardIInv
    <3> QED  BY <3>1, EntriesOfView, PanelSound
  <2>2. next > Len(board) => \A i \in DOMAIN board : Resolvable(board[i])
    BY PanelAssumption DEF BoardIInv
  <2> QED  BY <2>1, <2>2 DEF BoardIInv, BoardComplete, Passed
<1> QED  BY <1>1, BoardInductive, PTL

\* The segments of every stacked bar on a board are never negative and add up to the
\* assets of the source, whatever rounding each took (panel_data.py, the by-source
\* resolvers).
THEOREM AlwaysColumnsAddUp == BoardSpec => []ColumnsAddUp
<1>1. BoardIInv => ColumnsAddUp
  <2> SUFFICES ASSUME BoardIInv, NEW id \in DOMAIN panels, "groups" \in DOMAIN panels[id]
               PROVE  Adds(panels[id].groups, view)
    BY DEF ColumnsAddUp, Adds
  <2>1. PICK i \in Standing : panels[id] = Panel(board[i], view)
    BY EntriesOfView
  <2> QED  BY <2>1, EntriesOfView, PanelSound
<1> QED  BY <1>1, BoardInductive, PTL

------------------------------------------------------------------------------
(* The scopes of a catalogue add up. *)

\* A common factor is left out.
LEMMA Cancel ==
  ASSUME NEW t \in Nat \ {0}, NEW x \in Int, NEW y \in Int, t * x <= t * y
  PROVE  x <= y
<1>1. ASSUME x >= y + 1 PROVE t * x >= t * y + t
  BY <1>1
<1> QED  BY <1>1

\* Each share is off by half at most, so their sum by half of their number.
LEMMA SharesNear ==
  ASSUME NEW D, IsFiniteSet(D), NEW a, \A d \in D : a[d] \in Nat,
         NEW c \in Nat, NEW t \in Nat \ {0}, NEW f, \A d \in D : f[d] = Round(c * a[d], t),
         NEW S \in SUBSET D
  PROVE  /\ 2 * (t * SumOn(f, S)) <= 2 * (c * SumOn(a, S)) + t * Cardinality(S)
         /\ 2 * (c * SumOn(a, S)) <= 2 * (t * SumOn(f, S)) + t * Cardinality(S)
<1> DEFINE Near(R) == /\ 2 * (t * SumOn(f, R)) <= 2 * (c * SumOn(a, R)) + t * Cardinality(R)
                      /\ 2 * (c * SumOn(a, R)) <= 2 * (t * SumOn(f, R)) + t * Cardinality(R)
           wrong == {R \in SUBSET D : ~ Near(R)}
<1> SUFFICES ASSUME wrong # {} PROVE FALSE
  OBVIOUS
<1>1. \A R \in SUBSET D : IsFiniteSet(R) /\ Cardinality(R) \in Nat
  BY FS_Subset, FS_CardinalityType
<1>2. PICK R \in wrong : \A Q \in wrong : Cardinality(R) <= Cardinality(Q)
  <2>1. \A Q \in wrong : IsFiniteSet(Q)
    BY <1>1
  <2> HIDE DEF wrong
  <2> QED  BY <2>1, SmallestSet
<1>3. ASSUME NEW d \in D
      PROVE  f[d] \in Nat /\ 2 * (t * f[d]) <= 2 * (c * a[d]) + t
             /\ 2 * (c * a[d]) <= 2 * (t * f[d]) + t
  <2>1. c * a[d] \in Nat
    OBVIOUS
  <2> QED  BY <2>1, RoundNear
<1>4. R # {}
  <2>1. SumOn(f, {}) = 0 /\ SumOn(a, {}) = 0 /\ Cardinality({}) = 0
    BY SumEmpty, FS_EmptySet
  <2>2. 2 * (t * 0) = 0 /\ 2 * (c * 0) = 0 /\ t * 0 = 0
    OBVIOUS
  <2>3. Near({})
    BY <2>1, <2>2
  <2> HIDE DEF Near
  <2> QED  BY <1>2, <2>3
<1> DEFINE x == Pick(R)
           Q == R \ {x}
<1>5. x \in R /\ x \in D /\ R \in SUBSET D /\ Q \in SUBSET D
  BY <1>2, <1>4 DEF Pick
<1>6. Cardinality(Q) = Cardinality(R) - 1 /\ Cardinality(R) \in Nat /\ Cardinality(Q) \in Nat
  BY <1>1, <1>5, FS_RemoveElement
<1>7. Near(Q)
  <2>1. Q \notin wrong
    BY <1>2, <1>6
  <2> HIDE DEF Near
  <2> QED  BY <1>5, <2>1
<1>8. /\ SumOn(f, R) = f[x] + SumOn(f, Q) /\ SumOn(f, Q) \in Nat
      /\ SumOn(a, R) = a[x] + SumOn(a, Q) /\ SumOn(a, Q) \in Nat
  BY <1>1, <1>3, <1>5, SumStep, SumType
<1>9. \A p, q \in Nat : t * (p + q) = t * p + t * q /\ c * (p + q) = c * p + c * q
  OBVIOUS
<1>10. /\ t * SumOn(f, R) = t * f[x] + t * SumOn(f, Q)
       /\ c * SumOn(a, R) = c * a[x] + c * SumOn(a, Q)
       /\ t * Cardinality(R) = t + t * Cardinality(Q)
  <2>1. t * SumOn(f, R) = t * f[x] + t * SumOn(f, Q) /\ c * SumOn(a, R) = c * a[x] + c * SumOn(a, Q)
    BY <1>3, <1>5, <1>8, <1>9
  <2>2. Cardinality(R) = 1 + Cardinality(Q)
    BY <1>6
  <2>3. t * Cardinality(R) = t * 1 + t * Cardinality(Q) /\ t * 1 = t
    BY <1>6, <1>9, <2>2
  <2> QED  BY <2>1, <2>3
<1>11. /\ t * f[x] \in Nat /\ t * SumOn(f, Q) \in Nat /\ t * Cardinality(Q) \in Nat
       /\ c * a[x] \in Nat /\ c * SumOn(a, Q) \in Nat
  BY <1>3, <1>5, <1>6, <1>8
<1>12. /\ 2 * (t * f[x]) <= 2 * (c * a[x]) + t /\ 2 * (c * a[x]) <= 2 * (t * f[x]) + t
  BY <1>3, <1>5
<1>13. Near(R)
  <2> HIDE DEF x, Q
  <2> QED  BY <1>7, <1>10, <1>11, <1>12
<1> HIDE DEF Near
<1> QED  BY <1>2, <1>13

\* Narrowed to each source in turn.
LEMMA ScopesNear ==
  ASSUME NEW s, IsSnapshot(s), Total(BySource(s, Assets)) > 0,
         NEW key \in Scaled \cap DOMAIN s, NEW k \in DOMAIN s[key],
         ~ (key = "sensitivity" /\ k = "High"),
         NEW part, part = [n \in Names(s) |-> Scope(s, n)[key][k]]
  PROVE  2 * Total(part) - 2 * s[key][k] <= Len(s.sources)
         /\ 2 * s[key][k] - 2 * Total(part) <= Len(s.sources)
         /\ Total(part) \in Nat /\ s[key][k] \in Nat
<1> DEFINE N == Names(s)
           a == [n \in N |-> Assets(Source(s, n))]
           t == Total(BySource(s, Assets))
           c == s[key][k]
<1>1. IsFiniteSet(N) /\ Cardinality(N) = Len(s.sources) /\ Len(s.sources) \in Nat
  BY NamesFinite, Positions DEF IsSnapshot, HasSources
<1>2. \A n \in N : a[n] \in Nat
  BY SourceNamed, SourceNumbers DEF IsSnapshot
<1>3. t \in Nat \ {0} /\ t = SumOn(a, N)
  <2>1. t = SumOn(a, N) /\ t \in Nat
    BY <1>2, TotalBySource DEF IsSnapshot, BySource
  <2> QED  BY <2>1
<1>4. c \in Nat
  BY DEF IsSnapshot, HasTallies, IsTally, Scaled, Tallies
<1>5. ASSUME NEW n \in N PROVE part[n] = Round(c * a[n], t)
  <2>1. part[n] = Share(c, Assets(Source(s, n)), t)
    <3>1. CASE key = "sensitivity"
      <4>1. Scope(s, n).sensitivity = [i \in DOMAIN s.sensitivity \cup {"High"} |->
                IF i = "High" THEN High(Source(s, n))
                ELSE Share(s.sensitivity[i], Assets(Source(s, n)), t)]
        BY ScopeParts
      <4> HIDE DEF t
      <4> QED  BY <3>1, <4>1
    <3>2. CASE key # "sensitivity"
      <4>1. Scope(s, n)[key] = [i \in DOMAIN s[key] |-> Share(s[key][i], Assets(Source(s, n)), t)]
        <5>1. key \in (DOMAIN s \cap Scaled) \ {"sensitivity"} /\ n \in Names(s)
          BY <3>2
        <5>2. \A q \in (DOMAIN s \cap Scaled) \ {"sensitivity"} :
                Scope(s, n)[q] = [i \in DOMAIN s[q] |-> Share(s[q][i], Assets(Source(s, n)), t)]
          BY <5>1, ScopeParts
        <5> HIDE DEF t, c, N, a
        <5> QED  BY <5>1, <5>2, Zenon
      <4> HIDE DEF t
      <4> QED  BY <4>1
    <3> QED  BY <3>1, <3>2
  <2>2. AtLeastOne(t) = t
    <3> HIDE DEF t
    <3> QED  BY <1>3 DEF AtLeastOne
  <2> HIDE DEF t, c
  <2> QED  BY <2>1, <2>2 DEF Share
<1>6. Total(part) = SumOn(part, N)
  <2>1. DOMAIN part = N
    OBVIOUS
  <2> QED  BY <2>1, TotalIsSum
<1> HIDE DEF N, a, t, c
<1>7. /\ 2 * (t * SumOn(part, N)) <= 2 * (c * t) + t * Cardinality(N)
      /\ 2 * (c * t) <= 2 * (t * SumOn(part, N)) + t * Cardinality(N)
  <2>1. N \in SUBSET N
    OBVIOUS
  <2> QED  BY <1>1, <1>2, <1>3, <1>4, <1>5, <2>1, SharesNear
<1>8. SumOn(part, N) \in Nat
  <2>1. \A n \in N : part[n] \in Nat
    <3>1. \A n \in N : c * a[n] \in Nat
      BY <1>2, <1>4
    <3> QED  BY <1>3, <1>5, <3>1, RoundNear
  <2> QED  BY <1>1, <2>1, SumType
<1> DEFINE F == SumOn(part, N)
           L == Len(s.sources)
<1>9. t * (2 * F - 2 * c) <= t * L /\ t * (2 * c - 2 * F) <= t * L
  <2>1. F \in Nat /\ L \in Nat /\ c \in Nat /\ t \in Nat
    BY <1>1, <1>3, <1>4, <1>8
  <2>2. 2 * (t * F) <= 2 * (c * t) + t * L /\ 2 * (c * t) <= 2 * (t * F) + t * L
    BY <1>1, <1>7
  <2> HIDE DEF F, L
  <2> QED  BY <2>1, <2>2
<1>10. 2 * F - 2 * c \in Int /\ 2 * c - 2 * F \in Int /\ L \in Int
  BY <1>1, <1>4, <1>8
<1>11. 2 * F - 2 * c <= L /\ 2 * c - 2 * F <= L
  <2> HIDE DEF F, L
  <2> QED  BY <1>3, <1>9, <1>10, Cancel
<1> QED  BY <1>4, <1>6, <1>8, <1>11 DEF c

\* The high-sensitivity assets of the scoped boards are exactly those of the sources.
LEMMA ScopesHigh ==
  ASSUME NEW s, IsSnapshot(s), "High" \in DOMAIN s.sensitivity,
         NEW part, part = [n \in Names(s) |-> Scope(s, n).sensitivity["High"]]
  PROVE  Total(part) <= s.sensitivity.High /\ Total(part) = Total(BySource(s, High))
<1>1. ASSUME NEW n \in Names(s) PROVE Scope(s, n).sensitivity["High"] = High(Source(s, n))
  <2> DEFINE t == Total(BySource(s, Assets))
  <2>1. Scope(s, n).sensitivity = [i \in DOMAIN s.sensitivity \cup {"High"} |->
                IF i = "High" THEN High(Source(s, n))
                ELSE Share(s.sensitivity[i], Assets(Source(s, n)), t)]
    BY ScopeParts
  <2> HIDE DEF t
  <2> QED  BY <2>1
<1>2. part = BySource(s, High)
  BY <1>1 DEF BySource
<1>3. Total(BySource(s, High)) <= Get(s.sensitivity, "High", 0)
  BY DEF IsSnapshot, HighOfSources
<1> QED  BY <1>2, <1>3 DEF Get

\* The distributions of a catalogue's scoped boards add up to that of the whole within
\* half an asset per source, and their high-sensitivity assets exactly to those of the
\* sources (scope_snapshot, panel_data.py).
THEOREM AlwaysScopesAddUp == BoardSpec => []ScopesAddUp
<1>1. BoardIInv => ScopesAddUp
  <2> SUFFICES ASSUME BoardIInv, Total(BySource(snapshot, Assets)) > 0,
                      NEW key \in Scaled \cap DOMAIN snapshot, NEW k \in DOMAIN snapshot[key]
               PROVE  LET part == [n \in Names(snapshot) |-> Scope(snapshot, n)[key][k]]
                          far(a, b) == IF a < b THEN b - a ELSE a - b
                      IN  IF key = "sensitivity" /\ k = "High"
                          THEN /\ Total(part) <= snapshot.sensitivity.High
                               /\ Total(part) = Total(BySource(snapshot, High))
                          ELSE 2 * far(Total(part), snapshot[key][k]) <= Len(snapshot.sources)
    BY DEF ScopesAddUp
  <2> DEFINE part == [n \in Names(snapshot) |-> Scope(snapshot, n)[key][k]]
  <2>1. IsSnapshot(snapshot)
    BY EntriesOfView
  <2>2. CASE key = "sensitivity" /\ k = "High"
    <3>1. part = [n \in Names(snapshot) |-> Scope(snapshot, n).sensitivity["High"]]
      BY <2>2
    <3> HIDE DEF part
    <3>2. Total(part) <= snapshot.sensitivity.High /\ Total(part) = Total(BySource(snapshot, High))
      BY <2>1, <2>2, <3>1, ScopesHigh
    <3> QED  BY <2>2, <3>2 DEF part
  <2>3. CASE ~ (key = "sensitivity" /\ k = "High")
    <3>1. part = [n \in Names(snapshot) |-> Scope(snapshot, n)[key][k]]
      OBVIOUS
    <3> HIDE DEF part
    <3>2. /\ 2 * Total(part) - 2 * snapshot[key][k] <= Len(snapshot.sources)
          /\ 2 * snapshot[key][k] - 2 * Total(part) <= Len(snapshot.sources)
          /\ Total(part) \in Nat /\ snapshot[key][k] \in Nat
      BY <2>1, <2>3, <3>1, ScopesNear
    <3>3. ASSUME NEW a \in Nat, NEW b \in Nat, NEW l, 2 * a - 2 * b <= l, 2 * b - 2 * a <= l
          PROVE  2 * (IF a < b THEN b - a ELSE a - b) <= l
      BY <3>3
    <3>4. 2 * (IF Total(part) < snapshot[key][k] THEN snapshot[key][k] - Total(part)
               ELSE Total(part) - snapshot[key][k]) <= Len(snapshot.sources)
      BY <3>2, <3>3
    <3> QED  BY <2>3, <3>4 DEF part
  <2> QED  BY <2>2, <2>3
<1> QED  BY <1>1, BoardInductive, PTL

------------------------------------------------------------------------------
(* Tiles and charts. *)

\* What a panel of a well-formed query shows is what its resolver returns.
LEMMA StoodData ==
  ASSUME BoardIInv, NEW kind \in {"kpi", "chart"}, NEW query \in Headlines,
         NEW e \in Stood(kind, query)
  PROVE  e = Shape(kind, Resolve(query, kind, view))
<1>1. PICK i \in Standing : /\ e = panels[board[i].id]
                            /\ board[i].kind = kind /\ board[i].query = query
  BY DEF Stood
<1>2. e = Panel(board[i], view)
  BY <1>1 DEF BoardIInv
<1>3. kind # "text" /\ query # Malformed
  BY PanelAssumption
<1>4. ~ Raises(Resolve(query, kind, view))
  BY EntriesOfView, ResolveSound DEF Sound
<1> QED  BY <1>1, <1>2, <1>3, <1>4 DEF Panel

\* What a panel shows of its data, by its kind.
LEMMA ShapeParts ==
  ASSUME NEW data
  PROVE  /\ Shape("kpi", data).value = data.value
         /\ data.groups = << >> => Shape("chart", data).series = data.series
BY DEF Shape

\* The value of a tile is what its resolver computes of the view.
LEMMA TileValue ==
  ASSUME BoardIInv, NEW query \in Headlines, NEW e \in Stood("kpi", query)
  PROVE  e.value = Resolve(query, "kpi", view).value
<1>1. e = Shape("kpi", Resolve(query, "kpi", view))
  BY StoodData
<1> QED  BY <1>1, ShapeParts

\* The series of a chart without groups is what its resolver computes of the view.
LEMMA ChartSeries ==
  ASSUME BoardIInv, NEW query \in Headlines, NEW e \in Stood("chart", query),
         Resolve(query, "chart", view).groups = << >>
  PROVE  e.series = Resolve(query, "chart", view).series
<1>1. e = Shape("chart", Resolve(query, "chart", view))
  BY StoodData
<1> QED  BY <1>1, ShapeParts

\* The resolvers of the headlines.
LEMMA HeadlineResolvers ==
  ASSUME NEW v, NEW kind
  PROVE  /\ Resolve("sensitivity_mix", kind, v).value = Get(Dist(v, "sensitivity"), "High", 0)
         /\ Resolve("sensitive_by_source", kind, v).value = Total(BySource(v, High))
         /\ Resolve("asset_counts", kind, v).value = Or(Get(v.totals, "assets", 0), Total(BySource(v, Assets)))
         /\ Resolve("assets_by_source", kind, v).series = BySource(v, Assets)
         /\ Resolve("assets_by_source", kind, v).groups = << >>
         /\ Resolve("untrusted_count", kind, v).value = Get(Dist(v, "trust"), "Untrusted", 0)
         /\ Resolve("trust_distribution", kind, v).series = Dist(v, "trust")
         /\ Resolve("trust_distribution", kind, v).groups = << >>
         /\ Resolve("weakest_source", kind, v).value =
              IF v.sources = << >> THEN None ELSE Ranked(v, Mq)[1].name
         /\ Resolve("quality_by_source", kind, v).series = BySource(v, Mq)
         /\ Resolve("quality_by_source", kind, v).groups = << >>
         /\ Resolve("quality_by_source", kind, v).value = TotalOrMean(v, "mean_quality")
         /\ Resolve("dq_dimensions", kind, v).value = Base(v)
<1>1. Resolve("sensitivity_mix", kind, v) = SensitivityMix(v)
  BY DEF Resolve, DimQueries
<1>2. Resolve("sensitive_by_source", kind, v) = SensitiveBySource(v)
  BY DEF Resolve, DimQueries
<1>3. Resolve("asset_counts", kind, v) = AssetCounts(v)
  BY DEF Resolve, DimQueries
<1>4. Resolve("assets_by_source", kind, v) = AssetsBySource(v)
  BY DEF Resolve, DimQueries
<1>5. Resolve("untrusted_count", kind, v) = Kpi(Get(Dist(v, "trust"), "Untrusted", 0))
  BY DEF Resolve, DimQueries
<1>6. Resolve("trust_distribution", kind, v) = TrustDistribution(v)
  BY DEF Resolve, DimQueries
<1>7. Resolve("weakest_source", kind, v) = WeakestSource(v)
  BY DEF Resolve, DimQueries
<1>8. Resolve("quality_by_source", kind, v) = QualityBySource(v)
  BY DEF Resolve, DimQueries
<1>9. Resolve("dq_dimensions", kind, v) = DqDimensions(v)
  BY DEF Resolve, DimQueries
<1>10. /\ \A n : Kpi(n).value = n
       /\ \A n, series : Chart(n, series).value = n /\ Chart(n, series).series = series
                         /\ Chart(n, series).groups = << >>
       /\ \A n, groups : Stacked(n, groups).value = n
  BY DEF Kpi, Chart, Stacked, Data
<1>11. /\ SensitivityMix(v).value = Get(Dist(v, "sensitivity"), "High", 0)
       /\ SensitiveBySource(v).value = Total(BySource(v, High))
  BY <1>10 DEF SensitivityMix, SensitiveBySource
<1>12. /\ AssetCounts(v).value = Or(Get(v.totals, "assets", 0), Total(BySource(v, Assets)))
       /\ AssetsBySource(v).series = BySource(v, Assets) /\ AssetsBySource(v).groups = << >>
  BY <1>10 DEF AssetCounts, AssetsBySource
<1>13. TrustDistribution(v).series = Dist(v, "trust") /\ TrustDistribution(v).groups = << >>
  BY <1>10 DEF TrustDistribution
<1>14. WeakestSource(v).value = IF v.sources = << >> THEN None ELSE Ranked(v, Mq)[1].name
  BY <1>10 DEF WeakestSource
<1>15. /\ QualityBySource(v).series = BySource(v, Mq) /\ QualityBySource(v).groups = << >>
       /\ QualityBySource(v).value = TotalOrMean(v, "mean_quality")
  BY <1>10 DEF QualityBySource
<1>16. DqDimensions(v).value = Base(v)
  BY <1>10 DEF DqDimensions
<1> QED  BY <1>1, <1>2, <1>3, <1>4, <1>5, <1>6, <1>7, <1>8, <1>9, <1>10, <1>11, <1>12, <1>13,
            <1>14, <1>15, <1>16

\* The weakest source of a view that has one is as weak as any.
LEMMA WeakestIsLeast ==
  ASSUME NEW v, IsView(v), NEW name \in Names(v), NEW weakest,
         weakest = IF v.sources = << >> THEN None ELSE Ranked(v, Mq)[1].name
  PROVE  BySource(v, Mq)[weakest] <= BySource(v, Mq)[name]
<1>1. HasSources(v)
  BY DEF IsView
<1>2. PICK j \in DOMAIN v.sources : v.sources[j].name = name
  BY DEF Names
<1>3. v.sources # << >>
  BY <1>2
<1>4. PICK i \in DOMAIN v.sources :
        /\ Ranked(v, Mq)[1] = v.sources[i]
        /\ \A l \in DOMAIN v.sources : Mq(v.sources[i]) <= Mq(v.sources[l])
  BY <1>1, <1>3, FirstRanked
<1>5. weakest = v.sources[i].name
  BY <1>3, <1>4
<1>6. Source(v, weakest) = v.sources[i] /\ Source(v, name) = v.sources[j]
  BY <1>1, <1>2, <1>5, SourceAt
<1>7. weakest \in Names(v)
  BY <1>5 DEF Names
<1> QED  BY <1>2, <1>4, <1>6, <1>7 DEF BySource

\* Tiles and charts of one board do not contradict each other, although one reads a
\* total of the snapshot and the other its sources: sensitive assets, assets, untrusted
\* assets, the weakest source and the mean quality (panel_data.py, the resolvers).
THEOREM AlwaysHeadlinesAgree == BoardSpec => []HeadlinesAgree
<1>1. BoardIInv => HeadlinesAgree
  <2> SUFFICES ASSUME BoardIInv PROVE HeadlinesAgree
    OBVIOUS
  <2>1. IsView(view)
    BY EntriesOfView
  <2>2. {"sensitivity_mix", "sensitive_by_source", "asset_counts", "assets_by_source",
         "untrusted_count", "trust_distribution", "weakest_source", "quality_by_source",
         "dq_dimensions"} \subseteq Headlines
    BY DEF Headlines
  <2>3. ASSUME NoOrphans(view), NEW tile \in Stood("kpi", "sensitivity_mix"),
               NEW bars \in Stood("kpi", "sensitive_by_source")
        PROVE  tile.value = bars.value
    <3>1. tile.value = Get(Dist(view, "sensitivity"), "High", 0) /\ bars.value = Total(BySource(view, High))
      BY <2>2, TileValue, HeadlineResolvers
    <3>2. Dist(view, "sensitivity") = view.sensitivity
      BY <2>1 DEF IsView, HasTallies, Dist, Get
    <3>3. Get(view.sensitivity, "High", 0) = Total(BySource(view, High))
      BY <2>1, <2>3 DEF IsView
    <3> QED  BY <3>1, <3>2, <3>3
  <2>4. ASSUME NoOrphans(view), NEW tile \in Stood("kpi", "asset_counts"),
               NEW bars \in Stood("chart", "assets_by_source")
        PROVE  tile.value = Total(bars.series)
    <3>1. tile.value = Or(Get(view.totals, "assets", 0), Total(BySource(view, Assets)))
      BY <2>2, TileValue, HeadlineResolvers
    <3>2. bars.series = BySource(view, Assets)
      BY <2>2, ChartSeries, HeadlineResolvers
    <3>3. Get(view.totals, "assets", 0) = Total(BySource(view, Assets))
      BY <2>4 DEF NoOrphans
    <3> QED  BY <3>1, <3>2, <3>3 DEF Or
  <2>5. ASSUME NEW tile \in Stood("kpi", "untrusted_count"),
               NEW chart \in Stood("chart", "trust_distribution")
        PROVE  tile.value = chart.series["Untrusted"]
    <3>1. tile.value = Get(Dist(view, "trust"), "Untrusted", 0)
      BY <2>2, TileValue, HeadlineResolvers
    <3>2. chart.series = Dist(view, "trust")
      BY <2>2, ChartSeries, HeadlineResolvers
    <3>3. "Untrusted" \in DOMAIN Dist(view, "trust")
      BY <2>1 DEF IsView, HasTallies, Dist, Get
    <3> QED  BY <3>1, <3>2, <3>3 DEF Get
  <2>6. ASSUME NEW tile \in Stood("kpi", "weakest_source"),
               NEW bars \in Stood("chart", "quality_by_source"), NEW name \in DOMAIN bars.series
        PROVE  bars.series[tile.value] <= bars.series[name]
    <3>1. tile.value = IF view.sources = << >> THEN None ELSE Ranked(view, Mq)[1].name
      BY <2>2, TileValue, HeadlineResolvers
    <3>2. bars.series = BySource(view, Mq)
      BY <2>2, ChartSeries, HeadlineResolvers
    <3>3. name \in Names(view)
      BY <2>6, <3>2 DEF BySource
    <3> QED  BY <2>1, <3>1, <3>2, <3>3, WeakestIsLeast
  <2>7. ASSUME Get(view.totals, "mean_quality", None) \notin {None, 0},
               NEW mean \in Stood("kpi", "quality_by_source"), NEW dq \in Stood("kpi", "dq_dimensions")
        PROVE  mean.value = dq.value
    <3>1. mean.value = TotalOrMean(view, "mean_quality") /\ dq.value = Base(view)
      BY <2>2, TileValue, HeadlineResolvers
    <3> QED  BY <2>7, <3>1 DEF TotalOrMean, Base, Or
  <2> QED  BY <2>3, <2>4, <2>5, <2>6, <2>7 DEF HeadlinesAgree
<1> QED  BY <1>1, BoardInductive, PTL

------------------------------------------------------------------------------
(* Sequences one after the other. *)

\* The first k sequences one after the other, as FlattenSeq makes them.
Flattens(f, seqs, k) == f = [i \in 1..k |-> IF i = 1 THEN seqs[i] ELSE f[i - 1] \o seqs[i]]

\* There is such a function of any number of sequences.
LEMMA FlattensExist ==
  ASSUME NEW seqs, NEW n \in Nat
  PROVE  \E f : Flattens(f, seqs, n)
<1> DEFINE wrong == {k \in Nat : ~ \E f : Flattens(f, seqs, k)}
<1> SUFFICES ASSUME wrong # {} PROVE FALSE
  OBVIOUS
<1>1. PICK k \in wrong : \A l \in wrong : k <= l
  <2>1. wrong \subseteq Nat
    OBVIOUS
  <2> HIDE DEF wrong
  <2> QED  BY <2>1, LeastNumber
<1>2. k # 0
  <2>1. Flattens([i \in 1..0 |-> << >>], seqs, 0)
    <3>1. 1..0 = {}
      OBVIOUS
    <3> QED  BY <3>1 DEF Flattens
  <2> QED  BY <1>1, <2>1
<1>3. k \in Nat /\ k - 1 \in Nat /\ k - 1 \notin wrong
  BY <1>1, <1>2
<1>4. PICK h : Flattens(h, seqs, k - 1)
  BY <1>3
<1> DEFINE f == [i \in 1..k |-> IF i < k THEN h[i]
                               ELSE IF k = 1 THEN seqs[1] ELSE h[k - 1] \o seqs[k]]
<1>5. ASSUME NEW i \in 1..k
      PROVE  f[i] = IF i = 1 THEN seqs[i] ELSE f[i - 1] \o seqs[i]
  <2>1. CASE i < k
    <3>1. i \in 1..(k - 1) /\ (i # 1 => i - 1 \in 1..(k - 1) /\ i - 1 \in 1..k /\ i - 1 < k)
      BY <1>3, <2>1
    <3>2. h[i] = IF i = 1 THEN seqs[i] ELSE h[i - 1] \o seqs[i]
      BY <1>4, <3>1 DEF Flattens
    <3>3. f[i] = h[i] /\ (i # 1 => f[i - 1] = h[i - 1])
      BY <2>1, <3>1
    <3> HIDE DEF f
    <3> QED  BY <3>2, <3>3
  <2>2. CASE i = k
    <3>1. f[i] = IF k = 1 THEN seqs[1] ELSE h[k - 1] \o seqs[k]
      BY <2>2
    <3>2. k # 1 => f[k - 1] = h[k - 1]
      BY <1>3, <2>2
    <3> HIDE DEF f
    <3> QED  BY <2>2, <3>1, <3>2
  <2> QED  BY <1>3, <2>1, <2>2
<1>6. f = [i \in 1..k |-> f[i]]
  OBVIOUS
<1> HIDE DEF f
<1>7. Flattens(f, seqs, k)
  BY <1>5, <1>6 DEF Flattens
<1> QED  BY <1>1, <1>7

\* FlattenSeq is the last of them.
LEMMA FlattenIs ==
  ASSUME NEW seqs, Len(seqs) # 0, Len(seqs) \in Nat
  PROVE  \E f : Flattens(f, seqs, Len(seqs)) /\ FlattenSeq(seqs) = f[Len(seqs)]
<1>1. PICK g : Flattens(g, seqs, Len(seqs))
  BY FlattensExist
<1>2. g = [i \in 1..Len(seqs) |-> IF i = 1 THEN seqs[i] ELSE g[i - 1] \o seqs[i]]
  BY <1>1 DEF Flattens
<1>3. PICK h : /\ h = [i \in 1..Len(seqs) |-> IF i = 1 THEN seqs[i] ELSE h[i - 1] \o seqs[i]]
               /\ h[Len(seqs)] = FlattenSeq(seqs)
  BY <1>2 DEF FlattenSeq
<1> QED  BY <1>3 DEF Flattens

\* The last of the numbers 1 to n, taken off a sum.
LEMMA SumUpTo ==
  ASSUME NEW f, NEW n \in Nat \ {0}, \A j \in 1..n : f[j] \in Nat
  PROVE  SumOn(f, 1..n) = f[n] + SumOn(f, 1..(n - 1))
<1>1. IsFiniteSet(1..n)
  BY IntervalSize
<1>2. n \in 1..n /\ (1..n) \ {n} = 1..(n - 1)
  OBVIOUS
<1>3. \A x \in 1..n : SumOn(f, 1..n) = f[x] + SumOn(f, (1..n) \ {x})
  BY <1>1, SumStep
<1> QED  BY <1>2, <1>3

\* Two sequences, one after the other.
LEMMA ConcatParts ==
  ASSUME NEW S, NEW a \in Seq(S), NEW b \in Seq(S)
  PROVE  /\ a \o b \in Seq(S) /\ Len(a \o b) = Len(a) + Len(b)
         /\ \A i \in 1..(Len(a) + Len(b)) : (a \o b)[i] = IF i <= Len(a) THEN a[i] ELSE b[i - Len(a)]
         /\ Range(a) \subseteq Range(a \o b) /\ Range(b) \subseteq Range(a \o b)
         /\ Range(a \o b) \subseteq Range(a) \cup Range(b)
<1>1. /\ a \o b \in Seq(S) /\ Len(a \o b) = Len(a) + Len(b)
      /\ \A i \in 1..(Len(a) + Len(b)) : (a \o b)[i] = IF i <= Len(a) THEN a[i] ELSE b[i - Len(a)]
  OBVIOUS
<1>2. /\ Len(a) \in Nat /\ Len(b) \in Nat /\ DOMAIN a = 1..Len(a) /\ DOMAIN b = 1..Len(b)
      /\ DOMAIN (a \o b) = 1..(Len(a) + Len(b))
  BY <1>1
<1> DEFINE c == a \o b
<1> HIDE DEF c
<1>3. ASSUME NEW i \in DOMAIN a PROVE a[i] \in Range(c)
  <2>1. i \in DOMAIN c /\ c[i] = a[i]
    BY <1>1, <1>2 DEF c
  <2> QED  BY <2>1 DEF Range
<1>4. ASSUME NEW i \in DOMAIN b PROVE b[i] \in Range(c)
  <2>1. Len(a) + i \in DOMAIN c /\ c[Len(a) + i] = b[i]
    <3>1. Len(a) + i \in 1..(Len(a) + Len(b)) /\ ~ (Len(a) + i <= Len(a)) /\ Len(a) + i - Len(a) = i
      BY <1>2
    <3> QED  BY <1>1, <1>2, <3>1 DEF c
  <2> QED  BY <2>1 DEF Range
<1>5. ASSUME NEW i \in DOMAIN c PROVE c[i] \in Range(a) \cup Range(b)
  <2>1. CASE i <= Len(a)
    <3>1. i \in DOMAIN a /\ c[i] = a[i]
      BY <1>1, <1>2, <2>1 DEF c
    <3> QED  BY <3>1 DEF Range
  <2>2. CASE ~ (i <= Len(a))
    <3>1. i - Len(a) \in DOMAIN b /\ c[i] = b[i - Len(a)]
      BY <1>1, <1>2, <2>2 DEF c
    <3> QED  BY <3>1 DEF Range
  <2> QED  BY <2>1, <2>2
<1>6. /\ Range(a) \subseteq Range(c) /\ Range(b) \subseteq Range(c)
      /\ Range(c) \subseteq Range(a) \cup Range(b)
  BY <1>3, <1>4, <1>5 DEF Range
<1> QED  BY <1>1, <1>6 DEF c

\* Flattened, sequences keep their elements, and their lengths add up.
LEMMA FlattenParts ==
  ASSUME NEW S, NEW seqs \in Seq(Seq(S)),
         NEW length, length = [j \in DOMAIN seqs |-> Len(seqs[j])]
  PROVE  /\ FlattenSeq(seqs) \in Seq(S) /\ Len(FlattenSeq(seqs)) = Total(length)
         /\ \A j \in DOMAIN seqs : Range(seqs[j]) \subseteq Range(FlattenSeq(seqs))
         /\ \A x \in Range(FlattenSeq(seqs)) : \E j \in DOMAIN seqs : x \in Range(seqs[j])
<1>1. /\ Len(seqs) \in Nat /\ DOMAIN seqs = 1..Len(seqs)
      /\ \A j \in 1..Len(seqs) : seqs[j] \in Seq(S)
  OBVIOUS
<1>2. Total(length) = SumOn(length, 1..Len(seqs)) /\ \A j \in 1..Len(seqs) : length[j] \in Nat
  <2>1. DOMAIN length = 1..Len(seqs) /\ \A j \in 1..Len(seqs) : length[j] \in Nat
    BY <1>1
  <2> QED  BY <2>1, TotalIsSum
<1>3. CASE Len(seqs) = 0
  <2>1. FlattenSeq(seqs) = seqs
    BY <1>3 DEF FlattenSeq
  <2>2. seqs = << >> /\ DOMAIN seqs = {} /\ 1..Len(seqs) = {}
    BY <1>1, <1>3
  <2>3. Total(length) = 0
    BY <1>2, <2>2, SumEmpty
  <2>4. << >> \in Seq(S) /\ Len(<< >>) = 0 /\ Range(<< >>) = {}
    BY DEF Range
  <2> QED  BY <2>1, <2>2, <2>3, <2>4
<1>4. CASE Len(seqs) # 0
  <2>1. PICK f : Flattens(f, seqs, Len(seqs)) /\ FlattenSeq(seqs) = f[Len(seqs)]
    BY <1>1, <1>4, FlattenIs
  <2> DEFINE Done(i) == /\ f[i] \in Seq(S) /\ Len(f[i]) = SumOn(length, 1..i)
                        /\ \A j \in 1..i : Range(seqs[j]) \subseteq Range(f[i])
                        /\ \A x \in Range(f[i]) : \E j \in 1..i : x \in Range(seqs[j])
             wrong == {i \in 1..Len(seqs) : ~ Done(i)}
  <2>2. wrong = {}
    <3> SUFFICES ASSUME wrong # {} PROVE FALSE
      OBVIOUS
    <3>1. PICK i \in wrong : \A l \in wrong : i <= l
      <4>1. wrong \subseteq Nat
        BY <1>1
      <4> HIDE DEF wrong
      <4> QED  BY <4>1, LeastNumber
    <3>2. i \in 1..Len(seqs) /\ ~ Done(i)
      BY <3>1
    <3> HIDE DEF Done
    <3>3. ASSUME i # 1 PROVE i - 1 \in 1..Len(seqs) /\ Done(i - 1)
      <4>1. i - 1 \in 1..Len(seqs) /\ i - 1 \in Nat /\ ~ (i <= i - 1)
        BY <1>1, <3>2, <3>3
      <4> QED  BY <3>1, <4>1
    <3>5. SumOn(length, 1..i) = length[i] + SumOn(length, 1..(i - 1)) /\ length[i] = Len(seqs[i])
      <4>1. i \in Nat \ {0} /\ \A j \in 1..i : j \in 1..Len(seqs)
        BY <1>1, <3>2
      <4>2. \A j \in 1..i : length[j] \in Nat
        BY <1>2, <4>1
      <4>3. length[i] = Len(seqs[i])
        BY <1>1, <3>2
      <4> QED  BY <4>1, <4>2, <4>3, SumUpTo
    <3>6. CASE i = 1
      <4>1. f[1] = seqs[1] /\ seqs[1] \in Seq(S)
        BY <1>1, <2>1, <3>2, <3>6 DEF Flattens
      <4>2. 1..(1 - 1) = {} /\ SumOn(length, {}) = 0 /\ 1..1 = {1}
        BY SumEmpty
      <4>3. Len(f[1]) = SumOn(length, 1..1)
        BY <3>5, <3>6, <4>1, <4>2
      <4>4. Done(1)
        BY <4>1, <4>2, <4>3 DEF Done
      <4> QED  BY <3>2, <3>6, <4>4
    <3>7. CASE i # 1
      <4>1. f[i] = f[i - 1] \o seqs[i]
        BY <2>1, <3>2, <3>7 DEF Flattens
      <4>2. /\ f[i - 1] \in Seq(S) /\ Len(f[i - 1]) = SumOn(length, 1..(i - 1))
            /\ \A j \in 1..(i - 1) : Range(seqs[j]) \subseteq Range(f[i - 1])
            /\ \A x \in Range(f[i - 1]) : \E j \in 1..(i - 1) : x \in Range(seqs[j])
        BY <3>3, <3>7 DEF Done
      <4>3. seqs[i] \in Seq(S)
        BY <1>1, <3>2
      <4>4. /\ f[i] \in Seq(S) /\ Len(f[i]) = Len(f[i - 1]) + Len(seqs[i])
            /\ Range(f[i - 1]) \subseteq Range(f[i]) /\ Range(seqs[i]) \subseteq Range(f[i])
            /\ Range(f[i]) \subseteq Range(f[i - 1]) \cup Range(seqs[i])
        <5> DEFINE a == f[i - 1]
                   b == seqs[i]
        <5>1. a \in Seq(S) /\ b \in Seq(S) /\ f[i] = a \o b
          BY <4>1, <4>2, <4>3
        <5> HIDE DEF a, b
        <5>2. /\ a \o b \in Seq(S) /\ Len(a \o b) = Len(a) + Len(b)
              /\ Range(a) \subseteq Range(a \o b) /\ Range(b) \subseteq Range(a \o b)
              /\ Range(a \o b) \subseteq Range(a) \cup Range(b)
          BY <5>1, ConcatParts
        <5> QED  BY <5>1, <5>2 DEF a, b
      <4>5. 1..i = (1..(i - 1)) \cup {i}
        BY <1>1, <3>2
      <4>6. Len(f[i]) = SumOn(length, 1..i)
        <5>1. Len(f[i - 1]) \in Nat /\ Len(seqs[i]) \in Nat
          BY <4>2, <4>3
        <5> QED  BY <3>5, <4>2, <4>4, <5>1
      <4>7. \A j \in 1..i : Range(seqs[j]) \subseteq Range(f[i])
        BY <4>2, <4>4, <4>5
      <4>8. \A x \in Range(f[i]) : \E j \in 1..i : x \in Range(seqs[j])
        BY <4>2, <4>4, <4>5
      <4> QED  BY <3>2, <4>4, <4>6, <4>7, <4>8 DEF Done
    <3> QED  BY <3>6, <3>7
  <2>3. Done(Len(seqs))
    <3>1. Len(seqs) \in 1..Len(seqs)
      BY <1>1, <1>4
    <3> HIDE DEF Done
    <3> QED  BY <2>2, <3>1
  <2> QED  BY <1>1, <1>2, <2>1, <2>3
<1> QED  BY <1>3, <1>4

------------------------------------------------------------------------------
(* The assets behind a panel. *)

\* A source gives one row to six, and one of two rows or more has as many thousands
\* of assets.
LEMMA DrillCounts ==
  ASSUME NEW x, IsSource(x), NEW big, big = (IF Assets(x) < 2000 THEN 0 ELSE 1)
  PROVE  /\ DrillCount(x) \in 1..6 /\ DrillCount(x) - 1 <= 5 * big
         /\ 1000 * (DrillCount(x) - 1 + big) <= Assets(x)
<1> DEFINE a == Assets(x)
           q == a \div 1000
<1>1. a \in Nat
  BY SourceNumbers
<1>2. q \in Nat /\ 1000 * q <= a /\ a < 1000 * q + 1000
  <2>1. 1000 \in Nat \ {0}
    OBVIOUS
  <2> HIDE DEF a
  <2>2. q \in Nat /\ a % 1000 \in Nat /\ a = 1000 * q + (a % 1000) /\ a % 1000 < 1000
    BY <1>1, <2>1, DivMod
  <2> QED  BY <1>1, <2>2
<1>3. DrillCount(x) = IF AtLeastOne(q) > 6 THEN 6 ELSE AtLeastOne(q)
  BY DEF DrillCount
<1> HIDE DEF q, a
<1>4. DrillCount(x) = IF q > 6 THEN 6 ELSE IF q < 1 THEN 1 ELSE q
  BY <1>2, <1>3 DEF AtLeastOne
<1> QED  BY <1>1, <1>2, <1>4 DEF a

\* The rows c of n sources, of which b tells the big ones, and their assets a.
Drilled(c, b, a, n) ==
    \A i \in 1..n : /\ c[i] \in 1..6 /\ b[i] \in 0..1 /\ a[i] \in Nat
                    /\ c[i] - 1 <= 5 * b[i] /\ 1000 * (c[i] - 1 + b[i]) <= a[i]
                    /\ a[i] > 0 \/ b[i] = 0

\* Summed: with all sources there is a row of each, and five more of each that is big.
LEMMA DrillSums ==
  ASSUME NEW n \in Nat, NEW c, NEW b, NEW a, Drilled(c, b, a, n)
  PROVE  /\ SumOn(c, 1..n) \in Nat /\ SumOn(b, 1..n) \in Nat /\ SumOn(a, 1..n) \in Nat
         /\ SumOn(c, 1..n) - n <= 5 * SumOn(b, 1..n)
         /\ 1000 * (SumOn(c, 1..n) - n + SumOn(b, 1..n)) <= SumOn(a, 1..n)
         /\ (\A i \in 1..n : a[i] > 0) =>
               1000 * (SumOn(c, 1..n) - n + SumOn(b, 1..n)) + n - SumOn(b, 1..n) <= SumOn(a, 1..n)
         /\ (\A i \in 1..n : a[i] = 0) => SumOn(a, 1..n) = 0
<1> DEFINE C(k) == SumOn(c, 1..k)
           B(k) == SumOn(b, 1..k)
           A(k) == SumOn(a, 1..k)
           Done(k) == /\ C(k) \in Nat /\ B(k) \in Nat /\ A(k) \in Nat
                      /\ C(k) - k <= 5 * B(k) /\ 1000 * (C(k) - k + B(k)) <= A(k)
                      /\ (\A i \in 1..n : a[i] > 0) => 1000 * (C(k) - k + B(k)) + k - B(k) <= A(k)
                      /\ (\A i \in 1..n : a[i] = 0) => A(k) = 0
           wrong == {k \in 0..n : ~ Done(k)}
<1>1. wrong = {}
  <2> SUFFICES ASSUME wrong # {} PROVE FALSE
    OBVIOUS
  <2>1. PICK k \in wrong : \A l \in wrong : k <= l
    <3>1. wrong \subseteq Nat
      OBVIOUS
    <3> HIDE DEF wrong
    <3> QED  BY <3>1, LeastNumber
  <2>2. k \in 0..n /\ ~ Done(k)
    BY <2>1
  <2>3. k # 0
    <3>1. 1..0 = {} /\ SumOn(c, {}) = 0 /\ SumOn(b, {}) = 0 /\ SumOn(a, {}) = 0
      BY SumEmpty
    <3>2. C(0) = 0 /\ B(0) = 0 /\ A(0) = 0
      BY <3>1
    <3> HIDE DEF C, B, A
    <3>3. Done(0)
      BY <3>2
    <3> HIDE DEF Done
    <3> QED  BY <2>2, <3>3
  <2>4. Done(k - 1)
    <3>1. k - 1 \in 0..n /\ ~ (k <= k - 1)
      BY <2>2, <2>3
    <3> HIDE DEF Done
    <3> QED  BY <2>1, <3>1
  <2>5. k \in 1..n /\ k \in Nat \ {0} /\ \A i \in 1..k : i \in 1..n
    BY <2>2, <2>3
  <2>6. C(k) = c[k] + C(k - 1) /\ B(k) = b[k] + B(k - 1) /\ A(k) = a[k] + A(k - 1)
    <3>1. \A i \in 1..k : c[i] \in Nat /\ b[i] \in Nat /\ a[i] \in Nat
      BY <2>5 DEF Drilled
    <3> QED  BY <2>5, <3>1, SumUpTo
  <2> HIDE DEF C, B, A
  <2>7. /\ c[k] \in 1..6 /\ b[k] \in 0..1 /\ a[k] \in Nat
        /\ c[k] - 1 <= 5 * b[k] /\ 1000 * (c[k] - 1 + b[k]) <= a[k]
        /\ a[k] > 0 \/ b[k] = 0
    BY <2>5 DEF Drilled
  <2>8. C(k) \in Nat /\ B(k) \in Nat /\ A(k) \in Nat /\ C(k) - k <= 5 * B(k)
        /\ 1000 * (C(k) - k + B(k)) <= A(k)
    BY <2>4, <2>5, <2>6, <2>7
  <2>9. ASSUME \A i \in 1..n : a[i] > 0 PROVE 1000 * (C(k) - k + B(k)) + k - B(k) <= A(k)
    <3>1. 1000 * (C(k - 1) - (k - 1) + B(k - 1)) + (k - 1) - B(k - 1) <= A(k - 1)
      BY <2>4, <2>9
    <3>2. C(k - 1) \in Nat /\ B(k - 1) \in Nat /\ A(k - 1) \in Nat
      BY <2>4
    <3>3. a[k] > 0
      BY <2>5, <2>9
    <3> QED  BY <2>5, <2>6, <2>7, <3>1, <3>2, <3>3
  <2>10. ASSUME \A i \in 1..n : a[i] = 0 PROVE A(k) = 0
    <3>1. A(k - 1) = 0 /\ a[k] = 0
      BY <2>4, <2>5, <2>10
    <3> QED  BY <2>6, <3>1
  <2>11. Done(k)
    BY <2>8, <2>9, <2>10
  <2> HIDE DEF Done
  <2> QED  BY <2>2, <2>11
<1>2. Done(n)
  <2>1. n \in 0..n
    OBVIOUS
  <2> HIDE DEF Done
  <2> QED  BY <1>1, <2>1
<1> HIDE DEF wrong
<1> QED  BY <1>2

\* Up to fifteen sources of a snapshot have thirty rows or fewer.
LEMMA DrillFits ==
  ASSUME NEW s, HasSources(s), Fits(s), Len(s.sources) <= Room,
         NEW c, c = [i \in DOMAIN s.sources |-> DrillCount(s.sources[i])]
  PROVE  Total(c) <= 30
<1> DEFINE n == Len(s.sources)
           a == [i \in DOMAIN s.sources |-> s.sources[i].assets]
           b == [i \in DOMAIN s.sources |-> IF a[i] < 2000 THEN 0 ELSE 1]
<1>1. n \in Nat /\ n <= 15 /\ DOMAIN s.sources = 1..n
  BY Positions DEF HasSources, Room
<1>2. ASSUME NEW i \in 1..n
      PROVE  /\ c[i] \in 1..6 /\ b[i] \in 0..1 /\ a[i] \in Nat
             /\ c[i] - 1 <= 5 * b[i] /\ 1000 * (c[i] - 1 + b[i]) <= a[i]
             /\ a[i] > 0 \/ b[i] = 0
  <2>1. IsSource(s.sources[i]) /\ a[i] = Assets(s.sources[i]) /\ a[i] \in Nat
    BY <1>1, SourceNumbers DEF HasSources
  <2>2. c[i] = DrillCount(s.sources[i]) /\ b[i] = IF Assets(s.sources[i]) < 2000 THEN 0 ELSE 1
    BY <1>1, <2>1
  <2>3. /\ DrillCount(s.sources[i]) \in 1..6 /\ DrillCount(s.sources[i]) - 1 <= 5 * b[i]
        /\ 1000 * (DrillCount(s.sources[i]) - 1 + b[i]) <= Assets(s.sources[i])
    BY <2>1, <2>2, DrillCounts
  <2> HIDE DEF a, b
  <2> QED  BY <2>1, <2>2, <2>3
<1>3. DOMAIN c = 1..n /\ DOMAIN a = 1..n /\ DOMAIN b = 1..n
  BY <1>1
<1>4. /\ Total(a) <= 20000
      /\ (\A i \in 1..n : a[i] > 0) \/ (\A i \in 1..n : a[i] = 0)
  <2>1. /\ Total(a) <= 20000
        /\ \/ \A i \in DOMAIN s.sources : s.sources[i].assets > 0
           \/ \A i \in DOMAIN s.sources : s.sources[i].assets = 0
    BY DEF Fits
  <2>2. \A i \in 1..n : a[i] = s.sources[i].assets
    BY <1>1
  <2> HIDE DEF a, n
  <2> QED  BY <1>1, <2>1, <2>2
<1> HIDE DEF a, b, n
<1>5. Total(c) = SumOn(c, 1..n) /\ Total(a) = SumOn(a, 1..n)
  BY <1>3, TotalIsSum
<1> DEFINE C == SumOn(c, 1..n)
           B == SumOn(b, 1..n)
           A == SumOn(a, 1..n)
<1>6. /\ C \in Nat /\ B \in Nat /\ A \in Nat
      /\ C - n <= 5 * B /\ 1000 * (C - n + B) <= A
      /\ (\A i \in 1..n : a[i] > 0) => 1000 * (C - n + B) + n - B <= A
      /\ (\A i \in 1..n : a[i] = 0) => A = 0
  <2>1. Drilled(c, b, a, n)
    BY <1>2 DEF Drilled
  <2> QED  BY <1>1, <2>1, DrillSums
<1> HIDE DEF A, B, C
<1>7. A <= 20000
  BY <1>4, <1>5 DEF A
<1>8. CASE \A i \in 1..n : a[i] > 0
  <2>1. 1000 * (C - n + B) + n - B <= 20000
    BY <1>1, <1>6, <1>7, <1>8
  <2>2. C <= 30
    BY <1>1, <1>6, <2>1
  <2> QED  BY <1>5, <2>2 DEF C
<1>9. CASE \A i \in 1..n : a[i] = 0
  <2>1. 1000 * (C - n + B) <= 0
    BY <1>6, <1>9
  <2>2. C <= 30
    BY <1>1, <1>6, <2>1
  <2> QED  BY <1>5, <2>2 DEF C
<1> QED  BY <1>4, <1>8, <1>9

\* Narrowed or not.
LEMMA ViewFits ==
  ASSUME BoardIInv, Len(view.sources) <= Room,
         NEW c, c = [i \in DOMAIN view.sources |-> DrillCount(view.sources[i])]
  PROVE  Total(c) <= 30
<1>1. HasSources(snapshot) /\ Fits(snapshot) /\ HasSources(view)
  <2>1. IsSnapshot(snapshot) /\ IsView(view)
    BY EntriesOfView
  <2> QED  BY <2>1 DEF IsSnapshot, IsView
<1>2. CASE source = "all"
  <2>1. view = snapshot
    BY <1>2 DEF BoardIInv, Scope
  <2> QED  BY <1>1, <2>1, DrillFits
<1>3. CASE source \in Names(snapshot)
  <2>1. view.sources = <<Source(snapshot, source)>>
    BY <1>3, EntriesOfView, ScopeParts DEF BoardIInv
  <2>2. DOMAIN view.sources = 1..1 /\ 1 \in DOMAIN view.sources
    BY <2>1
  <2>3. IsSource(view.sources[1])
    BY <1>1, <2>2 DEF HasSources
  <2>4. DOMAIN c = 1..1 /\ c[1] \in 1..6
    BY <2>2, <2>3, DrillCounts
  <2>5. Total(c) = c[1]
    <3>1. 1..1 = {1} /\ c[1] \in Nat
      BY <2>4
    <3> QED  BY <2>4, <3>1, TotalIsSum, SumOne
  <2> QED  BY <2>4, <2>5
<1> QED  BY <1>2, <1>3 DEF BoardIInv

\* The assets behind a panel are of the sources in scope, Limit rows at most, and none
\* of up to fifteen sources is left out of them because others are large (drill_assets).
THEOREM AlwaysDrillCoversScope == BoardSpec => []DrillCoversScope
<1>1. BoardIInv => DrillCoversScope
  <2> SUFFICES ASSUME BoardIInv PROVE DrillCoversScope
    OBVIOUS
  <2> DEFINE src == view.sources
             of(i) == [n \in 1..DrillCount(src[i]) |-> Row(src[i].name, n)]
             seqs == [i \in DOMAIN src |-> of(i)]
             S == {Row(name, n) : name \in Names(view), n \in Nat}
             c == [i \in DOMAIN src |-> DrillCount(src[i])]
             all == FlattenSeq(seqs)
             k == IF Len(all) < Limit THEN Len(all) ELSE Limit
             rows == Drill(view)
             listed == {rows[n].source : n \in DOMAIN rows}
  <2>1. HasSources(view) /\ DOMAIN src = 1..Len(src) /\ Len(src) \in Nat
    BY EntriesOfView, Positions DEF IsView, HasSources
  <2>2. ASSUME NEW i \in DOMAIN src
        PROVE  /\ of(i) \in Seq(S) /\ Len(of(i)) = c[i] /\ c[i] \in Nat \ {0}
               /\ Row(src[i].name, 1) \in Range(of(i))
    <3>1. DrillCount(src[i]) \in 1..6
      BY <2>1, DrillCounts DEF HasSources
    <3>2. src[i].name \in Names(view)
      BY DEF Names
    <3>3. \A n \in 1..DrillCount(src[i]) : of(i)[n] \in S
      BY <3>1, <3>2
    <3>4. DOMAIN of(i) = 1..DrillCount(src[i]) /\ 1 \in 1..DrillCount(src[i])
      BY <3>1
    <3>5. of(i)[1] = Row(src[i].name, 1)
      BY <3>4
    <3>6. of(i) \in Seq(S) /\ Len(of(i)) = DrillCount(src[i])
      <4> HIDE DEF S
      <4> QED  BY <3>1, <3>3
    <3> HIDE DEF of
    <3> QED  BY <3>1, <3>4, <3>5, <3>6 DEF Range
  <2>3. seqs \in Seq(Seq(S)) /\ DOMAIN seqs = DOMAIN src /\ \A i \in DOMAIN src : seqs[i] = of(i)
    <3>2. seqs = [i \in 1..Len(src) |-> seqs[i]]
      BY <2>1
    <3>3. \A i \in DOMAIN src : seqs[i] = of(i)
      OBVIOUS
    <3>1. ASSUME NEW i \in 1..Len(src) PROVE seqs[i] \in Seq(S)
      <4>1. i \in DOMAIN src /\ seqs[i] = of(i)
        BY <2>1, <3>3
      <4> HIDE DEF seqs, of, S, c
      <4> QED  BY <2>2, <4>1
    <3>4. DOMAIN seqs = DOMAIN src
      OBVIOUS
    <3> HIDE DEF seqs, S, of
    <3>5. seqs \in Seq(Seq(S))
      BY <2>1, <3>1, <3>2
    <3> QED  BY <3>3, <3>4, <3>5
  <2>4. c = [j \in DOMAIN seqs |-> Len(seqs[j])]
    <3>1. \A i \in DOMAIN src : Len(seqs[i]) = c[i]
      <4> HIDE DEF seqs, of, S, c
      <4> QED  BY <2>2, <2>3
    <3> HIDE DEF seqs, of, S
    <3> QED  BY <2>3, <3>1
  <2>5. rows = SubSeq(all, 1, k)
    BY DEF Drill, First
  <2> HIDE DEF seqs, of, c, rows
  <2>6. /\ all \in Seq(S) /\ Len(all) = Total(c)
        /\ \A j \in DOMAIN seqs : Range(seqs[j]) \subseteq Range(all)
    <3> HIDE DEF S
    <3> QED  BY <2>3, <2>4, FlattenParts
  <2> HIDE DEF all
  <2>7. Limit \in Nat /\ Limit >= 30
    BY PanelAssumption
  <2>8. /\ Len(all) \in Nat /\ k \in Nat /\ k <= Len(all) /\ k <= Limit
        /\ (Len(all) <= Limit => k = Len(all))
    BY <2>6, <2>7
  <2>9. Len(rows) = k /\ DOMAIN rows = 1..k /\ \A n \in 1..k : rows[n] = all[n] /\ all[n] \in S
    <3> HIDE DEF S, k
    <3> QED  BY <2>5, <2>6, <2>8
  <2>10. listed \subseteq Names(view)
    <3>1. \A r \in S : r.source \in Names(view)
      BY DEF Row
    <3> HIDE DEF S, k
    <3> QED  BY <2>9, <3>1
  <2>11. ASSUME Cardinality(Names(view)) <= Room PROVE Names(view) \subseteq listed
    <3>1. Len(src) <= Room
      BY <2>1, <2>11, NamesFinite
    <3>2. Len(all) <= Limit
      <4>1. Total(c) <= 30
        BY <3>1, ViewFits DEF c
      <4> QED  BY <2>6, <2>7, <2>8, <4>1
    <3>3. k = Len(all)
      BY <2>8, <3>2
    <3> SUFFICES ASSUME NEW name \in Names(view) PROVE name \in listed
      OBVIOUS
    <3>4. PICK i \in DOMAIN src : src[i].name = name
      BY DEF Names
    <3>5. Row(name, 1) \in Range(all)
      <4>1. Row(src[i].name, 1) \in Range(seqs[i]) /\ i \in DOMAIN seqs
        <5> HIDE DEF of, c, S
        <5>1. Row(src[i].name, 1) \in Range(of(i))
          BY <2>2
        <5>2. seqs[i] = of(i) /\ i \in DOMAIN seqs
          BY <2>3
        <5> QED  BY <5>1, <5>2
      <4>2. Range(seqs[i]) \subseteq Range(all)
        BY <2>6, <4>1
      <4> QED  BY <3>4, <4>1, <4>2
    <3>6. PICK n \in DOMAIN all : all[n] = Row(name, 1)
      BY <3>5 DEF Range
    <3>7. n \in 1..k
      <4>1. DOMAIN all = 1..Len(all)
        BY <2>6
      <4> QED  BY <3>3, <3>6, <4>1
    <3>8. n \in DOMAIN rows /\ rows[n].source = name
      <4> HIDE DEF k, S
      <4> QED  BY <2>9, <3>6, <3>7 DEF Row
    <3> QED  BY <3>8
  <2>12. Len(rows) <= Limit
    BY <2>8, <2>9
  <2> HIDE DEF k, S
  <2> QED  BY <2>10, <2>11, <2>12 DEF DrillCoversScope, rows
<1> QED  BY <1>1, BoardInductive, PTL

------------------------------------------------------------------------------
(* Suggestions. *)

\* The places whose score puts them before place i.
Ahead(score, n, i) == {j \in 1..n : score[j] > score[i] \/ (score[j] = score[i] /\ j < i)}
Rank(score, n, i) == Cardinality(Ahead(score, n, i))

\* Ranks by score are all taken, and follow the scores.
LEMMA RanksTaken ==
  ASSUME NEW n \in Nat, NEW score, \A i \in 1..n : score[i] \in Int
  PROVE  /\ \A i \in 1..n : Rank(score, n, i) \in Nat
         /\ \A i, j \in 1..n : j \in Ahead(score, n, i) => Rank(score, n, j) < Rank(score, n, i)
         /\ \A k \in 0..(n - 1) : \E i \in 1..n : Rank(score, n, i) = k
<1> DEFINE rank == [i \in 1..n |-> Rank(score, n, i)]
<1>0. \A i \in 1..n : rank[i] = Cardinality(Ahead(score, n, i)) /\ rank[i] = Rank(score, n, i)
  BY DEF Rank
<1> DEFINE Places == 1..n
           Ranks == 0..(n - 1)
<1>1. IsFiniteSet(Places) /\ Cardinality(Places) = n
  BY IntervalSize
<1>2. ASSUME NEW i \in Places
      PROVE  /\ Ahead(score, n, i) \subseteq Places \ {i}
             /\ IsFiniteSet(Ahead(score, n, i)) /\ rank[i] = Cardinality(Ahead(score, n, i))
             /\ rank[i] \in Nat /\ rank[i] < n
  <2>1. Ahead(score, n, i) \subseteq Places \ {i}
    BY DEF Ahead
  <2>2. IsFiniteSet(Places \ {i}) /\ Cardinality(Places \ {i}) = n - 1
    BY <1>1, FS_RemoveElement
  <2>3. IsFiniteSet(Ahead(score, n, i)) /\ Cardinality(Ahead(score, n, i)) <= n - 1
    BY <2>1, <2>2, FS_Subset
  <2>4. Cardinality(Ahead(score, n, i)) \in Nat
    BY <2>3, FS_CardinalityType
  <2>5. rank[i] = Cardinality(Ahead(score, n, i))
    BY <1>0
  <2> QED  BY <2>1, <2>3, <2>4, <2>5
<1>3. ASSUME NEW i \in Places, NEW j \in Places, j \in Ahead(score, n, i)
      PROVE  rank[j] < rank[i]
  <2>1. Ahead(score, n, j) \subseteq Ahead(score, n, i) /\ j \notin Ahead(score, n, j)
    BY <1>3 DEF Ahead
  <2>2. /\ Cardinality(Ahead(score, n, j)) <= Cardinality(Ahead(score, n, i))
        /\ Cardinality(Ahead(score, n, i)) # Cardinality(Ahead(score, n, j))
    BY <1>2, <1>3, <2>1, FS_Subset
  <2> QED  BY <1>2, <2>2
<1>4. ASSUME NEW i \in Places, NEW j \in Places, i # j PROVE rank[i] # rank[j]
  <2>1. i \in Ahead(score, n, j) \/ j \in Ahead(score, n, i)
    BY <1>4 DEF Ahead
  <2> QED  BY <1>2, <1>3, <2>1
<1>5. IsFiniteSet(Ranks) /\ Cardinality(Ranks) = n
  <2>1. 0 \in Int /\ n - 1 \in Int /\ (0 > n - 1 <=> n = 0) /\ n - 1 - 0 + 1 = n
    OBVIOUS
  <2>2. IsFiniteSet(Ranks) /\ Cardinality(Ranks) = IF 0 > n - 1 THEN 0 ELSE n - 1 - 0 + 1
    BY <2>1, FS_Interval
  <2> QED  BY <2>1, <2>2
<1>6. rank \in Injection(Places, Ranks)
  <2>1. rank \in [Places -> Ranks]
    BY <1>2
  <2> HIDE DEF Places, Ranks
  <2> QED  BY <1>4, <2>1 DEF Injection, IsInjective
<1> HIDE DEF Places, Ranks, rank
<1>7. rank \in Surjection(Places, Ranks)
  BY <1>1, <1>5, <1>6, FS_Injection
<1>8. \A r \in Ranks : \E i \in Places : rank[i] = r
  BY <1>7 DEF Surjection
<1> HIDE DEF rank
<1> QED  BY <1>0, <1>2, <1>3, <1>8 DEF Places, Ranks

\* Of all places the m-th is m.
LEMMA NthOfAll == ASSUME NEW n \in Nat, NEW m \in 1..n PROVE Nth(1..n, m) = m
<1>1. ASSUME NEW i \in 1..n PROVE Cardinality({j \in 1..n : j < i}) = i - 1
  <2>1. {j \in 1..n : j < i} = 1..(i - 1) /\ i - 1 \in Nat
    OBVIOUS
  <2> QED  BY <2>1, IntervalSize
<1>2. Cardinality({j \in 1..n : j < m}) = m - 1
  BY <1>1
<1> DEFINE i == Nth(1..n, m)
<1>3. i \in 1..n /\ Cardinality({j \in 1..n : j < i}) = m - 1
  BY <1>2 DEF Nth
<1> HIDE DEF i
<1>4. i - 1 = m - 1
  BY <1>1, <1>3
<1> QED  BY <1>3, <1>4 DEF i

\* What suggestions are made of.
Templates == {"catalog-health", "stewardship", "activity-ratings", "quality-scores", "dq-dimensions",
    "policy-lineage", "scan-freshness", "key-coverage", "file-format-mix", "tag-coverage",
    "domain-coverage", "profiling-health", "risk-hotspots", "pii-discoveries", "glossary-coverage",
    "source-inventory", "source-comparison", "exposure-overview"}
Scored(scores, scopes) ==
    {Suggestion(section, template, score, scope) :
        section \in Sections, template \in Templates, score \in scores, scope \in scopes}

\* One suggestion or none.
LEMMA WhenParts ==
  ASSUME NEW S, NEW p, NEW x, p => x \in S
  PROVE  When(p, x) \in Seq(S) /\ \A y \in Range(When(p, x)) : p /\ y = x
<1>1. CASE p
  <2>1. When(p, x) = <<x>> /\ x \in S
    BY <1>1 DEF When
  <2>4. <<x>> \in Seq(S)
    BY <2>1
  <2>2. DOMAIN <<x>> = {1} /\ <<x>>[1] = x
    OBVIOUS
  <2>3. \A y \in Range(<<x>>) : y = x
    BY <2>2 DEF Range
  <2> QED  BY <1>1, <2>1, <2>3, <2>4
<1>2. CASE ~ p
  <2>1. When(p, x) = << >> /\ Range(<< >>) = {}
    BY <1>2 DEF When, Range
  <2> QED  BY <2>1
<1> QED  BY <1>1, <1>2

\* The evergreen suggestions score fifty at most.
LEMMA StartersParts ==
  ASSUME NEW scores, 36..50 \subseteq scores, NEW scopes, "none" \in scopes
  PROVE  /\ Starters \in Seq(Scored(scores, scopes))
         /\ \A x \in Range(Starters) : x.score \in 36..50 /\ x.template # "source-inventory"
<1>1. /\ Len(Starters) = 11 /\ DOMAIN Starters = 1..11
      /\ Starters = [i \in 1..11 |-> Starters[i]]
  BY DEF Starters
<1>2. ASSUME NEW i \in 1..11
      PROVE  /\ Starters[i] \in Scored(scores, scopes)
             /\ Starters[i].score \in 36..50 /\ Starters[i].template # "source-inventory"
  <2>1. PICK section \in Sections, template \in Templates \ {"source-inventory"}, score \in 36..50 :
             Starters[i] = Suggestion(section, template, score, "none")
    BY DEF Starters, Global, Sections, Templates
  <2>2. /\ Starters[i].score = score /\ Starters[i].template = template
    BY <2>1 DEF Suggestion
  <2>3. Starters[i] \in Scored(scores, scopes)
    BY <2>1 DEF Scored
  <2> QED  BY <2>2, <2>3
<1> HIDE DEF Starters
<1>3. Starters \in Seq(Scored(scores, scopes))
  BY <1>1, <1>2
<1> QED  BY <1>1, <1>2, <1>3 DEF Range

\* Before the evergreen suggestions come those of the whole catalogue, which score fifty
\* or more and are none of them.
Earlier(s) ==
    When(Failing(s) # 0, Global("system", "profiling-health",
             IF Round(100 * Failing(s), 800) + 40 > 100 THEN 100
             ELSE Round(100 * Failing(s), 800) + 40))
    \o When(5 * Get(Dist(s, "trust"), "Untrusted", 0) > AtLeastOne(Total(Dist(s, "trust"))),
            Global("overview", "risk-hotspots", 85))
    \o When(Get(Dist(s, "sensitivity"), "High", 0) > T.high_sens,
            Global("sensitivity", "pii-discoveries", 80))
    \o When(Get(s.totals, "term_coverage_pct", 1000) < T.coverage_low + 150,
            Global("governance", "glossary-coverage", 70))
    \o When(Len(s.sources) >= 5, Global("system", "source-inventory", 50))

\* Their scores, and what they may be about: a source or nothing in particular.
Scores == 36..100
Scopes(s) == Names(s) \cup {"none"}

\* They score fifty or more and are none of the evergreen ones.
LEMMA EarlierParts ==
  ASSUME NEW s, IsSnapshot(s)
  PROVE  /\ Earlier(s) \in Seq(Scored(Scores, Scopes(s)))
         /\ \A x \in Range(Earlier(s)) : x.score >= 50 /\ x \notin Range(Starters)
<1> DEFINE S == Scored(Scores, Scopes(s))
           Good(x) == x.score \in 50..100 /\ (x.score = 50 => x.template = "source-inventory")
           Part(a) == a \in Seq(S) /\ \A x \in Range(a) : Good(x)
<1>1. \A section \in Sections, template \in Templates, score \in 50..100 :
         score # 50 \/ template = "source-inventory" =>
            LET x == Global(section, template, score) IN x \in S /\ Good(x)
  <2> SUFFICES ASSUME NEW section \in Sections, NEW template \in Templates, NEW score \in 50..100,
                      score # 50 \/ template = "source-inventory"
               PROVE  /\ Global(section, template, score) \in S
                      /\ Good(Global(section, template, score))
    OBVIOUS
  <2>1. score \in Scores /\ "none" \in Scopes(s)
    BY DEF Scores, Scopes
  <2>2. Global(section, template, score) \in S
    BY <2>1 DEF Scored, Global
  <2> QED  BY <2>2 DEF Global, Suggestion
<1> HIDE DEF Good, S
<1>2. ASSUME NEW p, NEW x, p => x \in S /\ Good(x) PROVE Part(When(p, x))
  BY <1>2, WhenParts
<1>3. ASSUME NEW a, NEW b, Part(a), Part(b) PROVE Part(a \o b)
  BY <1>3, ConcatParts
<1> DEFINE failed == Round(100 * Failing(s), 800) + 40
           score1 == IF failed > 100 THEN 100 ELSE failed
<1>4. Failing(s) # 0 => score1 = 100
  <2>1. Failing(s) \in {0, 720}
    BY DEF IsSnapshot
  <2>2. Round(72000, 800) = 90
    BY DEF Round
  <2>3. CASE Failing(s) = 720
    <3>1. 100 * 720 = 72000
      OBVIOUS
    <3> QED  BY <2>2, <2>3, <3>1
  <2> QED  BY <2>1, <2>3
<1> HIDE DEF failed, score1
<1>5. 100 \in 50..100 /\ 85 \in 50..100 /\ 80 \in 50..100 /\ 70 \in 50..100 /\ 50 \in 50..100
  OBVIOUS
<1>6. /\ {"system", "overview", "sensitivity", "governance"} \subseteq Sections
      /\ {"profiling-health", "risk-hotspots", "pii-discoveries", "glossary-coverage",
          "source-inventory"} \subseteq Templates
  BY DEF Sections, Templates
<1>7. \A p : /\ Part(When(p, Global("overview", "risk-hotspots", 85)))
                         /\ Part(When(p, Global("sensitivity", "pii-discoveries", 80)))
                         /\ Part(When(p, Global("governance", "glossary-coverage", 70)))
                         /\ Part(When(p, Global("system", "source-inventory", 50)))
                         /\ Part(When(p, Global("system", "profiling-health", 100)))
  <2>1. /\ Global("overview", "risk-hotspots", 85) \in S /\ Good(Global("overview", "risk-hotspots", 85))
        /\ Global("sensitivity", "pii-discoveries", 80) \in S /\ Good(Global("sensitivity", "pii-discoveries", 80))
        /\ Global("governance", "glossary-coverage", 70) \in S /\ Good(Global("governance", "glossary-coverage", 70))
        /\ Global("system", "source-inventory", 50) \in S /\ Good(Global("system", "source-inventory", 50))
        /\ Global("system", "profiling-health", 100) \in S /\ Good(Global("system", "profiling-health", 100))
    BY <1>1, <1>5, <1>6
  <2> HIDE DEF Part
  <2> QED  BY <1>2, <2>1
<1>8. Part(When(Failing(s) # 0, Global("system", "profiling-health", score1)))
  <2> HIDE DEF Part
  <2>1. CASE Failing(s) # 0
    <3>1. When(Failing(s) # 0, Global("system", "profiling-health", score1))
             = When(TRUE, Global("system", "profiling-health", 100))
      BY <1>4, <2>1 DEF When
    <3> QED  BY <1>7, <3>1
  <2>2. CASE Failing(s) = 0
    <3>1. When(Failing(s) # 0, Global("system", "profiling-health", score1))
             = When(FALSE, Global("system", "profiling-health", 100))
      BY <2>2 DEF When
    <3> QED  BY <1>7, <3>1
  <2> QED  BY <2>1, <2>2
<1> HIDE DEF Part
<1>9. Part(Earlier(s))
  <2> DEFINE a1 == When(Failing(s) # 0, Global("system", "profiling-health", score1))
             a2 == When(5 * Get(Dist(s, "trust"), "Untrusted", 0) > AtLeastOne(Total(Dist(s, "trust"))),
                        Global("overview", "risk-hotspots", 85))
             a3 == When(Get(Dist(s, "sensitivity"), "High", 0) > T.high_sens,
                        Global("sensitivity", "pii-discoveries", 80))
             a4 == When(Get(s.totals, "term_coverage_pct", 1000) < T.coverage_low + 150,
                        Global("governance", "glossary-coverage", 70))
             a5 == When(Len(s.sources) >= 5, Global("system", "source-inventory", 50))
  <2>1. Earlier(s) = (((a1 \o a2) \o a3) \o a4) \o a5
    BY DEF Earlier, score1, failed
  <2>2. Part(a1) /\ Part(a2) /\ Part(a3) /\ Part(a4) /\ Part(a5)
    BY <1>7, <1>8
  <2> HIDE DEF a1, a2, a3, a4, a5
  <2>3. Part(a1 \o a2)
    BY <1>3, <2>2
  <2>4. Part((a1 \o a2) \o a3)
    BY <1>3, <2>2, <2>3
  <2>5. Part(((a1 \o a2) \o a3) \o a4)
    BY <1>3, <2>2, <2>4
  <2> QED  BY <1>3, <2>1, <2>2, <2>5
<1>10. \A x \in Range(Starters) : x.score \in 36..50 /\ x.template # "source-inventory"
  <2>1. 36..50 \subseteq 36..50 /\ "none" \in {"none"}
    OBVIOUS
  <2> QED  BY <2>1, StartersParts
<1>11. ASSUME NEW x, Good(x) PROVE x.score >= 50 /\ x \notin Range(Starters)
  BY <1>10, <1>11 DEF Good
<1> QED  BY <1>9, <1>11 DEF Part, S

\* What a source triggers scores sixty or more.
LEMMA SourceSignalsParts ==
  ASSUME NEW s, NEW x, x.name \in Names(s)
  PROVE  /\ SourceSignals(x) \in Seq(Scored(Scores, Scopes(s)))
         /\ \A y \in Range(SourceSignals(x)) : y.score >= 60
<1> DEFINE S == Scored(Scores, Scopes(s))
           Good(y) == y.score \in 60..100
           Part(a) == a \in Seq(S) /\ \A y \in Range(a) : Good(y)
           Own(section, template, score) == Suggestion(section, template, score, x.name)
<1>1. /\ Own("system", "profiling-health", 75) \in S /\ Good(Own("system", "profiling-health", 75))
      /\ Own("sensitivity", "exposure-overview", 82) \in S /\ Good(Own("sensitivity", "exposure-overview", 82))
      /\ Own("governance", "glossary-coverage", 60) \in S /\ Good(Own("governance", "glossary-coverage", 60))
      /\ Own("quality", "quality-scores", 65) \in S /\ Good(Own("quality", "quality-scores", 65))
  <2>1. \A section \in Sections, template \in Templates, score \in 60..100 :
           Own(section, template, score) \in S /\ Good(Own(section, template, score))
    <3> SUFFICES ASSUME NEW section \in Sections, NEW template \in Templates, NEW score \in 60..100
                 PROVE  Own(section, template, score) \in S /\ Good(Own(section, template, score))
      OBVIOUS
    <3>1. score \in Scores /\ x.name \in Scopes(s)
      BY DEF Scores, Scopes
    <3>2. Own(section, template, score) \in S
      BY <3>1 DEF Scored
    <3> QED  BY <3>2 DEF Suggestion
  <2>2. 75 \in 60..100 /\ 82 \in 60..100 /\ 60 \in 60..100 /\ 65 \in 60..100
    OBVIOUS
  <2>3. /\ {"system", "sensitivity", "governance", "quality"} \subseteq Sections
        /\ {"profiling-health", "exposure-overview", "glossary-coverage", "quality-scores"} \subseteq Templates
    BY DEF Sections, Templates
  <2> HIDE DEF Own, Good, S
  <2> QED  BY <2>1, <2>2, <2>3
<1> HIDE DEF Good, S
<1>2. ASSUME NEW p, NEW y, p => y \in S /\ Good(y) PROVE Part(When(p, y))
  BY <1>2, WhenParts
<1>3. ASSUME NEW a, NEW b, Part(a), Part(b) PROVE Part(a \o b)
  BY <1>3, ConcatParts
<1> DEFINE a1 == When(Get(x, "failed_scans", 0) >= T.failed_scans
                        \/ Get(x, "profiled_pct", 1000) < T.profiled_low,
                      Own("system", "profiling-health", 75))
           a2 == When(Get(x, "high_sensitivity", 0) > 50 /\ Get(x, "unowned_pct", 0) >= T.unowned_high,
                      Own("sensitivity", "exposure-overview", 82))
           a3 == When(Get(x, "term_coverage_pct", 1000) < T.coverage_low,
                      Own("governance", "glossary-coverage", 60))
           a4 == When(Get(x, "mean_quality", 100) < T.quality_low,
                      Own("quality", "quality-scores", 65))
<1>4. SourceSignals(x) = ((a1 \o a2) \o a3) \o a4
  BY DEF SourceSignals
<1> HIDE DEF Part, Own
<1>5. Part(a1) /\ Part(a2) /\ Part(a3) /\ Part(a4)
  BY <1>1, <1>2
<1> HIDE DEF a1, a2, a3, a4
<1>6. Part(a1 \o a2)
  BY <1>3, <1>5
<1>7. Part((a1 \o a2) \o a3)
  BY <1>3, <1>5, <1>6
<1>8. Part(SourceSignals(x))
  BY <1>3, <1>4, <1>5, <1>7
<1>9. \A y : Good(y) => y.score >= 60
  BY DEF Good
<1>10. SourceSignals(x) \in Seq(S) /\ \A y \in Range(SourceSignals(x)) : Good(y)
  BY <1>8 DEF Part
<1> QED  BY <1>9, <1>10 DEF S

\* A function of 1 to n is a sequence of what its values are in.
LEMMA SequenceOf ==
  ASSUME NEW n \in Nat, NEW f, f = [i \in 1..n |-> f[i]], NEW S, \A i \in 1..n : f[i] \in S
  PROVE  f \in Seq(S)
OBVIOUS

\* Every suggestion of a snapshot that is not evergreen goes before those that are.
LEMMA SignalsAhead ==
  ASSUME NEW s, IsSnapshot(s), NEW all,
         all = CatalogueSignals(s) \o FlattenSeq([i \in DOMAIN s.sources |-> SourceSignals(s.sources[i])])
  PROVE  /\ all \in Seq(Scored(Scores, Scopes(s)))
         /\ \A i, j \in 1..Len(all) : all[i] \in Range(Starters) /\ all[j] \notin Range(Starters) =>
               all[j].score > all[i].score \/ (all[j].score = all[i].score /\ j < i)
<1> DEFINE S == Scored(Scores, Scopes(s))
           e == Earlier(s)
           b == When(Len(s.sources) >= 2, Global("overview", "source-comparison", 58))
           seqs == [i \in DOMAIN s.sources |-> SourceSignals(s.sources[i])]
           g == FlattenSeq(seqs)
<1>1. all = ((e \o Starters) \o b) \o g
  BY DEF CatalogueSignals, Earlier
<1>2. e \in Seq(S) /\ \A x \in Range(e) : x.score >= 50 /\ x \notin Range(Starters)
  BY EarlierParts
<1>3. Starters \in Seq(S) /\ \A x \in Range(Starters) : x.score \in 36..50
  <2>1. 36..50 \subseteq Scores /\ "none" \in Scopes(s)
    BY DEF Scores, Scopes
  <2> QED  BY <2>1, StartersParts
<1>4. b \in Seq(S) /\ \A x \in Range(b) : x.score > 50
  <2> DEFINE y == Global("overview", "source-comparison", 58)
  <2>1. y \in S /\ y.score = 58
    <3>1. 58 \in Scores /\ "none" \in Scopes(s) /\ "overview" \in Sections /\ "source-comparison" \in Templates
      BY DEF Scores, Scopes, Sections, Templates
    <3> QED  BY <3>1 DEF Scored, Global, Suggestion
  <2> HIDE DEF y, S
  <2>2. When(Len(s.sources) >= 2, y) \in Seq(S) /\ \A z \in Range(When(Len(s.sources) >= 2, y)) : z = y
    BY <2>1, WhenParts
  <2> QED  BY <2>1, <2>2 DEF y
<1>5. g \in Seq(S) /\ \A x \in Range(g) : x.score >= 60
  <2>1. DOMAIN s.sources = 1..Len(s.sources) /\ Len(s.sources) \in Nat
    BY SnapshotSources, Positions DEF HasSources
  <2>2. ASSUME NEW i \in DOMAIN s.sources
        PROVE  seqs[i] \in Seq(S) /\ \A y \in Range(seqs[i]) : y.score >= 60
    <3>1. s.sources[i].name \in Names(s) /\ seqs[i] = SourceSignals(s.sources[i])
      BY DEF Names
    <3> HIDE DEF seqs, S
    <3> QED  BY <3>1, SourceSignalsParts DEF S
  <2>3. seqs = [i \in 1..Len(s.sources) |-> seqs[i]] /\ DOMAIN seqs = DOMAIN s.sources
    BY <2>1
  <2> HIDE DEF seqs, S
  <2>4. seqs \in Seq(Seq(S))
    <3>1. \A i \in 1..Len(s.sources) : seqs[i] \in Seq(S)
      BY <2>1, <2>2
    <3> QED  BY <2>1, <2>3, <3>1, SequenceOf
  <2> DEFINE length == [j \in DOMAIN seqs |-> Len(seqs[j])]
  <2>5. g \in Seq(S) /\ \A x \in Range(g) : \E j \in DOMAIN seqs : x \in Range(seqs[j])
    BY <2>4, FlattenParts
  <2> QED  BY <2>2, <2>3, <2>5
<1> HIDE DEF S, e, b, g
<1>6. ASSUME NEW p \in Seq(S), NEW q \in Seq(S)
      PROVE  /\ p \o q \in Seq(S) /\ Len(p \o q) = Len(p) + Len(q)
             /\ Len(p) \in Nat /\ Len(q) \in Nat
             /\ \A k \in 1..Len(p \o q) : k <= Len(p) => (p \o q)[k] = p[k] /\ p[k] \in Range(p)
             /\ \A k \in 1..Len(p \o q) : k > Len(p) => (p \o q)[k] \in Range(q)
  <2>1. /\ p \o q \in Seq(S) /\ Len(p \o q) = Len(p) + Len(q)
        /\ \A k \in 1..(Len(p) + Len(q)) : (p \o q)[k] = IF k <= Len(p) THEN p[k] ELSE q[k - Len(p)]
    BY ConcatParts
  <2>2. Len(p) \in Nat /\ Len(q) \in Nat /\ DOMAIN p = 1..Len(p) /\ DOMAIN q = 1..Len(q)
    OBVIOUS
  <2>3. ASSUME NEW k \in 1..(Len(p) + Len(q)), k <= Len(p)
        PROVE  (p \o q)[k] = p[k] /\ p[k] \in Range(p)
    <3>1. k \in DOMAIN p
      BY <2>2, <2>3
    <3> QED  BY <2>1, <2>3, <3>1 DEF Range
  <2>4. ASSUME NEW k \in 1..(Len(p) + Len(q)), k > Len(p) PROVE (p \o q)[k] \in Range(q)
    <3>1. k - Len(p) \in DOMAIN q /\ ~ (k <= Len(p))
      BY <2>2, <2>4
    <3>2. (p \o q)[k] = q[k - Len(p)]
      BY <2>1, <3>1
    <3> QED  BY <3>1, <3>2 DEF Range
  <2> QED  BY <2>1, <2>2, <2>3, <2>4
<1> DEFINE x1 == e \o Starters
           x2 == x1 \o b
<1>7. /\ x1 \in Seq(S) /\ Len(x1) = Len(e) + Len(Starters) /\ Len(e) \in Nat /\ Len(Starters) \in Nat
      /\ \A k \in 1..Len(x1) : k <= Len(e) => x1[k] = e[k] /\ e[k] \in Range(e)
      /\ \A k \in 1..Len(x1) : k > Len(e) => x1[k] \in Range(Starters)
  BY <1>2, <1>3, <1>6
<1> HIDE DEF x1
<1>8. /\ x2 \in Seq(S) /\ Len(x2) = Len(x1) + Len(b) /\ Len(x1) \in Nat /\ Len(b) \in Nat
      /\ \A k \in 1..Len(x2) : k <= Len(x1) => x2[k] = x1[k]
      /\ \A k \in 1..Len(x2) : k > Len(x1) => x2[k] \in Range(b)
  BY <1>4, <1>6, <1>7
<1> HIDE DEF x2
<1>9. /\ all \in Seq(S) /\ Len(all) = Len(x2) + Len(g) /\ Len(x2) \in Nat /\ Len(g) \in Nat
      /\ \A k \in 1..Len(all) : k <= Len(x2) => all[k] = x2[k]
      /\ \A k \in 1..Len(all) : k > Len(x2) => all[k] \in Range(g)
  <2>1. all = x2 \o g
    BY <1>1 DEF x1, x2
  <2>2. x2 \in Seq(S) /\ g \in Seq(S)
    BY <1>5, <1>8
  <2>3. /\ x2 \o g \in Seq(S) /\ Len(x2 \o g) = Len(x2) + Len(g)
        /\ Len(x2) \in Nat /\ Len(g) \in Nat
        /\ \A k \in 1..Len(x2 \o g) : k <= Len(x2) => (x2 \o g)[k] = x2[k]
        /\ \A k \in 1..Len(x2 \o g) : k > Len(x2) => (x2 \o g)[k] \in Range(g)
    BY <1>6, <2>2
  <2> QED  BY <2>1, <2>3
<1>10. ASSUME NEW k \in 1..Len(all)
       PROVE  /\ k <= Len(e) => all[k] \in Range(e)
              /\ k > Len(e) => all[k] \in Range(Starters) \cup Range(b) \cup Range(g)
  <2>1. CASE k <= Len(e)
    <3>1. k <= Len(x1) /\ k <= Len(x2) /\ k \in 1..Len(x1) /\ k \in 1..Len(x2)
      BY <1>7, <1>8, <1>9, <2>1
    <3> QED  BY <1>7, <1>8, <1>9, <2>1, <3>1
  <2>2. CASE k > Len(e) /\ k <= Len(x1)
    <3>1. k <= Len(x2) /\ k \in 1..Len(x1) /\ k \in 1..Len(x2)
      BY <1>7, <1>8, <1>9, <2>2
    <3> QED  BY <1>7, <1>8, <1>9, <2>2, <3>1
  <2>3. CASE k > Len(e) /\ k > Len(x1) /\ k <= Len(x2)
    <3>1. k \in 1..Len(x2)
      BY <1>8, <1>9, <2>3
    <3> QED  BY <1>8, <1>9, <2>3, <3>1
  <2>4. CASE k > Len(e) /\ k > Len(x2)
    BY <1>9, <2>4
  <2> QED  BY <1>7, <1>8, <1>9, <2>1, <2>2, <2>3, <2>4
<1>11. \A i \in 1..Len(all) : all[i] \in S
  BY <1>9
<1>12. \A x \in S : x.score \in Nat
  <2> SUFFICES ASSUME NEW x \in S PROVE x.score \in Nat
    OBVIOUS
  <2>1. PICK section \in Sections, template \in Templates, score \in Scores, scope \in Scopes(s) :
             x = Suggestion(section, template, score, scope)
    BY DEF S, Scored
  <2> QED  BY <2>1 DEF Suggestion, Scores
<1>13. ASSUME NEW i \in 1..Len(all), NEW j \in 1..Len(all),
              all[i] \in Range(Starters), all[j] \notin Range(Starters)
       PROVE  all[j].score > all[i].score \/ (all[j].score = all[i].score /\ j < i)
  <2>1. i > Len(e)
    <3>1. ~ (i <= Len(e))
      BY <1>2, <1>10, <1>13
    <3>2. i \in Nat /\ Len(e) \in Nat
      BY <1>7, <1>9
    <3> QED  BY <3>1, <3>2
  <2>2. all[i].score \in Nat /\ all[i].score <= 50 /\ all[j].score \in Nat
    <3>1. all[i].score \in 36..50
      BY <1>3, <1>13
    <3>2. all[j] \in S
      BY <1>11
    <3>3. all[j].score \in Nat
      BY <1>12, <3>2
    <3> DEFINE u == all[i].score
    <3> HIDE DEF u
    <3>4. u \in Nat /\ u <= 50
      <4>1. u \in 36..50
        BY <3>1 DEF u
      <4> QED  BY <4>1
    <3> QED  BY <3>3, <3>4 DEF u
  <2>3. CASE j <= Len(e)
    <3>1. all[j].score >= 50 /\ j < i
      BY <1>2, <1>7, <1>10, <2>1, <2>3
    <3> QED  BY <2>2, <3>1
  <2>4. CASE j > Len(e)
    <3>1. all[j] \in Range(b) \cup Range(g)
      BY <1>10, <1>13, <2>4
    <3>2. all[j].score > 50
      BY <1>4, <1>5, <2>2, <3>1
    <3> QED  BY <2>2, <3>2
  <2> QED  BY <1>7, <2>3, <2>4
<1> QED  BY <1>9, <1>13 DEF S

\* Suggestions are the signals and the starters by their scores.
LEMMA SuggestionsRanked ==
  ASSUME NEW s, IsSnapshot(s), NEW all,
         all = CatalogueSignals(s) \o FlattenSeq([i \in DOMAIN s.sources |-> SourceSignals(s.sources[i])])
  PROVE  Suggestions(s, "none", "none") = RankedByScore(all)
<1>1. Suggestions(s, "none", "none")
        = RankedByScore(Picked(all, LAMBDA x : "none" = "none" \/ x.section = "none"))
  BY DEF Suggestions
<1>2. all \in Seq(Scored(Scores, Scopes(s)))
  BY SignalsAhead
<1>3. DOMAIN all = 1..Len(all) /\ Len(all) \in Nat /\ all = [i \in 1..Len(all) |-> all[i]]
  BY <1>2
<1> DEFINE chosen == {i \in DOMAIN all : "none" = "none" \/ all[i].section = "none"}
<1>4. Picked(all, LAMBDA x : "none" = "none" \/ x.section = "none")
        = [n \in 1..Cardinality(chosen) |-> all[Nth(chosen, n)]]
  BY DEF Picked
<1>5. chosen = 1..Len(all)
  BY <1>3
<1> HIDE DEF chosen
<1>6. Cardinality(chosen) = Len(all)
  BY <1>3, <1>5, IntervalSize
<1>7. \A n \in 1..Len(all) : Nth(chosen, n) = n
  BY <1>3, <1>5, NthOfAll
<1>8. [n \in 1..Cardinality(chosen) |-> all[Nth(chosen, n)]] = [n \in 1..Len(all) |-> all[n]]
  BY <1>6, <1>7
<1> QED  BY <1>1, <1>3, <1>4, <1>8

\* Ranked by their scores, what goes before the rest comes before it.
LEMMA SnapshotSignals ==
  ASSUME NEW s, IsSnapshot(s), NEW r, r = Suggestions(s, "none", "none"),
         NEW m \in DOMAIN r, NEW n \in DOMAIN r, m < n, r[m] \in Range(Starters)
  PROVE  r[n] \in Range(Starters)
<1> DEFINE all == CatalogueSignals(s) \o FlattenSeq([i \in DOMAIN s.sources |-> SourceSignals(s.sources[i])])
<1>1. /\ all \in Seq(Scored(Scores, Scopes(s)))
      /\ \A i, j \in 1..Len(all) : all[i] \in Range(Starters) /\ all[j] \notin Range(Starters) =>
            all[j].score > all[i].score \/ (all[j].score = all[i].score /\ j < i)
  BY SignalsAhead
<1>2. r = RankedByScore(all)
  BY SuggestionsRanked
<1> HIDE DEF all
<1> DEFINE l == Len(all)
           score == [i \in 1..l |-> all[i].score]
           rank(i) == Rank(score, l, i)
           at(k) == CHOOSE i \in 1..l : rank(i) = k - 1
<1>3. l \in Nat /\ DOMAIN all = 1..l /\ \A i \in 1..l : all[i].score \in Int
  <2>1. \A x \in Scored(Scores, Scopes(s)) : x.score \in Int
    <3> SUFFICES ASSUME NEW x \in Scored(Scores, Scopes(s)) PROVE x.score \in Int
      OBVIOUS
    <3>1. PICK section \in Sections, template \in Templates, y \in Scores, scope \in Scopes(s) :
               x = Suggestion(section, template, y, scope)
      BY DEF Scored
    <3> QED  BY <3>1 DEF Suggestion, Scores
  <2> QED  BY <1>1, <2>1
<1>4. /\ \A i \in 1..l : rank(i) \in Nat
      /\ \A i, j \in 1..l : j \in Ahead(score, l, i) => rank(j) < rank(i)
      /\ \A k \in 0..(l - 1) : \E i \in 1..l : rank(i) = k
  <2>1. l \in Nat /\ \A i \in 1..l : score[i] \in Int
    BY <1>3
  <2> HIDE DEF score, l
  <2> QED  BY <2>1, RanksTaken
<1>5. r = [k \in 1..l |-> all[at(k)]]
  <2>1. r = [k \in DOMAIN all |-> all[CHOOSE i \in DOMAIN all :
               Cardinality({j \in DOMAIN all : all[j].score > all[i].score
                              \/ (all[j].score = all[i].score /\ j < i)}) = k - 1]]
    BY <1>2 DEF RankedByScore, Ordered
  <2>2. \A i \in 1..l : rank(i) = Cardinality({j \in 1..l : all[j].score > all[i].score
                              \/ (all[j].score = all[i].score /\ j < i)})
    <3> SUFFICES ASSUME NEW i \in 1..l
                 PROVE  rank(i) = Cardinality({j \in 1..l : all[j].score > all[i].score
                              \/ (all[j].score = all[i].score /\ j < i)})
      OBVIOUS
    <3>1. Rank(score, l, i) = Cardinality(Ahead(score, l, i))
      BY DEF Rank
    <3>2. Ahead(score, l, i) = {j \in 1..l : all[j].score > all[i].score
                              \/ (all[j].score = all[i].score /\ j < i)}
      BY DEF Ahead
    <3> QED  BY <3>1, <3>2
  <2> DEFINE ahead(i) == {j \in 1..l : all[j].score > all[i].score
                              \/ (all[j].score = all[i].score /\ j < i)}
  <2>3. \A k : (CHOOSE i \in 1..l : Cardinality(ahead(i)) = k - 1) = at(k)
    <3>1. \A i \in 1..l : rank(i) = Cardinality(ahead(i))
      BY <2>2
    <3> HIDE DEF rank, ahead
    <3> QED  BY <3>1
  <2>4. r = [k \in 1..l |-> all[CHOOSE i \in 1..l : Cardinality(ahead(i)) = k - 1]]
    <3> HIDE DEF l
    <3> QED  BY <1>3, <2>1
  <2> HIDE DEF at, ahead
  <2> QED  BY <2>3, <2>4
<1> HIDE DEF l, score, rank
<1>6. ASSUME NEW k \in 1..l PROVE at(k) \in 1..l /\ rank(at(k)) = k - 1
  <2>1. k - 1 \in 0..(l - 1)
    BY <1>3
  <2>2. \E i \in 1..l : rank(i) = k - 1
    BY <1>4, <2>1
  <2> QED  BY <2>2
<1>7. m \in 1..l /\ n \in 1..l /\ r[m] = all[at(m)] /\ r[n] = all[at(n)]
  BY <1>5
<1>8. at(m) \in 1..l /\ at(n) \in 1..l /\ rank(at(m)) = m - 1 /\ rank(at(n)) = n - 1
  BY <1>6, <1>7
<1> HIDE DEF at
<1> SUFFICES ASSUME r[n] \notin Range(Starters) PROVE FALSE
  OBVIOUS
<1>9. \/ all[at(n)].score > all[at(m)].score
      \/ all[at(n)].score = all[at(m)].score /\ at(n) < at(m)
  BY <1>1, <1>7, <1>8 DEF l
<1>10. at(n) \in Ahead(score, l, at(m))
  BY <1>8, <1>9 DEF Ahead, score
<1>11. n - 1 < m - 1
  BY <1>4, <1>8, <1>10
<1> QED  BY <1>3, <1>7, <1>11

\* No suggestion that always applies is ranked above one that the catalogue triggered
\* (recommend.py:108-110).
THEOREM AlwaysSignalsFirst == BoardSpec => []SignalsFirst
<1>1. BoardIInv => SignalsFirst
  <2> SUFFICES ASSUME BoardIInv PROVE SignalsFirst
    OBVIOUS
  <2>1. IsSnapshot(snapshot)
    BY PanelAssumption DEF BoardIInv
  <2> DEFINE r == Suggestions(snapshot, "none", "none")
  <2>2. \A m, n \in DOMAIN r : m < n /\ r[m] \in Range(Starters) => r[n] \in Range(Starters)
    BY <2>1, SnapshotSignals
  <2> HIDE DEF r
  <2> QED  BY <2>2 DEF SignalsFirst, r
<1> QED  BY <1>1, BoardInductive, PTL
=============================================================================
