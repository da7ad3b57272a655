------------------------- MODULE SettingsStoreProofs -------------------------
(***************************************************************************)
(* Proofs about SettingsStore: for any workers, fields, requests, presets  *)
(* and crashes, what was saved and answered for survives a restart, where  *)
(* the file saved is the file loaded, but for what a write that was cut    *)
(* short or that overlapped another may have lost.                         *)
(***************************************************************************)
EXTENDS SettingsStore, TLAPS

\* A file, or the lines of one, that a worker can start from.
Startable == {c \in Store : \A f \in IntFields : c[f] \in Numbers \cup {Unset}}

\* What a save may have to write.
Change(g) ==
    /\ g = [f \in DOMAIN g |-> g[f]] /\ DOMAIN g \subseteq Fields
    /\ \A f \in DOMAIN g : g[f] \in Values /\ (f \in IntFields => g[f] \in Numbers)

Shape ==
    /\ deploy \in Deployments
    /\ file \in Startable
    /\ environ \in [Workers -> Store]
    /\ live \in [Workers -> [Fields -> Values]]
    /\ \A w \in Workers, f \in IntFields : live[w][f] \in Numbers
    /\ pc \in [Workers -> {"down", "up", "write", "truncate", "fill"}]
    /\ changed = [w \in Workers |-> changed[w]]
    /\ \A w \in Workers : Change(changed[w])
    /\ lines \in [Workers -> Startable]
    /\ acked \in [Fields -> Values]
    /\ alone \in BOOLEAN /\ lost \subseteq Fields

\* A worker that starts from c has what was answered for, where it can, but for what
\* was lost.
Restores(c) ==
    \A f \in Fields \ lost : Restorable(f) =>
        (IF c[f] = Unset THEN Defaults[f] ELSE Parsed[c[f]]) = acked[f]

\* The file holds what was answered for unless it is emptied, and so do the lines of
\* every writer; one that does not write alone may lose its fields.
Copies ==
    /\ SameFile /\ (\A w \in Workers : pc[w] # "fill") => Restores(file)
    /\ \A w \in Workers : SameFile /\ Writing(w) => Restores(lines[w])

Writers ==
    \A w \in Workers : Writing(w) =>
        IF alone THEN \A v \in Workers : Writing(v) => v = w
        ELSE DOMAIN changed[w] \subseteq lost

OneCopy == Copies /\ Writers

------------------------------------------------------------------------------
(* Operators. *)

\* What is written over a startable file leaves it startable.
LEMMA OverStartable ==
  ASSUME NEW c \in Startable, NEW g, Change(g)
  PROVE  Over(c, g) \in Startable
BY StoreAssumption DEF Over, Startable, Store, Change

\* What the environment presets wins over the file.
LEMMA LoadedField ==
  ASSUME NEW f \in Fields
  PROVE  Loaded[f] = IF Preset[f] # Unset THEN Preset[f]
                     ELSE IF AsgiFile[f] # Unset THEN Parsed[AsgiFile[f]] ELSE Unset
<1>1. CASE Preset[f] # Unset
  BY <1>1 DEF Loaded
<1>2. CASE Preset[f] = Unset /\ AsgiFile[f] # Unset
  BY <1>2 DEF Loaded
<1>3. CASE Preset[f] = Unset /\ AsgiFile[f] = Unset
  BY <1>3 DEF Loaded
<1> QED  BY <1>1, <1>2, <1>3

\* A worker that starts has every field, and its numbers are numbers.
LEMMA ImportedType ==
  ASSUME file \in Startable
  PROVE  /\ Loaded \in Store
         /\ Imported(Loaded) \in [Fields -> Values]
         /\ \A f \in IntFields : Imported(Loaded)[f] \in Numbers
<1>1. \A f \in Fields :
        /\ Loaded[f] = IF Preset[f] # Unset THEN Preset[f]
                       ELSE IF AsgiFile[f] # Unset THEN Parsed[AsgiFile[f]] ELSE Unset
        /\ Imported(Loaded)[f] = IF Loaded[f] = Unset THEN Defaults[f] ELSE Loaded[f]
  BY LoadedField DEF Imported
<1>2. Loaded = [f \in Fields |-> Loaded[f]] /\ Imported(Loaded) = [f \in Fields |-> Imported(Loaded)[f]]
  BY DEF Loaded, Imported
<1>3. /\ Preset \in Store /\ Defaults \in [Fields -> Values] /\ Parsed \in [Values -> Values]
      /\ IntFields \subseteq Fields /\ Numbers \subseteq Values /\ Unset \notin Values
      /\ \A f \in IntFields : {Defaults[f], Preset[f]} \subseteq Numbers \cup {Unset}
      /\ \A v \in Numbers : Parsed[v] \in Numbers
  BY StoreAssumption
<1>4. AsgiFile \in Store /\ \A f \in IntFields : AsgiFile[f] \in Numbers \cup {Unset}
  BY StoreAssumption DEF Startable, AsgiFile
<1>5. \A f \in Fields : /\ Loaded[f] \in Values \cup {Unset}
                        /\ Imported(Loaded)[f] \in Values
                        /\ f \in IntFields => Imported(Loaded)[f] \in Numbers
  BY <1>1, <1>3, <1>4 DEF Store
<1> QED  BY <1>2, <1>3, <1>5 DEF Store

------------------------------------------------------------------------------
(* The steps. *)

\* Nothing is saved and no worker is up.
LEMMA InitShape == Init => Shape
<1> SUFFICES ASSUME Init PROVE Shape
  OBVIOUS
<1>2. Empty \in Startable
  BY StoreAssumption DEF Empty, Startable, Store
<1>1. file \in Startable
  BY <1>2, StoreAssumption DEF Init, Startable
<1>3. Change(Nothing)
  BY DEF Change, Nothing
<1>4. \A f \in IntFields : Defaults[f] \in Numbers
  BY StoreAssumption
<1>5. Defaults \in [Fields -> Values] /\ acked \in [Fields -> Values]
  BY <1>1, ImportedType, StoreAssumption DEF Init
<1> QED  BY <1>1, <1>2, <1>3, <1>4, <1>5 DEF Init, Shape, Startable

\* A save's loop over its fields, whether it ends or raises.
LEMMA ApplyFieldsShape ==
  ASSUME Shape, NEW w \in Workers, NEW p \in Payloads, NEW done,
         done \subseteq DOMAIN p \ Refused(p), ApplyFields(w, p, done),
         UNCHANGED <<deploy, file, lines, acked, alone, lost>>,
         pc' \in [Workers -> {"down", "up", "write", "truncate", "fill"}]
  PROVE  Shape'
<1> DEFINE g == [f \in done |-> p[f]]
<1>1. Change(g)
  BY StoreAssumption DEF Change, Refused
<1> HIDE DEF g
<1>2. /\ live' = [live EXCEPT ![w] = Over(@, g)] /\ environ' = [environ EXCEPT ![w] = Over(@, g)]
      /\ changed' = [changed EXCEPT ![w] = g]
  BY DEF ApplyFields, g
<1>3. /\ Over(live[w], g) \in [Fields -> Values]
      /\ \A f \in IntFields : Over(live[w], g)[f] \in Numbers
      /\ Over(environ[w], g) \in Store
  BY <1>1, StoreAssumption DEF Shape, Over, Change, Store
<1>4. live' \in [Workers -> [Fields -> Values]] /\ environ' \in [Workers -> Store]
      /\ \A v \in Workers, f \in IntFields : live'[v][f] \in Numbers
  BY <1>2, <1>3 DEF Shape
<1>5. changed' = [v \in Workers |-> changed'[v]] /\ \A v \in Workers : Change(changed'[v])
  BY <1>1, <1>2 DEF Shape
<1> QED  BY <1>4, <1>5 DEF Shape

\* Every step keeps the types.
LEMMA NextShape == Shape /\ [Next]_vars => Shape'
<1> SUFFICES ASSUME Shape, [Next]_vars PROVE Shape'
  OBVIOUS
<1>1. CASE UNCHANGED vars
  BY <1>1 DEF vars, workerVars, saveVars, Shape
<1>2. ASSUME NEW w \in Workers, Start(w) PROVE Shape'
  BY <1>2, ImportedType DEF Start, Goto, Shape
<1>3. ASSUME NEW w \in Workers, NEW p \in Payloads, Apply(w, p) PROVE Shape'
  BY <1>3, ApplyFieldsShape DEF Apply, Goto, Shape
<1>4. ASSUME NEW w \in Workers, NEW p \in Payloads, NEW done \in SUBSET Fields,
             ApplyRaises(w, p, done)
      PROVE  Shape'
  BY <1>4, ApplyFieldsShape DEF ApplyRaises, Shape
<1>5. ASSUME NEW w \in Workers, ReadFile(w) PROVE Shape'
  <2>1. ChangedBy(Others(w) \cup {w}) \subseteq Fields
    BY DEF ChangedBy, Others, Shape, Change
  <2>2. alone' \in BOOLEAN /\ lost' \subseteq Fields
    BY <1>5, <2>1 DEF ReadFile, Shape
  <2> QED  BY <1>5, <2>2 DEF ReadFile, Goto, Shape, workerVars
<1>6. ASSUME NEW w \in Workers, Truncate(w) PROVE Shape'
  <2>1. Empty \in Startable
    BY StoreAssumption DEF Empty, Startable, Store
  <2> QED  BY <1>6, <2>1 DEF Truncate, Goto, Shape, workerVars
<1>7. ASSUME NEW w \in Workers, Fill(w) PROVE Shape'
  <2>1. Upsert(w) \in Startable
    BY OverStartable DEF Upsert, Shape
  <2>2. Over(acked, changed[w]) \in [Fields -> Values]
    BY DEF Over, Shape, Change
  <2> QED  BY <1>7, <2>1, <2>2 DEF Fill, Goto, Shape, workerVars
<1>8. ASSUME NEW w \in Workers, Crash(w) PROVE Shape'
  BY <1>8 DEF Crash, CutShort, Goto, Shape, workerVars
<1>9. ASSUME NEW w \in Workers, WriteFails(w) PROVE Shape'
  BY <1>9 DEF WriteFails, CutShort, Goto, Shape, workerVars
<1> QED  BY <1>1, <1>2, <1>3, <1>4, <1>5, <1>6, <1>7, <1>8, <1>9 DEF Next

\* The file a worker loads, where it is the one that is saved.
LEMMA SameLoaded ==
  ASSUME SameFile, file \in Startable, NEW f \in Fields, Preset[f] = Unset
  PROVE  Imported(Loaded)[f] = IF file[f] = Unset THEN Defaults[f] ELSE Parsed[file[f]]
<1>1. Loaded[f] = IF file[f] = Unset THEN Unset ELSE Parsed[file[f]]
  BY LoadedField DEF AsgiFile
<1>2. file[f] # Unset => Parsed[file[f]] # Unset
  BY StoreAssumption DEF Startable, Store
<1> QED  BY <1>1, <1>2 DEF Imported

\* At first the file is what the first worker starts from.
LEMMA InitOneCopy == Init => OneCopy
<1> SUFFICES ASSUME Init PROVE OneCopy
  OBVIOUS
<1>1. SameFile => Restores(file)
  BY InitShape, SameLoaded DEF Restores, Restorable, Init, Shape
<1>2. \A w \in Workers : ~Writing(w)
  BY DEF Init, Writing
<1> QED  BY <1>1, <1>2 DEF OneCopy, Copies, Writers

\* A save that is answered for is in the file it leaves, with all that was before.
LEMMA FillRestores ==
  ASSUME Shape, NEW w \in Workers, Fill(w), Restores(lines[w])
  PROVE  Restores(file)'
<1> DEFINE g == changed[w]
<1>1. file' = Over(lines[w], g) /\ acked' = Over(acked, g) /\ lost \subseteq lost' \cup DOMAIN g
  BY DEF Fill, Upsert
<1>2. Change(g) /\ Unset \notin Values
  BY StoreAssumption DEF Shape
<1> HIDE DEF g
<1> SUFFICES ASSUME NEW f \in Fields \ lost', Preset[f] = Unset, Parsed[acked'[f]] = acked'[f]
             PROVE  (IF file'[f] = Unset THEN Defaults[f] ELSE Parsed[file'[f]]) = acked'[f]
  BY DEF Restores, Restorable
<1>3. CASE f \in DOMAIN g
  <2>1. file'[f] = g[f] /\ acked'[f] = g[f] /\ g[f] # Unset
    BY <1>1, <1>2, <1>3 DEF Over, Change
  <2> QED  BY <2>1
<1>4. CASE f \notin DOMAIN g
  <2>1. file'[f] = lines[w][f] /\ acked'[f] = acked[f] /\ f \notin lost
    BY <1>1, <1>4 DEF Over
  <2> QED  BY <2>1 DEF Restores, Restorable
<1> QED  BY <1>3, <1>4

\* What was restored still is when more is lost and nothing is answered for.
LEMMA StillRestores ==
  ASSUME NEW c, Restores(c), acked' = acked, lost \subseteq lost'
  PROVE  \A f \in Fields \ lost' : Restorable(f)' =>
             (IF c[f] = Unset THEN Defaults[f] ELSE Parsed[c[f]]) = acked'[f]
BY DEF Restores, Restorable

\* Every step leaves the copies of what was answered for, or counts what is lost.
LEMMA NextOneCopy == Shape /\ OneCopy /\ [Next]_vars => OneCopy'
<1> SUFFICES ASSUME Shape, OneCopy, [Next]_vars PROVE OneCopy'
  OBVIOUS
<1>0. SameFile' = SameFile
  BY DEF Next, vars, SameFile, Start, Apply, ApplyRaises, ReadFile, Truncate, Fill,
         WriteFails, Crash
\* Steps that leave the files and what was answered for alone: the writers can
\* only be fewer.
<1>1. ASSUME UNCHANGED <<file, lines, acked, alone>>, lost \subseteq lost',
             \A v \in Workers : pc'[v] = "fill" => pc[v] = "fill",
             (\E v \in Workers : pc[v] = "fill" /\ pc'[v] # "fill") => lost' = Fields,
             \A v \in Workers : Writing(v)' => Writing(v) /\ changed'[v] = changed[v]
      PROVE  OneCopy'
  <2>1. Writers'
    BY <1>1 DEF OneCopy, Writers
  <2>2. ASSUME NEW v \in Workers, SameFile, Writing(v)' PROVE Restores(lines[v])'
    BY <1>1, <2>2, StillRestores DEF OneCopy, Copies, Restores
  <2>3. ASSUME SameFile, \A v \in Workers : pc'[v] # "fill" PROVE Restores(file)'
    <3>1. CASE \A v \in Workers : pc[v] # "fill"
      BY <1>1, <2>3, <3>1, StillRestores DEF OneCopy, Copies, Restores
    <3>2. CASE \E v \in Workers : pc[v] = "fill"
      BY <1>1, <2>3, <3>2 DEF Restores
    <3> QED  BY <3>1, <3>2
  <2> QED  BY <1>0, <2>1, <2>2, <2>3 DEF OneCopy, Copies
<1>2. CASE UNCHANGED vars
  BY <1>1, <1>2 DEF vars, saveVars, Writing
<1>3. ASSUME NEW w \in Workers, Start(w) PROVE OneCopy'
  BY <1>1, <1>3 DEF Start, Goto, Writing, Shape
<1>4. ASSUME NEW w \in Workers, NEW p \in Payloads, Apply(w, p) PROVE OneCopy'
  <2>1. /\ UNCHANGED <<file, lines, acked, alone, lost>>
        /\ \A v \in Workers \ {w} : pc'[v] = pc[v] /\ changed'[v] = changed[v]
        /\ pc[w] = "up" /\ pc'[w] \in {"up", "write"}
    BY <1>4 DEF Apply, ApplyFields, Goto, Shape
  <2> QED  BY <1>1, <2>1 DEF Writing
<1>5. ASSUME NEW w \in Workers, NEW p \in Payloads, NEW done \in SUBSET Fields,
             ApplyRaises(w, p, done)
      PROVE  OneCopy'
  <2>1. /\ UNCHANGED <<file, lines, acked, alone, lost, pc>>
        /\ \A v \in Workers \ {w} : changed'[v] = changed[v]
        /\ pc[w] = "up"
    BY <1>5 DEF ApplyRaises, ApplyFields, Shape
  <2> QED  BY <1>1, <2>1 DEF Writing
<1>6. ASSUME NEW w \in Workers, ReadFile(w) PROVE OneCopy'
  <2>1. /\ pc[w] = "write" /\ ~Writing(w) /\ pc'[w] = "truncate"
        /\ lines'[w] = file /\ file' = file /\ acked' = acked /\ changed' = changed
        /\ \A v \in Workers \ {w} : pc'[v] = pc[v] /\ lines'[v] = lines[v]
    BY <1>6 DEF ReadFile, Goto, Shape, Writing
  <2>2. lost \subseteq lost'
    BY <1>6 DEF ReadFile, Shape
  <2>3. Writers'
    <3>1. CASE Others(w) = {}
      BY <1>6, <2>1, <3>1 DEF ReadFile, Writers, Writing, Others
    <3>2. CASE Others(w) # {}
      <4>1. ~alone'
        BY <1>6, <3>2 DEF ReadFile
      <4>2. ASSUME NEW v \in Workers, Writing(v)' PROVE DOMAIN changed[v] \subseteq lost'
        <5>1. v \in Others(w) \cup {w}
          BY <2>1, <4>2 DEF Others, Writing
        <5>2. DOMAIN changed[v] \subseteq ChangedBy(Others(w) \cup {w})
          BY <5>1 DEF ChangedBy
        <5>3. DOMAIN changed[v] \subseteq Fields
          BY DEF Shape, Change
        <5> QED  BY <1>6, <3>2, <5>2, <5>3 DEF ReadFile
      <4> QED  BY <2>1, <4>1, <4>2 DEF Writers
    <3> QED  BY <3>1, <3>2
  <2>4. ASSUME SameFile, \A v \in Workers : pc'[v] # "fill" PROVE Restores(file)'
    <3>1. \A v \in Workers : pc[v] # "fill"
      BY <2>1, <2>4
    <3> QED  BY <2>1, <2>2, <2>4, <3>1, StillRestores DEF OneCopy, Copies, Restores
  <2>5. ASSUME SameFile, NEW v \in Workers, Writing(v)' PROVE Restores(lines[v])'
    <3>1. CASE v # w
      <4>1. Restores(lines[v]) /\ lines'[v] = lines[v]
        BY <2>1, <2>5, <3>1 DEF OneCopy, Copies, Writing
      <4> QED  BY <2>1, <2>2, <4>1, StillRestores DEF Restores
    <3>2. CASE v = w /\ \A u \in Workers : pc[u] # "fill"
      BY <2>1, <2>2, <2>5, <3>2, StillRestores DEF OneCopy, Copies, Restores
    <3>3. CASE v = w /\ \E u \in Workers : pc[u] = "fill"
      <4>1. \E u \in Others(w) : pc[u] = "fill"
        BY <2>1, <3>3 DEF Others, Writing
      <4>2. lost' = Fields
        BY <1>6, <4>1 DEF ReadFile
      <4> QED  BY <4>2 DEF Restores
    <3> QED  BY <3>1, <3>2, <3>3
  <2> QED  BY <1>0, <2>3, <2>4, <2>5 DEF OneCopy, Copies
<1>7. ASSUME NEW w \in Workers, Truncate(w) PROVE OneCopy'
  <2>1. /\ Writing(w) /\ pc'[w] = "fill" /\ \A v \in Workers \ {w} : pc'[v] = pc[v]
        /\ UNCHANGED <<lines, acked, changed, alone, lost>>
    BY <1>7 DEF Truncate, Goto, Shape, Writing
  <2>2. \A v \in Workers : Writing(v)' = Writing(v)
    BY <2>1 DEF Writing
  <2>3. Writers'
    BY <2>1, <2>2 DEF OneCopy, Writers
  <2>4. ASSUME SameFile, NEW v \in Workers, Writing(v)' PROVE Restores(lines[v])'
    BY <2>1, <2>2, <2>4, StillRestores DEF OneCopy, Copies, Restores
  <2> QED  BY <1>0, <2>1, <2>3, <2>4 DEF OneCopy, Copies
<1>8. ASSUME NEW w \in Workers, Fill(w) PROVE OneCopy'
  <2>1. /\ Writing(w) /\ pc'[w] = "up" /\ \A v \in Workers \ {w} : pc'[v] = pc[v]
        /\ UNCHANGED <<lines, changed, alone>> /\ acked' = Over(acked, changed[w])
        /\ lost' = IF alone THEN lost \ DOMAIN changed[w] ELSE lost
    BY <1>8 DEF Fill, Goto, Shape, Writing
  <2>2. \A v \in Workers : Writing(v)' => Writing(v) /\ v # w
    BY <2>1 DEF Writing
  <2>3. SameFile => Restores(file)'
    BY <1>8, <2>1, FillRestores DEF OneCopy, Copies
  <2>4. Writers'
    BY <2>1, <2>2 DEF OneCopy, Writers
  <2>5. ASSUME SameFile, NEW v \in Workers, Writing(v)' PROVE Restores(lines[v])'
    <3>1. ~alone /\ DOMAIN changed[w] \subseteq lost /\ lost' = lost
      BY <2>1, <2>2, <2>5 DEF OneCopy, Writers
    <3>2. Restores(lines[v]) /\ lines'[v] = lines[v]
      BY <2>1, <2>2, <2>5 DEF OneCopy, Copies
    <3>3. \A f \in Fields \ lost : acked'[f] = acked[f]
      BY <2>1, <3>1 DEF Over
    <3> QED  BY <3>1, <3>2, <3>3 DEF Restores, Restorable
  <2> QED  BY <1>0, <2>3, <2>4, <2>5 DEF OneCopy, Copies
<1>9. ASSUME NEW w \in Workers, Crash(w) \/ WriteFails(w) PROVE OneCopy'
  <2>1. /\ UNCHANGED <<file, lines, acked, alone, changed>>
        /\ \A v \in Workers \ {w} : pc'[v] = pc[v]
        /\ pc'[w] \in {"up", "down"}
        /\ lost' = IF pc[w] = "fill" THEN Fields ELSE lost
    BY <1>9 DEF Crash, WriteFails, CutShort, Goto, Shape
  <2>2. lost \subseteq lost'
    BY <2>1 DEF Shape
  <2> QED  BY <1>1, <2>1, <2>2 DEF Writing
<1> QED  BY <1>2, <1>3, <1>4, <1>5, <1>6, <1>7, <1>8, <1>9 DEF Next

------------------------------------------------------------------------------
(* The theorems. *)

\* So they always hold.
LEMMA AlwaysShape == Spec => []Shape
BY InitShape, NextShape, PTL DEF Spec

\* The settings of every worker keep their types: whatever was saved, refused or
\* lost half way, a worker that starts can cast what it reads.
THEOREM SettingsTypeCorrect == Spec => []TypeOK
<1>1. Shape => TypeOK
  BY DEF Shape, TypeOK, Startable, Change
<1> QED  BY <1>1, AlwaysShape, PTL

\* For any number of workers, saves and crashes: with no write under way, and where the
\* file saved is the file loaded, a restart gives back what was last saved and answered
\* for, but for what writes cut short or overlapped lost.
THEOREM AlwaysSurvivesRestart == Spec => []SurvivesRestart
<1>1. Spec => []OneCopy
  BY InitOneCopy, NextOneCopy, AlwaysShape, PTL DEF Spec
<1>2. Shape /\ OneCopy => SurvivesRestart
  <2> SUFFICES ASSUME Shape, OneCopy, SameFile, Idle, NEW f \in Fields \ lost, Restorable(f)
               PROVE  Imported(Loaded)[f] = acked[f]
    BY DEF SurvivesRestart
  <2>1. Restores(file)
    BY DEF OneCopy, Copies, Idle
  <2> QED  BY <2>1, SameLoaded DEF Restores, Restorable, Shape
<1> QED  BY <1>1, <1>2, AlwaysShape, PTL
=============================================================================
