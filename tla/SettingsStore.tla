---------------------------- MODULE SettingsStore ----------------------------
(***************************************************************************)
(* The settings of a deployment (app/config.py, asgi.py): each worker      *)
(* process holds them as live objects and in its environment, and all of   *)
(* them write through to one .env file, paths.env_file().  A worker that   *)
(* starts loads the .env asgi.py names, which may be another.              *)
(*                                                                         *)
(* A save is the handler's loop over the request's fields and _write_env:  *)
(* read the file, truncate it, write it.  What a save resets in the client *)
(* is PdcClient's.  A field stands for its variable; lines of the file     *)
(* that are no setting are left out.                                       *)
(***************************************************************************)
EXTENDS Naturals, FiniteSets

CONSTANTS
    Workers,    \* the uvicorn workers
    Fields,     \* saveable fields
    IntFields,  \* those that _coerce casts with int(): cache_ttl
    Values,     \* what a field may be set to
    Numbers,    \* those of Values that int() accepts
    Unset,
    Defaults,   \* what a field is when its variable is unset
    Parsed,     \* external: the value python-dotenv reads from a value's line
    Preset,     \* the environment every worker is started with (env_file: .env)
    FirstFile,  \* the .env asgi.py loads, before the first start
    Deployments,  \* how it is installed
    Payloads,   \* what requests may save: functions from fields to values
    MaxSaves, MaxCrashes  \* bounds

Store == [Fields -> Values \cup {Unset}]

ASSUME StoreAssumption ==
    /\ IsFiniteSet(Workers)
    /\ IntFields \subseteq Fields
    /\ Numbers \subseteq Values
    /\ Unset \notin Values
    /\ Defaults \in [Fields -> Values]
    /\ Parsed \in [Values -> Values]
    /\ Preset \in Store /\ FirstFile \in Store
    /\ \A p \in Payloads : DOMAIN p \subseteq Fields /\ \A f \in DOMAIN p : p[f] \in Values
    \* int() at import: with another value a worker does not start.
    /\ \A f \in IntFields : {Defaults[f], Preset[f], FirstFile[f]} \subseteq Numbers \cup {Unset}
    /\ \A v \in Numbers : Parsed[v] \in Numbers
    \* INSIGHTS_STATE_DIR: in the environment, in the .env beside asgi.py, naming another
    \* directory, or unset; and whether the install directory can be written.
    /\ Deployments \subseteq [stateDir: {"environment", "file", "unset"}, writable: BOOLEAN]

VARIABLES
    deploy,    \* the deployment
    file,      \* paths.env_file()
    environ,   \* os.environ of a worker
    live,      \* settings.pdc, settings.llm and settings.brand of a worker
    pc,        \* "down", "up", "write" (is to read .env), "truncate", "fill"
    changed,   \* what the save writes: a function of some fields
    lines,     \* the file's content as the save read it
    acked,     \* history: the last value of a field that a save answered for
    alone,     \* history: no save was writing when the last one read
    lost,      \* history: fields that a write cut short, or two that overlapped, may
               \* have lost, and no save of its own wrote again
    saves, crashes

workerVars == <<environ, live>>
saveVars == <<pc, changed, lines>>
vars == <<deploy, file, workerVars, saveVars, acked, alone, lost, saves, crashes>>

Nothing == [f \in {} |-> Unset]
Empty == [f \in Fields |-> Unset]
Writing(w) == pc[w] \in {"truncate", "fill"}

\* f with g's values where g has them.
Over(f, g) == [x \in Fields |-> IF x \in DOMAIN g THEN g[x] ELSE f[x]]

\* asgi.py loads the .env of INSIGHTS_STATE_DIR, or else the one beside it; env_file()
\* falls back on the user's directory if that one cannot be written.
SameFile ==
    \/ deploy.stateDir = "environment"
    \/ deploy.stateDir = "unset" /\ deploy.writable

AsgiFile == IF SameFile THEN file ELSE FirstFile

\* load_dotenv(override=False): a variable that is set already keeps its value.
Loaded ==
    [f \in Fields |->
       CASE Preset[f] # Unset -> Preset[f]
         [] Preset[f] = Unset /\ AsgiFile[f] # Unset -> Parsed[AsgiFile[f]]
         [] OTHER -> Unset]

\* The dataclasses read the environment once, at import.
Imported(env) == [f \in Fields |-> IF env[f] = Unset THEN Defaults[f] ELSE env[f]]

Init ==
    /\ deploy \in Deployments
    /\ file = IF SameFile THEN FirstFile ELSE Empty
    /\ environ = [w \in Workers |-> Empty]
    /\ live = [w \in Workers |-> Defaults]
    /\ pc = [w \in Workers |-> "down"]
    /\ changed = [w \in Workers |-> Nothing]
    /\ lines = [w \in Workers |-> Empty]
    /\ acked = Imported(Loaded)
    /\ alone = TRUE /\ lost = {}
    /\ saves = 0 /\ crashes = 0

Goto(w, point) == pc' = [pc EXCEPT ![w] = point]

\* A worker starts: asgi.py loads .env, then imports the app.
Start(w) ==
    /\ pc[w] = "down"
    /\ Goto(w, "up")
    /\ environ' = [environ EXCEPT ![w] = Loaded]
    /\ live' = [live EXCEPT ![w] = Imported(Loaded)]
    /\ UNCHANGED <<deploy, file, changed, lines, acked, alone, lost, saves, crashes>>

\* Mutant: a field that int() refuses is skipped, and the rest is saved.
RefusedNever(p) == {}

Refused(p) == {f \in DOMAIN p \cap IntFields : p[f] \notin Numbers}

\* apply_settings, one field after the other: the live objects, the environment
\* and the changes to write.  done is what it wrote before it ended or raised.
ApplyFields(w, p, done) ==
    LET written == [f \in done |-> p[f]] IN
      /\ live' = [live EXCEPT ![w] = Over(@, written)]
      /\ environ' = [environ EXCEPT ![w] = Over(@, written)]
      /\ changed' = [changed EXCEPT ![w] = written]
      /\ saves' = saves + 1

Apply(w, p) ==
    /\ pc[w] = "up"
    /\ saves < MaxSaves
    /\ Refused(p) = {}
    /\ ApplyFields(w, p, DOMAIN p)
    /\ Goto(w, IF DOMAIN p = {} THEN "up" ELSE "write")
    /\ UNCHANGED <<deploy, file, lines, acked, alone, lost, crashes>>

\* int() raises: the fields before stay applied, nothing is persisted or reset,
\* and the request fails.
ApplyRaises(w, p, done) ==
    /\ pc[w] = "up"
    /\ saves < MaxSaves
    /\ Refused(p) # {}
    /\ done \subseteq DOMAIN p \ Refused(p)
    /\ ApplyFields(w, p, done)
    /\ UNCHANGED <<deploy, file, pc, lines, acked, alone, lost, crashes>>

Others(w) == {v \in Workers \ {w} : Writing(v)}
ChangedBy(S) == UNION {DOMAIN changed[v] : v \in S}

\* _write_env: read the lines.  Whoever reads beside a writer may undo his fields and
\* lose its own to him, and all of them if he has emptied the file ...
ReadFile(w) ==
    /\ pc[w] = "write"
    /\ Goto(w, "truncate")
    /\ lines' = [lines EXCEPT ![w] = file]
    /\ alone' = (Others(w) = {})
    /\ lost' = CASE Others(w) = {} -> lost
                 [] \E v \in Others(w) : pc[v] = "fill" -> Fields
                 [] OTHER -> lost \cup ChangedBy(Others(w) \cup {w})
    /\ UNCHANGED <<deploy, file, workerVars, changed, acked, saves, crashes>>

\* ... open the file for writing, which empties it ...
Truncate(w) ==
    /\ pc[w] = "truncate"
    /\ Goto(w, "fill")
    /\ file' = Empty
    /\ UNCHANGED <<deploy, workerVars, changed, lines, acked, alone, lost, saves, crashes>>

\* Mutant: only the changed lines are written back.
UpsertOnly(w) == Over(Empty, changed[w])

Upsert(w) == Over(lines[w], changed[w])

\* ... and write the lines, with the changed ones replaced or added.  The client
\* is reset and the request answered.
Fill(w) ==
    /\ pc[w] = "fill"
    /\ Goto(w, "up")
    /\ file' = Upsert(w)
    /\ acked' = Over(acked, changed[w])
    /\ lost' = IF alone THEN lost \ DOMAIN changed[w] ELSE lost
    /\ UNCHANGED <<deploy, workerVars, changed, lines, alone, saves, crashes>>

\* A write that stops once the file was emptied leaves none of it.
CutShort(w) == lost' = IF pc[w] = "fill" THEN Fields ELSE lost

\* The file cannot be read, opened or written: the request fails, and the fields stay
\* applied.
WriteFails(w) ==
    /\ pc[w] \in {"write", "truncate", "fill"}
    /\ Goto(w, "up")
    /\ CutShort(w)
    /\ UNCHANGED <<deploy, file, workerVars, changed, lines, acked, alone, saves, crashes>>

\* A worker dies at any point; the supervisor starts it again.
Crash(w) ==
    /\ pc[w] # "down"
    /\ crashes < MaxCrashes
    /\ Goto(w, "down")
    /\ crashes' = crashes + 1
    /\ CutShort(w)
    /\ UNCHANGED <<deploy, file, workerVars, changed, lines, acked, alone, saves>>

Next ==
    \E w \in Workers :
      \/ Start(w)
      \/ \E p \in Payloads : Apply(w, p)
      \/ \E p \in Payloads, done \in SUBSET Fields : ApplyRaises(w, p, done)
      \/ ReadFile(w) \/ Truncate(w) \/ Fill(w) \/ WriteFails(w) \/ Crash(w)

Spec == Init /\ [][Next]_vars

-----------------------------------------------------------------------------
TypeOK ==
    /\ deploy \in Deployments
    /\ file \in Store
    /\ environ \in [Workers -> Store]
    /\ live \in [Workers -> [Fields -> Values]]
    /\ pc \in [Workers -> {"down", "up", "write", "truncate", "fill"}]
    /\ \A w \in Workers : DOMAIN changed[w] \subseteq Fields
    /\ \A w \in Workers, f \in IntFields : live[w][f] \in Numbers
    /\ lines \in [Workers -> Store]
    /\ acked \in [Fields -> Values]
    /\ alone \in BOOLEAN /\ lost \subseteq Fields

Idle == \A w \in Workers : pc[w] \in {"up", "down"}

\* What a restart gives back: the value of a field that no environment presets
\* and whose line python-dotenv reads as it was written.
Restorable(f) == Preset[f] = Unset /\ Parsed[acked[f]] = acked[f]

\* Where the file saved is the file loaded, a restart gives back what was last saved and
\* answered for, whatever saves were refused, failed or lost half way (apply_settings:
\* .env is written "so they survive a restart"): a write cut short loses what it had
\* emptied, and writes that overlap lose each other's fields and, unless one of them
\* read the emptied file, no more, until a save of its own writes the field again.
SurvivesRestart ==
    SameFile /\ Idle =>
      \A f \in Fields \ lost : Restorable(f) => Imported(Loaded)[f] = acked[f]
=============================================================================
