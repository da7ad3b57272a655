--------------------------- MODULE DashboardStore ---------------------------
(***************************************************************************)
(* The dashboards as files (app/paths.py), and the requests that save and  *)
(* read them: the web routes of app/routes/dashboards.py and the MCP tool  *)
(* save_dashboard, which are processes of their own.                       *)
(*                                                                         *)
(* A save truncates the file and then writes it, and nothing locks it: the *)
(* loop of one process serialises its own saves, while reads run on its    *)
(* thread pool and the other processes do as they like.  A file that is    *)
(* truncated, partly written or written over is not a dashboard.           *)
(*                                                                         *)
(* A spec is a member of a small set: Slug gives the category and file     *)
(* name its title yields, and Invalid is what _validate does not accept.   *)
(***************************************************************************)
EXTENDS AccessControl

CONSTANTS
    Requests,
    Doors,       \* processes: "web", and the MCP server as "http" and "stdio"
    Environments,\* how the processes may have been started
    Tokens,      \* credentials a request may carry
    Specs,       \* what may be saved
    Slug,        \* from specs to boards: distinct titles may share one
    Invalid,     \* those of Specs that are no dashboards
    Shipped,     \* the boards that ship with the app
    BuiltIn,     \* the content of a shipped board
    NoFile, Empty, Torn,
    Unsure,
    MaxCrashes   \* bound

Boards == Range(Slug) \cup Shipped
Contents == Specs \cup {BuiltIn, NoFile, Empty, Torn}
Dirs == {"builtin", "explicit", "user"}
Entries == [dir: Dirs \cup {"shipped"}, text: Contents \cup {Unsure}]

ASSUME StoreAssumption ==
    /\ Slug \in [Specs -> Boards] /\ Invalid \subseteq Specs
    /\ {NoFile, BuiltIn} \cap Specs = {} /\ {Empty, Torn} \cap (Specs \cup {NoFile, BuiltIn}) = {}
    /\ {Unsure, "none"} \cap Contents = {}
    /\ MaxCrashes \in Nat

VARIABLES
    env,      \* the processes that run, their variables, their .env, their directories
    files,    \* of each directory and board
    req,      \* the requests
    book,     \* history: of each board, what the last save by any process left, and the
              \* directory it went to; Unsure while it is under way or contested
    crashes

vars == <<env, files, req, book, crashes>>

Idle == [pc |-> "idle", door |-> "none", op |-> "none", what |-> NoFile,
         dir |-> "none", role |-> Nobody, answer |-> "none", trail |-> <<>>,
         seen |-> {}]

------------------------------------------------------------------------------
(* Where dashboards are. *)

\* A checkout that can be written is its own state directory, and there saves
\* land among the shipped boards.
SavedDir(d) ==
    CASE env.stateDir[d] = "set" -> "explicit"
      [] env.stateDir[d] = "unset" /\ env.writable -> "builtin"
      [] OTHER -> "user"

\* Mutant: the shipped boards are looked at first.
DirOfShippedFirst(store, d, b) ==
    CASE store["builtin"][b] # NoFile -> "builtin"
      [] store["builtin"][b] = NoFile /\ store[SavedDir(d)][b] # NoFile -> SavedDir(d)
      [] OTHER -> "none"

\* find_dashboard: a saved board hides the shipped one of its name.
DirOf(store, d, b) ==
    CASE store[SavedDir(d)][b] # NoFile -> SavedDir(d)
      [] store[SavedDir(d)][b] = NoFile /\ store["builtin"][b] # NoFile -> "builtin"
      [] OTHER -> "none"

------------------------------------------------------------------------------
(* Steps of a request. *)

Init ==
    /\ env \in Environments
    /\ files = [x \in Dirs |-> [b \in Boards |->
                   IF x = "builtin" /\ b \in Shipped THEN BuiltIn ELSE NoFile]]
    /\ book = [b \in Boards |-> [dir |-> "shipped", text |-> files["builtin"][b]]]
    /\ req = [r \in Requests |-> Idle]
    /\ crashes = 0

Writers(x, b) ==
    {r \in Requests : req[r].pc \in {"opened", "overlapped"}
                      /\ req[r].dir = x /\ Slug[req[r].what] = b}

Reads == {"get", "download"}
\* Mutant: saving needs no more than reading.
RequiredViewer(op) == "viewer"
Required(op) == IF op = "save" THEN "steward" ELSE "viewer"
Reading(r) == req[r].op \in Reads /\ req[r].pc \in {"admitted", "found"}

\* The gate: the web route's dependency, or the MCP tool's decorator.  What a
\* request that is not let in asked for is forgotten.
Arrive(r, d, op, token, what) ==
    LET role == Caller(env, d, token)
        gate == Gate(role, Required(op))
    IN  /\ req[r].pc = "idle"
        /\ d \in env.running
        /\ op \in Reads => d = "web"
        /\ req' = [req EXCEPT ![r] =
              IF gate.answer = "ok"
              THEN [Idle EXCEPT !.pc = "admitted", !.door = d, !.op = op, !.what = what,
                                !.role = role, !.trail = gate.trail,
                                !.seen = IF op \in Reads THEN {book[what]} ELSE {}]
              ELSE [Idle EXCEPT !.pc = "done", !.door = d, !.answer = gate.answer,
                                !.trail = gate.trail]]
        /\ UNCHANGED <<env, files, book, crashes>>

\* A loop runs one saving handler at a time, from validation to response.
LoopFree(d) ==
    \A r \in Requests : req[r].door = d => req[r].pc \notin {"opened", "overlapped", "written"}

\* Mutant: the answer is kept, the request goes on.
AnswerStays(r, answer, trail) ==
    req' = [req EXCEPT ![r].answer = answer, ![r].trail = @ \o trail]

Answer(r, answer, trail) ==
    req' = [req EXCEPT ![r].pc = "done", ![r].answer = answer,
                       ![r].trail = @ \o trail]

\* What is not JSON is refused before, a spec with errors after the validator,
\* which raises on panels that are no objects.  Only the web route audits.
Refuse(r) ==
    /\ req[r].pc = "admitted" /\ req[r].op = "save"
    /\ LoopFree(req[r].door)
    /\ req[r].what \in Invalid
    /\ \/ Answer(r, "rejected", IF req[r].door = "web" THEN <<"rejected">> ELSE <<>>)
       \/ Answer(r, "rejected", <<>>)
       \/ Answer(r, "error", <<>>)
    /\ UNCHANGED <<env, files, book, crashes>>

\* The readers now at work see the book change.
Write(x, b, content, entry) ==
    /\ files' = [files EXCEPT ![x][b] = content]
    /\ book' = [book EXCEPT ![b] = [dir |-> x, text |-> entry]]

Witness(f) ==
    [r \in Requests |->
        IF Reading(r) THEN [f[r] EXCEPT !.seen = @ \cup {book'[f[r].what]}]
        ELSE f[r]]

Overlap(f, x, b) ==
    [r \in Requests |-> IF r \in Writers(x, b) THEN [f[r] EXCEPT !.pc = "overlapped"] ELSE f[r]]

\* The file is created or truncated, in the directory this process saves to.
Open(r) ==
    LET x == SavedDir(req[r].door)
        b == Slug[req[r].what]
        pc == IF Writers(x, b) = {} THEN "opened" ELSE "overlapped"
    IN  /\ req[r].pc = "admitted" /\ req[r].op = "save"
        /\ LoopFree(req[r].door)
        /\ req[r].what \notin Invalid
        /\ Write(x, b, Empty, Unsure)
        /\ req' = Witness([Overlap(req, x, b) EXCEPT ![r].pc = pc, ![r].dir = x])
        /\ UNCHANGED <<env, crashes>>

\* The text is written.  Over another's text, or with another to write over
\* it, the file may hold parts of both.
Fill(r) ==
    LET x == req[r].dir
        b == Slug[req[r].what]
        alone == req[r].pc = "opened"
    IN  /\ req[r].pc \in {"opened", "overlapped"}
        /\ \E c \in IF alone THEN {req[r].what} ELSE {req[r].what, Torn} :
              Write(x, b, c, IF alone THEN c ELSE Unsure)
        /\ req' = Witness([req EXCEPT ![r].pc = "written"])
        /\ UNCHANGED <<env, crashes>>

\* Only the web route audits the save once it is done.
Saved(r) ==
    /\ req[r].pc = "written"
    /\ Answer(r, "saved", IF req[r].door = "web" THEN <<"saved">> ELSE <<>>)
    /\ UNCHANGED <<env, files, book, crashes>>

Find(r) ==
    LET x == DirOf(files, req[r].door, req[r].what)
    IN  /\ req[r].pc = "admitted" /\ req[r].op \in Reads
        /\ IF x = "none" THEN Answer(r, NoFile, <<>>)
           ELSE req' = [req EXCEPT ![r].pc = "found", ![r].dir = x]
        /\ UNCHANGED <<env, files, book, crashes>>

\* get_one and get_data parse what they read, download_one passes it on.
ReadFile(r) ==
    LET c == files[req[r].dir][req[r].what]
    IN  /\ req[r].pc = "found"
        /\ Answer(r, IF req[r].op = "get" /\ c \in {Empty, Torn} THEN "error" ELSE c, <<>>)
        /\ UNCHANGED <<env, files, book, crashes>>

\* A process dies with its requests and is started again; the files stay.
Crash(d) ==
    /\ crashes < MaxCrashes
    /\ \E r \in Requests : req[r].door = d /\ req[r].pc # "done"
    /\ req' = [r \in Requests |->
                  IF req[r].door = d /\ req[r].pc \notin {"done", "lost"}
                  THEN [req[r] EXCEPT !.pc = "lost"] ELSE req[r]]
    /\ crashes' = crashes + 1
    /\ UNCHANGED <<env, files, book>>

RequestStep(r) ==
    \/ \E d \in Doors, t \in Tokens :
          \/ \E s \in Specs : Arrive(r, d, "save", t, s)
          \/ \E op \in Reads, b \in Boards : Arrive(r, d, op, t, b)
    \/ Refuse(r) \/ Open(r) \/ Fill(r) \/ Saved(r)
    \/ Find(r) \/ ReadFile(r)

Next == (\E r \in Requests : RequestStep(r)) \/ (\E d \in Doors : Crash(d))

Spec == Init /\ [][Next]_vars

------------------------------------------------------------------------------
(* Properties. *)

Steps == {"idle", "admitted", "found", "opened", "overlapped", "written", "done", "lost"}
Roles ==
    DOMAIN ROLES \cup Range(ApiKeys) \cup {Nobody}
    \cup {Setting(e, d, "default") : e \in Environments, d \in Doors}
Answers == {"none", "unauthorized", "forbidden", "rejected", "error", "saved"} \cup Contents

\* Types; a save under way has its directory, and only a request that is over
\* has an answer.
TypeOK ==
    /\ env \in Environments
    /\ files \in [Dirs -> [Boards -> Contents]]
    /\ book \in [Boards -> Entries]
    /\ crashes \in 0..MaxCrashes
    /\ \A r \in Requests :
          /\ req[r].pc \in Steps /\ req[r].role \in Roles
          /\ req[r].dir \in Dirs \cup {"none"} /\ req[r].answer \in Answers
          /\ req[r].pc \in {"opened", "overlapped", "written", "found"} => req[r].dir \in Dirs
          /\ (req[r].answer # "none") <=> (req[r].pc = "done")

\* A read answers with the board as some save left it that was the last one, by any
\* process, at a moment of the read, or with the shipped board if there was none
\* (find_dashboard, get_one, download_one) -- unless a write of the board was under way,
\* was cut short by a crash or was written over, or the last save went to a directory
\* that this process does not read: of a process with another state directory.
Met(q) == \E e \in q.seen : e.text = Unsure
Hidden(q) == \E e \in q.seen : e.dir \notin {"shipped", SavedDir(q.door)}
Current(q) == \E e \in q.seen : e.text = q.answer
ReadsLastSave ==
    \A r \in Requests :
        /\ req[r].op \in Reads /\ req[r].pc = "done" /\ "ok" \in Range(req[r].trail)
        /\ ~Met(req[r]) /\ ~Hidden(req[r])
        => Current(req[r])

\* A file that is not as it was shipped was written for a caller who ranks
\* steward, whose admission is on the audit log, in the directory of the
\* process that served him: also after a crash, at either front door, and
\* whatever was audited after the write (require, gated, saved_dash_dir).
AuditedWrites ==
    \A x \in Dirs, b \in Boards :
        files[x][b] \notin {BuiltIn, NoFile} =>
            \E r \in Requests :
                /\ req[r].op = "save" /\ Slug[req[r].what] = b
                /\ x = SavedDir(req[r].door) /\ AtLeast(req[r].role, "steward")
                /\ "ok" \in Range(req[r].trail)

OneConfiguration ==
    env.shell["web"] = env.shell["http"] /\ Dotenv(env, "web") = Dotenv(env, "http") /\ env.hooks

Admitted(e, d) ==
    {p \in Tokens \X {"save", "get"} :
        Gate(Caller(e, d, p[1]), Required(p[2])).answer = "ok"}
Agreeing == {e \in Environments : Admitted(e, "web") = Admitted(e, "http")}

\* The web app and the MCP server over HTTP admit the same credentials to the
\* same operations (security_mcp: "identically-shaped identities"), if they were
\* started with the same variables and the same .env, or with none that tells them
\* apart, and the SDK can verify tokens: .env alone does not reach both.
DoorsAgree == OneConfiguration => env \in Agreeing
=============================================================================
