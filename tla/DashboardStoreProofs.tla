------------------------ MODULE DashboardStoreProofs ------------------------
(***************************************************************************)
(* Proofs about DashboardStore: for any processes, deployments,            *)
(* credentials, boards and number of requests, a read answers with the     *)
(* last save it can see, every write has an author on the audit log, and   *)
(* the two front doors admit alike if they are configured alike.           *)
(***************************************************************************)
EXTENDS DashboardStore, SequenceTheorems, TLAPS

Ops == {"none", "save"} \cup Reads
Records == {"ok", "denied", "rejected", "saved"}
Request ==
    [pc : Steps, door : Doors \cup {"none"}, op : Ops, what : Specs \cup Boards \cup {NoFile},
     dir : Dirs \cup {"none"}, role : Roles, answer : Answers, trail : Seq(Records),
     seen : SUBSET Entries]

Shape ==
    /\ env \in Environments
    /\ files \in [Dirs -> [Boards -> Contents]]
    /\ book \in [Boards -> Entries]
    /\ crashes \in 0..MaxCrashes
    /\ req \in [Requests -> Request]

\* A request asked for something once it was let in, and is where its step says.
Right(q) ==
    /\ q.pc = "idle" => q.op = "none"
    /\ q.answer # "none" <=> q.pc = "done"
    /\ q.op = "save" =>
          /\ q.what \in Specs /\ AtLeast(q.role, "steward")
          /\ \E i \in DOMAIN q.trail : q.trail[i] = "ok"
    /\ q.op \in Reads => q.what \in Boards
    /\ q.pc \in {"opened", "overlapped", "written"} =>
          q.op = "save" /\ q.dir = SavedDir(q.door)
    /\ q.pc = "found" => q.op \in Reads /\ q.dir \in {SavedDir(q.door), "builtin"}

\* A file under work is not in the book, and only a lone writer is "opened".
Uncontested ==
    \A r \in Requests : req[r].pc \in {"opened", "overlapped"} =>
        LET e == book[Slug[req[r].what]]
        IN  /\ e.dir # "shipped" /\ (e.dir = req[r].dir => e.text = Unsure)
            /\ req[r].pc = "opened" => \A q \in Writers(req[r].dir, Slug[req[r].what]) : q = r

\* What is in the book is in the file: a save that is a dashboard, or what was shipped
\* and nothing else.
AsShipped(b) ==
    /\ book[b].dir = "shipped" /\ book[b].text = files["builtin"][b]
    /\ book[b].text \in {BuiltIn, NoFile}
    /\ \A x \in Dirs : x # "builtin" => files[x][b] = NoFile
AsSaved(b) ==
    /\ book[b].dir \in Dirs /\ book[b].text = files[book[b].dir][b]
    /\ book[b].text \notin {Empty, Torn, NoFile}
Booked == \A b \in Boards : book[b].text = Unsure \/ AsShipped(b) \/ AsSaved(b)

\* A reader has seen what he is owed now.
Owes == \A r \in Requests : Reading(r) => book[req[r].what] \in req[r].seen

\* A reader who has found a file, and met no write and no save he cannot see, is owed
\* that file.
Excused(q) == Met(q) \/ Hidden(q)
Placed(q) ==
    LET e == book[q.what] IN e.dir = q.dir \/ (e.dir = "shipped" /\ q.dir = "builtin")
Found == \A r \in Requests : req[r].pc = "found" /\ ~Excused(req[r]) => Placed(req[r])

Kept ==
    /\ Shape /\ (\A r \in Requests : Right(req[r]))
    /\ Uncontested /\ Booked /\ Owes /\ Found
    /\ AuditedWrites /\ ReadsLastSave

------------------------------------------------------------------------------
(* Operators. *)

\* Only a role of the order ranks.
LEMMA UnknownRanksNowhere ==
  ASSUME NEW role, role \notin DOMAIN ROLES, NEW op
  PROVE  ~AtLeast(role, Required(op))
<1>1. Rank(role) = -1
  BY DEF Rank
<1>2. ROLES["viewer"] = 0 /\ ROLES["steward"] = 1
  BY DEF ROLES
<1> QED  BY <1>1, <1>2 DEF AtLeast, Required

\* Both doors admit a caller alike, if one configuration reaches them: the transport's
\* scope and the route's role shut out the same ones.
LEMMA DoorsAlike ==
  ASSUME OneConfiguration, NEW t \in Tokens, NEW op \in {"save", "get"}
  PROVE  Gate(Caller(env, "web", t), Required(op)).answer = "ok"
           <=> Gate(Caller(env, "http", t), Required(op)).answer = "ok"
<1> DEFINE role == Authenticate(env, "web", t)
<1>1. \A key : Setting(env, "web", key) = Setting(env, "http", key)
  BY DEF OneConfiguration, Setting
<1>2. Caller(env, "web", t) = role /\ Authenticate(env, "http", t) = role
  BY <1>1 DEF Caller, Authenticate
<1>3. CASE Setting(env, "web", "mode") = "none"
  <2>1. role = Setting(env, "web", "default")
    BY <1>3 DEF Authenticate
  <2>2. Caller(env, "http", t) = Setting(env, "http", "default")
    BY <1>1, <1>3 DEF Caller, McpCaller, Verified
  <2> QED  BY <1>1, <1>2, <2>1, <2>2
<1>4. CASE Setting(env, "web", "mode") # "none"
  <2>1. Verified(env, "http")
    BY <1>1, <1>4 DEF Verified, OneConfiguration
  <2>2. CASE role \in DOMAIN ROLES
    <3>1. Caller(env, "http", t) = role
      BY <1>2, <2>1, <2>2 DEF Caller, McpCaller
    <3> QED  BY <1>2, <3>1
  <2>3. CASE role \notin DOMAIN ROLES
    <3>1. Caller(env, "http", t) = Nobody
      BY <1>2, <2>1, <2>3 DEF Caller, McpCaller
    <3>2. Gate(Nobody, Required(op)).answer # "ok"
      BY DEF Gate
    <3>3. ~AtLeast(role, Required(op))
      BY <2>3, UnknownRanksNowhere
    <3>4. Gate(role, Required(op)).answer # "ok"
      BY <3>3 DEF Gate
    <3> QED  BY <1>2, <3>1, <3>2, <3>4
  <2> QED  BY <2>2, <2>3
<1> QED  BY <1>3, <1>4

\* A principal is one of the roles the configuration names.
LEMMA CallerRole ==
  ASSUME env \in Environments, NEW d \in Doors, NEW token
  PROVE  Caller(env, d, token) \in Roles
<1>2. Setting(env, d, "default") \in Roles
  BY DEF Roles
<1>1. Authenticate(env, d, token) \in Roles
  <2>1. FromApiKey(token) \in Range(ApiKeys) \cup {Nobody}
    BY DEF FromApiKey, Range
  <2>2. "viewer" \in DOMAIN ROLES
    BY DEF ROLES
  <2>3. FromJwt(token) \in DOMAIN ROLES \cup {Nobody}
    BY <2>2 DEF FromJwt
  <2>4. Authenticate(env, d, token)
          \in {Setting(env, d, "default"), Nobody, FromApiKey(token), FromJwt(token)}
    BY DEF Authenticate
  <2> QED  BY <1>2, <2>1, <2>3, <2>4 DEF Roles
<1> QED  BY <1>1, <1>2 DEF Caller, McpCaller, Roles

\* What StoreAssumption says of the contents, one by one.
LEMMA Distinct ==
  /\ NoFile \notin Specs /\ BuiltIn \notin Specs
  /\ Empty \notin Specs /\ Empty # NoFile /\ Empty # BuiltIn
  /\ Torn \notin Specs /\ Torn # NoFile /\ Torn # BuiltIn
  /\ Unsure \notin Contents /\ "none" \notin Contents
  /\ \A s \in Specs : Slug[s] \in Boards
BY StoreAssumption

\* A process saves into one of the three directories.
LEMMA SavedDirType == \A d : SavedDir(d) \in Dirs
BY DEF SavedDir, Dirs

\* What the audit log holds stays on it.
LEMMA TrailGrows ==
  ASSUME NEW s \in Seq(Records), NEW t \in Seq(Records)
  PROVE  /\ s \o t \in Seq(Records)
         /\ (\E i \in DOMAIN s : s[i] = "ok") => \E i \in DOMAIN (s \o t) : (s \o t)[i] = "ok"
<1>1. s \o t \in Seq(Records)
  OBVIOUS
<1>2. ASSUME NEW i \in DOMAIN s, s[i] = "ok"
      PROVE  i \in DOMAIN (s \o t) /\ (s \o t)[i] = "ok"
  BY <1>2
<1> QED  BY <1>1, <1>2

------------------------------------------------------------------------------
(* The steps. *)

\* Nothing has been asked, nothing written.
LEMMA InitKept == Init => Kept
<1> SUFFICES ASSUME Init PROVE Kept
  OBVIOUS
<1>1. /\ env \in Environments
      /\ files \in [Dirs -> [Boards -> {BuiltIn, NoFile}]]
      /\ book = [b \in Boards |-> [dir |-> "shipped", text |-> files["builtin"][b]]]
      /\ \A x \in Dirs, b \in Boards : x # "builtin" => files[x][b] = NoFile
      /\ crashes = 0
      /\ \A r \in Requests : req[r] = Idle
      /\ req = [r \in Requests |-> Idle]
  BY DEF Init
<1>2. Idle \in Request
  BY DEF Idle, Request, Steps, Ops, Reads, Roles, Answers, Dirs, Contents
<1>3. Shape
  BY <1>1, <1>2, StoreAssumption DEF Shape, Contents, Entries, Dirs
<1>4. \A r \in Requests : Right(req[r])
  BY <1>1 DEF Right, Idle, Reads
<1>5. Booked
  BY <1>1 DEF Booked, AsShipped, Dirs
<1>6. Uncontested /\ Owes /\ Found /\ AuditedWrites /\ ReadsLastSave
  BY <1>1 DEF Uncontested, Owes, Found, AuditedWrites, ReadsLastSave, Idle, Reading, Reads
<1> QED  BY <1>3, <1>4, <1>5, <1>6 DEF Kept

\* A step of one request that is no writer, and leaves files and book alone.
LEMMA OneRequest ==
  ASSUME Kept, NEW r \in Requests, NEW q \in Request,
         req' = [req EXCEPT ![r] = q], UNCHANGED <<env, files, book, crashes>>,
         Right(q), q.pc \notin {"opened", "overlapped"},
         req[r].op = "save" => q.op = "save" /\ q.what = req[r].what /\ q.door = req[r].door,
         q.op \in Reads /\ q.pc \in {"admitted", "found"} => book[q.what] \in q.seen,
         q.pc = "found" /\ ~Excused(q) => Placed(q),
         q.op \in Reads /\ q.pc = "done" /\ ~Excused(q) => Current(q)
  PROVE  Kept'
<1> USE DEF Kept
<1>1. \A p \in Requests : req'[p] = IF p = r THEN q ELSE req[p]
  BY DEF Shape
<1>2. /\ env' = env /\ files' = files /\ book' = book /\ crashes' = crashes
      /\ \A d : SavedDir(d)' = SavedDir(d)
  BY DEF SavedDir
<1>3. Shape'
  BY <1>2 DEF Shape
<1>4. \A p \in Requests : Right(req[p])'
  BY <1>1, <1>2 DEF Right
<1>5. Uncontested'
  BY <1>1, <1>2 DEF Uncontested, Writers
<1>6. Booked'
  BY <1>2 DEF Booked, AsShipped, AsSaved
<1>7. Owes'
  BY <1>1, <1>2 DEF Owes, Reading
<1>11. ASSUME NEW p \in Requests, NEW s, req'[p] = s
       PROVE  /\ Excused(req[p])' <=> Excused(s)
              /\ Placed(req[p])' <=> Placed(s)
              /\ Current(req[p])' <=> Current(s)
  BY <1>2, <1>11 DEF Excused, Met, Hidden, Placed, Current
<1>8. Found'
  BY <1>1, <1>11 DEF Found
<1>9. AuditedWrites'
  BY <1>1, <1>2, <1>4 DEF AuditedWrites, Right, Range
<1>10. ReadsLastSave'
  <2> SUFFICES ASSUME NEW p \in Requests, req'[p].op \in Reads, req'[p].pc = "done",
                      "ok" \in Range(req'[p].trail), ~Excused(req[p])'
               PROVE  Current(req[p])'
    BY DEF ReadsLastSave, Excused
  <2>1. CASE p = r
    BY <1>1, <1>11, <2>1
  <2>2. CASE p # r
    BY <1>1, <1>11, <2>2 DEF ReadsLastSave, Excused
  <2> QED  BY <2>1, <2>2
<1> QED  BY <1>3, <1>4, <1>5, <1>6, <1>7, <1>8, <1>9, <1>10

\* A caller is let in with a record of it if he ranks, and else is not.
LEMMA GateCases ==
  ASSUME NEW role, NEW required
  PROVE  \/ /\ Gate(role, required).answer = "ok" /\ Gate(role, required).trail = <<"ok">>
            /\ AtLeast(role, required)
         \/ /\ Gate(role, required).answer \in {"unauthorized", "forbidden"}
            /\ Gate(role, required).trail \in {<<>>, <<"denied">>}
<1>1. CASE role = Nobody
  BY <1>1 DEF Gate
<1>2. CASE role # Nobody /\ AtLeast(role, required)
  BY <1>2 DEF Gate
<1>3. CASE role # Nobody /\ ~AtLeast(role, required)
  BY <1>3 DEF Gate
<1> QED  BY <1>1, <1>2, <1>3

\* Who is let in is right for what he asks; a reader has seen what he is owed.
LEMMA ArriveKept ==
  ASSUME Kept, NEW r \in Requests, NEW d \in Doors, NEW op \in {"save"} \cup Reads,
         NEW token, NEW what, op = "save" => what \in Specs, op \in Reads => what \in Boards,
         Arrive(r, d, op, token, what)
  PROVE  Kept'
<1> DEFINE role == Caller(env, d, token)
           gate == Gate(role, Required(op))
           in == [Idle EXCEPT !.pc = "admitted", !.door = d, !.op = op, !.what = what,
                              !.role = role, !.trail = gate.trail,
                              !.seen = IF op \in Reads THEN {book[what]} ELSE {}]
           out == [Idle EXCEPT !.pc = "done", !.door = d, !.answer = gate.answer,
                               !.trail = gate.trail]
<1>1. /\ req[r].pc = "idle" /\ req' = [req EXCEPT ![r] = IF gate.answer = "ok" THEN in ELSE out]
      /\ UNCHANGED <<env, files, book, crashes>>
  BY Zenon DEF Arrive
<1>2. Shape /\ req[r].op = "none"
  BY <1>1 DEF Kept, Right
<1>3. role \in Roles
  BY <1>2, CallerRole DEF Shape
<1>4. CASE gate.answer = "ok"
  <2> HIDE DEF role
  <2>1. gate.trail = <<"ok">> /\ AtLeast(role, Required(op))
    BY <1>4, GateCases
  <2> HIDE DEF gate
  <2>2. op \in Reads => book[what] \in Entries
    BY <1>2 DEF Shape
  <2>3. gate.trail \in Seq(Records) /\ \E i \in DOMAIN gate.trail : gate.trail[i] = "ok"
    BY <2>1 DEF Records
  <2>4. /\ in.pc = "admitted" /\ in.door = d /\ in.op = op /\ in.what = what /\ in.role = role
        /\ in.trail = gate.trail /\ in.answer = "none" /\ in.dir = "none"
        /\ in.seen = IF op \in Reads THEN {book[what]} ELSE {}
    BY DEF Idle
  <2>5. in \in Request
    BY <1>3, <2>2, <2>3 DEF Idle, Request, Steps, Ops, Answers
  <2>6. req' = [req EXCEPT ![r] = in]
    BY <1>1, <1>4
  <2> HIDE DEF in
  <2>7. Right(in)
    BY <2>1, <2>3, <2>4 DEF Right, Required, Reads
  <2>8. in.op \in Reads => book[in.what] \in in.seen
    BY <2>4
  <2>9. in.pc \notin {"opened", "overlapped", "found", "done"} /\ req[r].op # "save"
    BY <1>2, <2>4
  <2>10. UNCHANGED <<env, files, book, crashes>>
    BY <1>1
  <2> QED  BY <2>5, <2>6, <2>7, <2>8, <2>9, <2>10, OneRequest
<1>5. CASE gate.answer # "ok"
  <2>1. gate.answer \in {"unauthorized", "forbidden"} /\ gate.trail \in {<<>>, <<"denied">>}
    BY <1>5, GateCases
  <2> HIDE DEF gate
  <2>2. gate.trail \in Seq(Records)
    <3>1. <<>> \in Seq(Records) /\ <<"denied">> \in Seq(Records)
      BY DEF Records
    <3> QED  BY <2>1, <3>1
  <2>3. out.pc = "done" /\ out.op = "none" /\ out.answer = gate.answer
    BY DEF Idle
  <2>8. Nobody \in Roles
    BY DEF Roles
  <2>4. out \in Request
    BY <2>1, <2>2, <2>8 DEF Idle, Request, Steps, Ops, Answers, Dirs
  <2>5. req' = [req EXCEPT ![r] = out]
    BY <1>1, <1>5
  <2> HIDE DEF out
  <2>6. Right(out)
    BY <2>1, <2>3 DEF Right, Reads
  <2>7. out.op \notin Reads
    BY <2>3 DEF Reads
  <2> QED  BY <1>1, <1>2, <2>3, <2>4, <2>5, <2>6, <2>7, OneRequest
<1> QED  BY <1>4, <1>5

\* A request is over: a save with any answer, a read with one it has seen.
LEMMA Answered ==
  ASSUME Kept, NEW r \in Requests, NEW answer \in Answers \ {"none"}, NEW trail \in Seq(Records),
         Answer(r, answer, trail), UNCHANGED <<env, files, book, crashes>>,
         req[r].op \in Reads /\ ~Excused(req[r]) => \E e \in req[r].seen : e.text = answer
  PROVE  Kept'
<1> DEFINE q == [req[r] EXCEPT !.pc = "done", !.answer = answer, !.trail = @ \o trail]
<1>1. req[r] \in Request /\ Right(req[r])
  BY DEF Kept, Shape
<1>2. req' = [req EXCEPT ![r] = q]
  BY <1>1 DEF Answer, Kept, Shape
<1>3. /\ req[r].trail \o trail \in Seq(Records)
      /\ (\E i \in DOMAIN req[r].trail : req[r].trail[i] = "ok")
         => \E i \in DOMAIN (req[r].trail \o trail) : (req[r].trail \o trail)[i] = "ok"
  BY <1>1, TrailGrows DEF Request
<1>4. q \in Request
  BY <1>1, <1>3 DEF Request, Steps
<1>5. /\ q.pc = "done" /\ q.answer = answer /\ q.trail = req[r].trail \o trail
      /\ q.op = req[r].op /\ q.what = req[r].what /\ q.door = req[r].door
      /\ q.role = req[r].role /\ q.seen = req[r].seen /\ q.dir = req[r].dir
  BY <1>1 DEF Request
<1> HIDE DEF q
<1>6. Right(q)
  BY <1>1, <1>3, <1>5 DEF Right
<1>7. q.op \in Reads /\ ~Excused(q) => Current(q)
  BY <1>5 DEF Excused, Met, Hidden, Current
<1> QED  BY <1>2, <1>4, <1>5, <1>6, <1>7, OneRequest

\* A refused save leaves no file.
LEMMA RefuseKept == ASSUME Kept, NEW r \in Requests, Refuse(r) PROVE Kept'
<1>1. <<>> \in Seq(Records) /\ <<"rejected">> \in Seq(Records)
  BY DEF Records
<1>2. {"rejected", "error"} \subseteq Answers \ {"none"} /\ req[r].op \notin Reads
  BY DEF Answers, Refuse, Reads
<1> QED  BY <1>1, <1>2, Answered DEF Refuse

\* Auditing a save touches no file.
LEMMA SavedKept == ASSUME Kept, NEW r \in Requests, Saved(r) PROVE Kept'
<1>1. <<>> \in Seq(Records) /\ <<"saved">> \in Seq(Records)
  BY DEF Records
<1>2. "saved" \in Answers \ {"none"} /\ req[r].op \notin Reads
  BY DEF Answers, Saved, Reads, Kept, Right
<1> QED  BY <1>1, <1>2, Answered DEF Saved

\* What a reader finds, unless he is excused, is the file he is owed.
LEMMA FindKept == ASSUME Kept, NEW r \in Requests, Find(r) PROVE Kept'
<1> DEFINE d == req[r].door
           b == req[r].what
           home == SavedDir(d)
           x == DirOf(files, d, b)
           e == book[b]
<1>1. req[r] \in Request /\ Right(req[r]) /\ Shape /\ Booked
  BY DEF Kept, Shape
<1>2. /\ req[r].pc = "admitted" /\ req[r].op \in Reads /\ b \in Boards
      /\ UNCHANGED <<env, files, book, crashes>>
  BY <1>1 DEF Find, Right
<1>3. e \in req[r].seen /\ home \in Dirs /\ "builtin" \in Dirs /\ "shipped" \notin Dirs
  BY <1>2, SavedDirType DEF Kept, Owes, Reading, Dirs
<1>4. \/ x = home /\ files[home][b] # NoFile
      \/ x = "builtin" /\ files[home][b] = NoFile /\ files["builtin"][b] # NoFile
      \/ x = "none" /\ files[home][b] = NoFile /\ files["builtin"][b] = NoFile
  <2>1. CASE files[home][b] # NoFile
    BY <2>1 DEF DirOf
  <2>2. CASE files[home][b] = NoFile /\ files["builtin"][b] # NoFile
    BY <2>2 DEF DirOf
  <2>3. CASE files[home][b] = NoFile /\ files["builtin"][b] = NoFile
    BY <2>3 DEF DirOf
  <2> QED  BY <2>1, <2>2, <2>3
<1>5. ASSUME ~Excused(req[r])
      PROVE  \/ e.dir = "shipped" /\ e.text = files["builtin"][b]
                /\ (home # "builtin" => files[home][b] = NoFile)
             \/ e.dir = home /\ e.text = files[home][b] /\ files[home][b] # NoFile
  <2>1. e.text # Unsure /\ e.dir \in {"shipped", home}
    BY <1>3, <1>5 DEF Excused, Met, Hidden
  <2>2. AsShipped(b) \/ AsSaved(b)
    BY <1>1, <1>2, <2>1 DEF Booked
  <2> QED  BY <1>3, <2>1, <2>2 DEF AsShipped, AsSaved
<1> HIDE DEF home, x
<1>7. CASE x = "none"
  <2>1. req[r].op \in Reads /\ ~Excused(req[r]) => \E f \in req[r].seen : f.text = NoFile
    BY <1>3, <1>4, <1>5, <1>7 DEF Dirs
  <2>2. NoFile \in Answers \ {"none"} /\ <<>> \in Seq(Records)
    BY Distinct DEF Answers, Contents
  <2>3. Answer(r, NoFile, <<>>)
    BY <1>7 DEF Find, x
  <2> QED  BY <1>2, <2>1, <2>2, <2>3, Answered
<1>8. CASE x # "none"
  <2> DEFINE q == [req[r] EXCEPT !.pc = "found", !.dir = x]
  <2>1. req' = [req EXCEPT ![r] = q]
    BY <1>1, <1>8 DEF Find, x, Shape
  <2>2. x \in Dirs
    BY <1>3, <1>4, <1>8
  <2>3. /\ q.pc = "found" /\ q.dir = x /\ q.op = req[r].op /\ q.what = b /\ q.door = d
        /\ q.seen = req[r].seen /\ q.answer = req[r].answer /\ q \in Request
    BY <1>1, <2>2 DEF Request, Steps
  <2> HIDE DEF q
  <2>4. Right(q)
    BY <1>1, <1>2, <1>4, <1>8, <2>3 DEF Right, home, Reads
  <2>5. ~Excused(req[r]) => e.dir = x \/ (e.dir = "shipped" /\ x = "builtin")
    BY <1>3, <1>4, <1>5, <1>8
  <2>6. book[q.what] \in q.seen
    BY <1>3, <2>3
  <2>7. q.pc = "found" /\ ~Excused(q) => Placed(q)
    BY <2>3, <2>5 DEF Placed, Excused, Met, Hidden
  <2>8. req[r].op # "save" /\ q.pc \notin {"opened", "overlapped", "done"}
    BY <1>2, <2>3 DEF Reads
  <2> QED  BY <1>2, <2>1, <2>3, <2>4, <2>6, <2>7, <2>8, OneRequest
<1> QED  BY <1>7, <1>8

\* The file found is still the one he is owed, or he is excused.
LEMMA ReadFileKept == ASSUME Kept, NEW r \in Requests, ReadFile(r) PROVE Kept'
<1> DEFINE x == req[r].dir
           b == req[r].what
           c == files[x][b]
           answer == IF req[r].op = "get" /\ c \in {Empty, Torn} THEN "error" ELSE c
<1>1. Right(req[r]) /\ Shape /\ Booked
  BY DEF Kept
<1>2. /\ req[r].pc = "found" /\ req[r].op \in Reads /\ b \in Boards
      /\ x \in {SavedDir(req[r].door), "builtin"} /\ x \in Dirs
      /\ UNCHANGED <<env, files, book, crashes>>
  BY <1>1, SavedDirType DEF ReadFile, Right, Dirs
<1>3. c \in Contents
  BY <1>1, <1>2 DEF Shape
<1>4. answer \in Answers \ {"none"} /\ <<>> \in Seq(Records)
  BY <1>3, Distinct DEF Answers
<1>5. ASSUME ~Excused(req[r]) PROVE \E e \in req[r].seen : e.text = answer
  <2>1. book[b] \in req[r].seen /\ Placed(req[r])
    BY <1>2, <1>5 DEF Kept, Found, Owes, Reading
  <2>2. AsShipped(b) \/ AsSaved(b)
    BY <1>1, <1>2, <1>5, <2>1 DEF Booked, Excused, Met
  <2>3. c = book[b].text /\ c \notin {Empty, Torn}
    <3>1. CASE AsShipped(b)
      BY <1>2, <2>1, <3>1, Distinct DEF AsShipped, Placed, Dirs
    <3>2. CASE AsSaved(b)
      BY <1>2, <2>1, <3>2 DEF AsSaved, Placed, Dirs
    <3> QED  BY <2>2, <3>1, <3>2
  <2> QED  BY <2>1, <2>3
<1>6. Answer(r, answer, <<>>)
  BY DEF ReadFile
<1> QED  BY <1>2, <1>4, <1>5, <1>6, Answered

------------------------------------------------------------------------------
(* Writes. *)

\* The same but for its step, its directory and what it has seen.
Same(p, q) ==
    /\ p.op = q.op /\ p.what = q.what /\ p.door = q.door /\ p.role = q.role
    /\ p.answer = q.answer /\ p.trail = q.trail

\* A request at another step is still a request.
LEMMA StepsTo ==
  ASSUME NEW q \in Request, NEW step \in Steps
  PROVE  LET s == [q EXCEPT !.pc = step]
         IN  s \in Request /\ s.pc = step /\ s.dir = q.dir /\ s.seen = q.seen /\ Same(s, q)
BY DEF Request, Same

\* And in another directory.
LEMMA MovesTo ==
  ASSUME NEW q \in Request, NEW step \in Steps, NEW x \in Dirs
  PROVE  LET s == [q EXCEPT !.pc = step, !.dir = x]
         IN  s \in Request /\ s.pc = step /\ s.dir = x /\ s.seen = q.seen /\ Same(s, q)
BY DEF Request, Same

\* And with more seen.
LEMMA SeesMore ==
  ASSUME NEW q \in Request, NEW more \in SUBSET Entries
  PROVE  LET s == [q EXCEPT !.seen = @ \cup more]
         IN  s \in Request /\ s.pc = q.pc /\ s.dir = q.dir /\ s.seen = q.seen \cup more /\ Same(s, q)
BY DEF Request, Same

\* What a write of r into board b of directory x does to the requests.
Wrote(r, x, b, step) ==
    /\ req' \in [Requests -> Request]
    /\ req'[r].pc = step /\ req'[r].dir = x
    /\ \A p \in Requests :
          /\ p # r => /\ req'[p].dir = req[p].dir
                      /\ req'[p].pc = IF step # "written" /\ p \in Writers(x, b)
                                      THEN "overlapped" ELSE req[p].pc
          /\ req'[p].seen = req[p].seen \cup
                               (IF Reading(p) THEN {book'[req[p].what]} ELSE {})
          /\ Same(req'[p], req[p])

\* What Witness adds to f, whose requests have not met the write yet.
LEMMA WitnessWrote ==
  ASSUME NEW r \in Requests, NEW x \in Dirs, NEW b,
         NEW step \in {"opened", "overlapped", "written"},
         NEW content, NEW entry \in Contents \cup {Unsure}, Write(x, b, content, entry), Shape,
         \A p \in Requests : Right(req[p]), env' = env,
         NEW f \in [Requests -> Request], req' = Witness(f), f[r].pc = step, f[r].dir = x,
         \A p \in Requests :
            /\ p # r => /\ f[p].dir = req[p].dir
                        /\ f[p].pc = IF step # "written" /\ p \in Writers(x, b)
                                     THEN "overlapped" ELSE req[p].pc
            /\ f[p].seen = req[p].seen /\ Same(f[p], req[p])
  PROVE  Wrote(r, x, b, step)
<1>1. ASSUME NEW p \in Requests, Reading(p)
      PROVE  book'[req[p].what] \in Entries
  <2>1. req[p].what \in Boards
    BY <1>1 DEF Right, Reading
  <2>2. book' \in [Boards -> Entries]
    BY DEF Write, Shape, Entries
  <2> QED  BY <2>1, <2>2
<1>2. /\ req' = [p \in Requests |-> req'[p]]
      /\ \A p \in Requests :
            req'[p] = IF Reading(p)
                      THEN [f[p] EXCEPT !.seen = @ \cup {book'[f[p].what]}]
                      ELSE f[p]
  BY DEF Witness
<1>3. ASSUME NEW p \in Requests
      PROVE  /\ req'[p] \in Request /\ req'[p].pc = f[p].pc /\ req'[p].dir = f[p].dir
             /\ req'[p].seen = f[p].seen \cup
                   (IF Reading(p) THEN {book'[req[p].what]} ELSE {})
             /\ Same(req'[p], f[p])
  <2> DEFINE more == {book'[req[p].what]}
  <2>1. f[p].door = req[p].door /\ f[p].what = req[p].what /\ f[p] \in Request
    BY DEF Same
  <2>2. CASE Reading(p)
    <3>1. more \in SUBSET Entries
      BY <1>1, <2>2
    <3>2. req'[p] = [f[p] EXCEPT !.seen = @ \cup more]
      BY <1>2, <2>1, <2>2
    <3> HIDE DEF more
    <3>4. LET s == [f[p] EXCEPT !.seen = @ \cup more]
          IN  s \in Request /\ s.pc = f[p].pc /\ s.dir = f[p].dir /\ s.seen = f[p].seen \cup more
              /\ Same(s, f[p])
      BY <2>1, <3>1, SeesMore
    <3>3. /\ req'[p] \in Request /\ req'[p].pc = f[p].pc /\ req'[p].dir = f[p].dir
          /\ req'[p].seen = f[p].seen \cup more /\ Same(req'[p], f[p])
      BY <3>2, <3>4
    <3> QED  BY <2>2, <3>3 DEF more
  <2>3. CASE ~Reading(p)
    BY <1>2, <2>1, <2>3 DEF Same
  <2> QED  BY <2>2, <2>3
<1>4. req' \in [Requests -> Request]
  BY <1>2, <1>3
<1> QED  BY <1>3, <1>4 DEF Wrote, Same

\* A write: the file is under work and not in the book, or its only writer is done.
LEMMA WriteKept ==
  ASSUME Kept, NEW r \in Requests, NEW x \in Dirs, NEW b \in Boards,
         NEW content \in Contents \ {BuiltIn, NoFile}, NEW entry \in {Unsure, content},
         NEW step \in {"opened", "overlapped", "written"},
         Write(x, b, content, entry), UNCHANGED <<env, crashes>>, Wrote(r, x, b, step),
         req[r].pc \in {"admitted", "opened", "overlapped"}, req[r].op = "save",
         Slug[req[r].what] = b, x = SavedDir(req[r].door),
         step = "opened" => Writers(x, b) = {},
         step # "written" => entry = Unsure,
         entry = content => /\ content \notin {Empty, Torn} /\ book[b].dir # "shipped"
                            /\ book[b].dir = x => book[b].text = Unsure
                            /\ \A q \in Writers(x, b) : q = r
  PROVE  Kept'
<1>1. /\ Shape /\ Uncontested /\ Booked /\ Owes /\ Found /\ AuditedWrites /\ ReadsLastSave
      /\ \A p \in Requests : Right(req[p])
  BY DEF Kept
<1>2. /\ \A d : SavedDir(d)' = SavedDir(d)
      /\ env' = env /\ crashes' = crashes
  BY DEF SavedDir
<1>3. /\ files' \in [Dirs -> [Boards -> Contents]]
      /\ book' \in [Boards -> Entries]
      /\ \A y \in Dirs, c \in Boards :
            files'[y][c] = IF y = x /\ c = b THEN content ELSE files[y][c]
      /\ \A c \in Boards : book'[c] = IF c = b THEN [dir |-> x, text |-> entry] ELSE book[c]
  BY <1>1 DEF Write, Shape, Entries
<1>4. Unsure # NoFile /\ entry # NoFile /\ \A s \in Specs : Slug[s] \in Boards
  BY Distinct DEF Contents
<1>5. "builtin" \in Dirs /\ "shipped" \notin Dirs /\ \A d : SavedDir(d) \in Dirs
  BY SavedDirType DEF Dirs
<1>6. Shape'
  BY <1>1, <1>2, <1>3 DEF Shape, Wrote, Same
<1>7. \A p \in Requests : Right(req[p])'
  <2> SUFFICES ASSUME NEW p \in Requests PROVE Right(req[p])'
    OBVIOUS
  <2>1. Right(req[p])
    BY <1>1
  <2>2. CASE p = r
    BY <2>1, <2>2, <1>2 DEF Right, Wrote, Same
  <2>3. CASE p # r
    BY <2>1, <2>3, <1>2 DEF Right, Wrote, Same, Writers
  <2> QED  BY <2>2, <2>3
<1>8. Uncontested'
  <2> SUFFICES ASSUME NEW p \in Requests, req'[p].pc \in {"opened", "overlapped"}
               PROVE  LET e == book'[Slug[req'[p].what]]
                      IN  /\ e.dir # "shipped" /\ (e.dir = req'[p].dir => e.text = Unsure)
                          /\ req'[p].pc = "opened" =>
                                \A q \in Writers(req[p].dir, Slug[req[p].what])' : q = p
    BY DEF Uncontested, Wrote, Same
  <2>1. CASE p = r
    <3>1. req'[p].dir = x /\ Slug[req'[p].what] = b /\ step # "written"
      BY <2>1 DEF Wrote, Same
    <3>2. book'[b].dir = x /\ book'[b].text = Unsure
      BY <1>3, <3>1
    <3>3. ASSUME step = "opened", NEW q \in Writers(req[p].dir, Slug[req[p].what])' PROVE q = p
      BY <2>1, <3>1, <3>3 DEF Wrote, Same, Writers
    <3> QED  BY <1>5, <2>1, <3>1, <3>2, <3>3 DEF Wrote, Same
  <2>2. CASE p # r
    <3>1. /\ req[p].pc \in {"opened", "overlapped"} /\ req'[p].dir = req[p].dir
          /\ req'[p].what = req[p].what
      BY <2>2 DEF Wrote, Same, Writers
    <3>2. req[p].dir \in Dirs /\ Slug[req[p].what] \in Boards
      BY <1>1, <1>4, <1>5, <3>1 DEF Right
    <3>3. /\ book[Slug[req[p].what]].dir # "shipped"
          /\ book[Slug[req[p].what]].dir = req[p].dir => book[Slug[req[p].what]].text = Unsure
      BY <1>1, <3>1 DEF Uncontested
    <3>4. /\ book'[Slug[req[p].what]].dir # "shipped"
          /\ book'[Slug[req[p].what]].dir = req[p].dir => book'[Slug[req[p].what]].text = Unsure
      <4>1. CASE Slug[req[p].what] = b
        <5>1. book'[b].dir = x /\ book'[b].text = entry /\ b = Slug[req[p].what]
          BY <1>3, <4>1
        <5>2. req[p].dir = x => p \in Writers(x, b)
          BY <3>1, <4>1 DEF Writers
        <5> QED  BY <1>5, <2>2, <5>1, <5>2
      <4>2. CASE Slug[req[p].what] # b
        BY <1>3, <3>2, <3>3, <4>2
      <4> QED  BY <4>1, <4>2
    <3>5. ASSUME req'[p].pc = "opened", NEW q \in Writers(req[p].dir, Slug[req[p].what])'
          PROVE  q = p
      <4>1. req[p].pc = "opened" /\ (step # "written" => p \notin Writers(x, b))
        BY <2>2, <3>1, <3>5 DEF Wrote, Same
      <4>2. \A o \in Writers(req[p].dir, Slug[req[p].what]) : o = p
        BY <1>1, <4>1 DEF Uncontested
      <4>3. q \in Requests /\ req'[q].pc \in {"opened", "overlapped"}
            /\ req'[q].dir = req[p].dir /\ Slug[req[q].what] = Slug[req[p].what]
        BY <3>1, <3>5 DEF Writers, Wrote, Same
      <4>4. q # r
        BY <3>1, <4>1, <4>3 DEF Writers, Wrote, Same
      <4>5. q \in Writers(req[p].dir, Slug[req[p].what])
        BY <4>3, <4>4 DEF Writers, Wrote, Same
      <4> QED  BY <4>2, <4>5
    <3> QED  BY <3>1, <3>4, <3>5
  <2> QED  BY <2>1, <2>2
<1>9. Booked'
  <2> SUFFICES ASSUME NEW c \in Boards
               PROVE  book'[c].text = Unsure \/ AsShipped(c)' \/ AsSaved(c)'
    BY DEF Booked
  <2>1. CASE c = b
    BY <1>3, <2>1 DEF AsSaved
  <2>2. CASE c # b
    <3>1. book'[c] = book[c] /\ \A y \in Dirs : files'[y][c] = files[y][c]
      BY <1>3, <2>2
    <3> QED  BY <1>1, <1>5, <3>1 DEF Booked, AsShipped, AsSaved
  <2> QED  BY <2>1, <2>2
<1>10. Owes'
  <2> SUFFICES ASSUME NEW p \in Requests, Reading(p)' PROVE book'[req[p].what] \in req'[p].seen
    BY DEF Owes, Wrote, Same
  <2>1. p # r /\ req'[p].pc = req[p].pc /\ req'[p].op = req[p].op
    BY DEF Reading, Wrote, Same, Writers, Reads
  <2>2. Reading(p)
    BY <2>1 DEF Reading
  <2> QED  BY <2>2 DEF Wrote
<1>11. Found'
  <2> SUFFICES ASSUME NEW p \in Requests, req'[p].pc = "found", ~Excused(req[p])'
               PROVE  Placed(req[p])'
    BY DEF Found
  <2> DEFINE home == SavedDir(req[p].door)
             c == req[p].what
  <2>1. /\ p # r /\ req[p].pc = "found"
        /\ req'[p].dir = req[p].dir /\ req'[p].what = c /\ req'[p].door = req[p].door
    BY DEF Wrote, Same
  <2>2. req[p].op \in Reads /\ c \in Boards /\ Reading(p)
    BY <1>1, <2>1 DEF Right, Reading
  <2>3. req'[p].seen = req[p].seen \cup {book'[c]} /\ book[c] \in req[p].seen
    BY <1>1, <2>2 DEF Wrote, Owes
  <2>4. \A e \in req[p].seen \cup {book'[c]} : e.text # Unsure /\ e.dir \in {"shipped", home}
    BY <1>2, <2>1, <2>3 DEF Excused, Met, Hidden
  <2>5. ~Excused(req[p])
    BY <2>4 DEF Excused, Met, Hidden
  <2>6. Placed(req[p])
    BY <1>1, <2>1, <2>5 DEF Found
  <2>7. c # b
    <3> SUFFICES ASSUME c = b PROVE FALSE
      OBVIOUS
    <3>1. book'[b] = [dir |-> x, text |-> entry]
      BY <1>3
    <3>2. entry # Unsure /\ x = home
      BY <1>5, <2>4, <3>1
    <3>3. book[b].text # Unsure /\ book[b].dir \in {"shipped", home}
      BY <2>3, <2>4
    <3> QED  BY <3>2, <3>3
  <2> QED  BY <1>3, <2>1, <2>2, <2>6, <2>7 DEF Placed
<1>12. AuditedWrites'
  <2> SUFFICES ASSUME NEW y \in Dirs, NEW c \in Boards, files'[y][c] \notin {BuiltIn, NoFile}
               PROVE  \E p \in Requests :
                          /\ req[p].op = "save" /\ Slug[req[p].what] = c
                          /\ y = SavedDir(req[p].door) /\ AtLeast(req[p].role, "steward")
                          /\ "ok" \in Range(req[p].trail)
    BY <1>2 DEF AuditedWrites, Wrote, Same
  <2>1. CASE y = x /\ c = b
    BY <1>1, <2>1 DEF Right, Range
  <2>2. CASE ~(y = x /\ c = b)
    BY <1>1, <1>3, <2>2 DEF AuditedWrites
  <2> QED  BY <2>1, <2>2
<1>13. ReadsLastSave'
  <2> SUFFICES ASSUME NEW p \in Requests, req'[p].op \in Reads, req'[p].pc = "done",
                      "ok" \in Range(req'[p].trail), ~Met(req[p])', ~Hidden(req[p])'
               PROVE  Current(req[p])'
    BY DEF ReadsLastSave
  <2>1. /\ req[p].op \in Reads /\ req[p].pc = "done" /\ "ok" \in Range(req[p].trail)
        /\ req'[p].seen = req[p].seen /\ req'[p].door = req[p].door /\ req'[p].answer = req[p].answer
    BY DEF Wrote, Same, Reading, Reads
  <2> QED  BY <1>1, <1>2, <2>1 DEF ReadsLastSave, Met, Hidden, Current
<1> QED  BY <1>6, <1>7, <1>8, <1>9, <1>10, <1>11, <1>12, <1>13 DEF Kept

\* A truncation makes the other writers of the file overlap.
LEMMA OpenWrote ==
  ASSUME Kept, NEW r \in Requests, Open(r)
  PROVE  LET x == SavedDir(req[r].door)
             b == Slug[req[r].what]
         IN  Wrote(r, x, b, IF Writers(x, b) = {} THEN "opened" ELSE "overlapped")
<1> DEFINE x == SavedDir(req[r].door)
           b == Slug[req[r].what]
           step == IF Writers(x, b) = {} THEN "opened" ELSE "overlapped"
           f == [Overlap(req, x, b) EXCEPT ![r].pc = step, ![r].dir = x]
<1>1. /\ Shape /\ Right(req[r]) /\ req[r].pc = "admitted" /\ req[r].op = "save"
      /\ Write(x, b, Empty, Unsure) /\ req' = Witness(f) /\ UNCHANGED <<env, crashes>>
  BY DEF Open, Kept
<1>2. x \in Dirs /\ b \in Boards /\ Empty \in Contents \ {BuiltIn, NoFile}
  BY <1>1, SavedDirType, Distinct DEF Right, Contents
<1> HIDE DEF x, b
<1>3. /\ f \in [Requests -> Request] /\ f[r].pc = step /\ f[r].dir = x
      /\ \A p \in Requests :
            /\ p # r => /\ f[p].dir = req[p].dir
                        /\ f[p].pc = IF p \in Writers(x, b) THEN "overlapped" ELSE req[p].pc
            /\ f[p].seen = req[p].seen /\ Same(f[p], req[p])
  <2> DEFINE o == Overlap(req, x, b)
  <2>1. req \in [Requests -> Request] /\ "overlapped" \in Steps /\ step \in Steps
    BY <1>1 DEF Shape, Steps
  <2> HIDE DEF step
  <2>2. /\ o = [p \in Requests |-> o[p]]
        /\ \A p \in Requests :
              o[p] = IF p \in Writers(x, b) THEN [req[p] EXCEPT !.pc = "overlapped"] ELSE req[p]
    BY DEF Overlap
  <2> HIDE DEF o
  <2>3. ASSUME NEW p \in Requests
        PROVE  /\ o[p] \in Request /\ o[p].dir = req[p].dir /\ o[p].seen = req[p].seen
               /\ o[p].pc = IF p \in Writers(x, b) THEN "overlapped" ELSE req[p].pc
               /\ Same(o[p], req[p])
    <3>1. CASE p \in Writers(x, b)
      <4>1. o[p] = [req[p] EXCEPT !.pc = "overlapped"] /\ req[p] \in Request
        BY <2>1, <2>2, <3>1
      <4> QED  BY <2>1, <3>1, <4>1, StepsTo
    <3>2. CASE p \notin Writers(x, b)
      BY <2>1, <2>2, <3>2 DEF Same
    <3> QED  BY <3>1, <3>2
  <2>4. o \in [Requests -> Request]
    BY <2>2, <2>3
  <2> DEFINE moved == [o[r] EXCEPT !.pc = step, !.dir = x]
  <2>5. f = [o EXCEPT ![r] = moved]
    BY <2>4 DEF o
  <2> HIDE DEF f
  <2>6. f[r] \in Request /\ f[r].pc = step /\ f[r].dir = x /\ f[r].seen = o[r].seen /\ Same(f[r], o[r])
    <3>1. moved \in Request /\ moved.pc = step /\ moved.dir = x /\ moved.seen = o[r].seen
          /\ Same(moved, o[r])
      BY <1>2, <2>1, <2>4, MovesTo
    <3> HIDE DEF moved
    <3>2. f[r] = moved
      BY <2>4, <2>5
    <3> QED  BY <3>1, <3>2
  <2>7. f \in [Requests -> Request] /\ \A p \in Requests : p # r => f[p] = o[p]
    <3>1. f = [p \in Requests |-> IF p = r THEN f[r] ELSE o[p]]
      BY <2>4, <2>5
    <3> QED  BY <2>4, <2>6, <3>1
  <2>8. ASSUME NEW p \in Requests
        PROVE  /\ p # r => /\ f[p].dir = req[p].dir
                           /\ f[p].pc = IF p \in Writers(x, b) THEN "overlapped" ELSE req[p].pc
               /\ f[p].seen = req[p].seen /\ Same(f[p], req[p])
    BY <2>3, <2>6, <2>7 DEF Same
  <2> QED  BY <2>6, <2>7, <2>8
<1> HIDE DEF f
<1>4. Wrote(r, x, b, step)
  <2>1. \A p \in Requests : Right(req[p])
    BY DEF Kept
  <2> QED  BY <1>1, <1>2, <1>3, <2>1, WitnessWrote
<1> QED  BY <1>4 DEF x, b

\* It takes the file off the book.
LEMMA OpenKept == ASSUME Kept, NEW r \in Requests, Open(r) PROVE Kept'
<1> DEFINE x == SavedDir(req[r].door)
           b == Slug[req[r].what]
           step == IF Writers(x, b) = {} THEN "opened" ELSE "overlapped"
<1>1. /\ Right(req[r]) /\ req[r].pc = "admitted" /\ req[r].op = "save"
      /\ Write(x, b, Empty, Unsure) /\ UNCHANGED <<env, crashes>>
  BY DEF Open, Kept
<1>2. x \in Dirs /\ b \in Boards /\ Empty \in Contents \ {BuiltIn, NoFile} /\ Unsure # Empty
  BY <1>1, SavedDirType, Distinct DEF Right, Contents
<1>3. Wrote(r, x, b, step)
  BY OpenWrote
<1> HIDE DEF x, b
<1> QED  BY <1>1, <1>2, <1>3, WriteKept DEF x, b

\* The end of a write leaves the other requests where they are.
LEMMA FillWrote ==
  ASSUME Kept, NEW r \in Requests, Fill(r)
  PROVE  Wrote(r, req[r].dir, Slug[req[r].what], "written")
<1> DEFINE x == req[r].dir
           b == Slug[req[r].what]
           alone == req[r].pc = "opened"
           f == [req EXCEPT ![r].pc = "written"]
<1>1. /\ Shape /\ Right(req[r]) /\ req[r].pc \in {"opened", "overlapped"}
      /\ req' = Witness(f) /\ UNCHANGED <<env, crashes>>
  BY DEF Fill, Kept
<1>2. PICK c \in (IF alone THEN {req[r].what} ELSE {req[r].what, Torn}) :
             Write(x, b, c, IF alone THEN c ELSE Unsure)
  BY DEF Fill
<1>3. x \in Dirs /\ c \in Contents
  BY <1>1, <1>2, SavedDirType DEF Right, Contents
<1> HIDE DEF x, b
<1>5. /\ f \in [Requests -> Request] /\ f[r].pc = "written" /\ f[r].dir = x
      /\ \A p \in Requests :
            /\ p # r => f[p].dir = req[p].dir /\ f[p].pc = req[p].pc
            /\ f[p].seen = req[p].seen /\ Same(f[p], req[p])
  <2>1. req \in [Requests -> Request] /\ "written" \in Steps
    BY <1>1 DEF Shape, Steps
  <2>2. f = [req EXCEPT ![r] = [req[r] EXCEPT !.pc = "written"]]
    BY <2>1
  <2> HIDE DEF f
  <2>3. /\ [req[r] EXCEPT !.pc = "written"] \in Request
        /\ f[r] = [req[r] EXCEPT !.pc = "written"]
        /\ f[r].pc = "written" /\ f[r].dir = x /\ f[r].seen = req[r].seen /\ Same(f[r], req[r])
    BY <2>1, <2>2, StepsTo DEF x
  <2>4. f \in [Requests -> Request] /\ \A p \in Requests : p # r => f[p] = req[p]
    BY <2>1, <2>2, <2>3
  <2> QED  BY <2>3, <2>4 DEF Same
<1> HIDE DEF f, alone
<1>6. Wrote(r, x, b, "written")
  <2>1. \A p \in Requests : Right(req[p])
    BY DEF Kept
  <2>2. Write(x, b, c, IF alone THEN c ELSE Unsure)
        /\ (IF alone THEN c ELSE Unsure) \in Contents \cup {Unsure}
    BY <1>2, <1>3
  <2> QED  BY <1>1, <1>3, <1>5, <2>1, <2>2, WitnessWrote
<1> QED  BY <1>6 DEF x, b

\* The text of an only writer goes into the book; any other leaves it open.
LEMMA FillKept == ASSUME Kept, NEW r \in Requests, Fill(r) PROVE Kept'
<1> DEFINE x == req[r].dir
           b == Slug[req[r].what]
           alone == req[r].pc = "opened"
<1>1. /\ Right(req[r]) /\ req[r].pc \in {"opened", "overlapped"} /\ UNCHANGED <<env, crashes>>
  BY DEF Fill, Kept
<1>2. PICK c \in (IF alone THEN {req[r].what} ELSE {req[r].what, Torn}) :
             Write(x, b, c, IF alone THEN c ELSE Unsure)
  BY DEF Fill
<1>3. /\ x \in Dirs /\ b \in Boards /\ req[r].op = "save" /\ x = SavedDir(req[r].door)
      /\ c \in Contents \ {BuiltIn, NoFile} /\ (alone => c \notin {Empty, Torn})
  BY <1>1, <1>2, SavedDirType, Distinct DEF Right, Contents
<1>4. /\ alone => /\ book[b].dir # "shipped" /\ (book[b].dir = x => book[b].text = Unsure)
                  /\ \A q \in Writers(x, b) : q = r
      /\ (IF alone THEN c ELSE Unsure) \in {Unsure, c}
      /\ (IF alone THEN c ELSE Unsure) = c => alone
  BY <1>1, <1>3, Distinct DEF Kept, Uncontested
<1>5. Wrote(r, x, b, "written")
  BY FillWrote
<1> HIDE DEF x, b, alone
<1> QED  BY <1>1, <1>2, <1>3, <1>4, <1>5, WriteKept DEF b

\* The process of door d dies.
LEMMA CrashKept == ASSUME Kept, NEW d \in Doors, Crash(d) PROVE Kept'
<1>1. /\ Shape /\ Uncontested /\ Booked /\ Owes /\ Found /\ AuditedWrites /\ ReadsLastSave
      /\ \A p \in Requests : Right(req[p])
  BY DEF Kept
<1>2. /\ env' = env /\ files' = files /\ book' = book /\ crashes' = crashes + 1
      /\ crashes < MaxCrashes /\ \A e : SavedDir(e)' = SavedDir(e)
  BY DEF Crash, SavedDir
<1>3. /\ req' \in [Requests -> Request]
      /\ \A p \in Requests :
            /\ req'[p].pc \in {req[p].pc, "lost"} /\ (req[p].pc = "done" => req'[p].pc = "done")
            /\ req'[p].dir = req[p].dir /\ req'[p].seen = req[p].seen /\ Same(req'[p], req[p])
  <2>1. req \in [Requests -> Request] /\ "lost" \in Steps
    BY <1>1 DEF Shape, Steps
  <2>2. /\ req' = [p \in Requests |-> req'[p]]
        /\ \A p \in Requests :
              \/ req'[p] = req[p]
              \/ req'[p] = [req[p] EXCEPT !.pc = "lost"] /\ req[p].pc # "done"
    BY DEF Crash
  <2>3. ASSUME NEW p \in Requests
        PROVE  /\ req'[p] \in Request
               /\ req'[p].pc \in {req[p].pc, "lost"} /\ (req[p].pc = "done" => req'[p].pc = "done")
               /\ req'[p].dir = req[p].dir /\ req'[p].seen = req[p].seen /\ Same(req'[p], req[p])
    <3>1. CASE req'[p] = req[p]
      BY <2>1, <3>1 DEF Same
    <3>2. CASE req'[p] = [req[p] EXCEPT !.pc = "lost"] /\ req[p].pc # "done"
      BY <2>1, <3>2, StepsTo
    <3> QED  BY <2>2, <3>1, <3>2
  <2> QED  BY <2>2, <2>3
<1>4. Shape'
  BY <1>1, <1>2, <1>3, StoreAssumption DEF Shape
<1>5. \A p \in Requests : Right(req[p])'
  BY <1>1, <1>2, <1>3 DEF Right, Same
<1>6. Uncontested'
  BY <1>1, <1>2, <1>3 DEF Same, Uncontested, Writers
<1>7. Booked'
  BY <1>1, <1>2 DEF Booked, AsShipped, AsSaved
<1>11. \A p \in Requests : /\ Excused(req[p])' = Excused(req[p]) /\ Current(req[p])' = Current(req[p])
                            /\ Placed(req[p])' = Placed(req[p])
  BY <1>2, <1>3 DEF Same, Excused, Met, Hidden, Current, Placed
<1>8. Owes' /\ Found'
  BY <1>1, <1>2, <1>3, <1>11 DEF Same, Owes, Found, Reading
<1>9. AuditedWrites'
  BY <1>1, <1>2, <1>3 DEF Same, AuditedWrites
<1>10. ReadsLastSave'
  BY <1>1, <1>3, <1>11 DEF Same, ReadsLastSave, Excused
<1> QED  BY <1>4, <1>5, <1>6, <1>7, <1>8, <1>9, <1>10 DEF Kept

\* Every step keeps the invariant.
LEMMA NextKept == Kept /\ [Next]_vars => Kept'
<1> SUFFICES ASSUME Kept, [Next]_vars PROVE Kept'
  OBVIOUS
<1>1. CASE UNCHANGED vars
  BY <1>1 DEF vars, Kept, Shape, Right, Uncontested, Booked, AsShipped, AsSaved, Owes, Found,
              Excused, Met, Hidden, Placed, Current, AuditedWrites, ReadsLastSave, SavedDir,
              Reading, Writers
<1>2. ASSUME NEW r \in Requests, RequestStep(r) PROVE Kept'
  <2>1. ASSUME NEW d \in Doors, NEW t \in Tokens, NEW s \in Specs, Arrive(r, d, "save", t, s)
        PROVE  Kept'
    BY <2>1, ArriveKept DEF Reads
  <2>2. ASSUME NEW d \in Doors, NEW t \in Tokens, NEW op \in Reads, NEW b \in Boards,
               Arrive(r, d, op, t, b)
        PROVE  Kept'
    BY <2>2, ArriveKept DEF Reads
  <2>3. CASE Refuse(r)  BY <2>3, RefuseKept
  <2>4. CASE Open(r)  BY <2>4, OpenKept
  <2>5. CASE Fill(r)  BY <2>5, FillKept
  <2>6. CASE Saved(r)  BY <2>6, SavedKept
  <2>7. CASE Find(r)  BY <2>7, FindKept
  <2>8. CASE ReadFile(r)  BY <2>8, ReadFileKept
  <2> QED  BY <1>2, <2>1, <2>2, <2>3, <2>4, <2>5, <2>6, <2>7, <2>8 DEF RequestStep
<1>3. ASSUME NEW d \in Doors, Crash(d) PROVE Kept'
  BY <1>3, CrashKept
<1> QED  BY <1>1, <1>2, <1>3 DEF Next

------------------------------------------------------------------------------
(* The theorems. *)

\* It always holds.
LEMMA AlwaysKept == Spec => []Kept
BY InitKept, NextKept, PTL DEF Spec

\* Whatever the processes, their state directories and crashes, a read that met no write
\* under way, and no save in a directory its process does not read, answers with the last
\* save of any process, or the shipped board.
THEOREM AlwaysReadsLastSave == Spec => []ReadsLastSave
<1>1. Kept => ReadsLastSave
  BY DEF Kept
<1> QED  BY <1>1, AlwaysKept, PTL

\* The directories that the processes save into; no save is entered in another.
Homes == {SavedDir(d) : d \in Doors}
InHomes(e) == e.dir \in {"shipped"} \cup Homes
AtHome ==
    /\ \A b \in Boards : InHomes(book[b])
    /\ \A r \in Requests :
          /\ req[r].op # "none" => req[r].door \in Doors
          /\ \A e \in req[r].seen : InHomes(e)

\* A write of a process goes home, and the readers have seen it there.
LEMMA WroteAtHome ==
  ASSUME Kept, AtHome, NEW r \in Requests, NEW b, NEW step, NEW content, NEW entry,
         req[r].op = "save", Write(SavedDir(req[r].door), b, content, entry), env' = env,
         Wrote(r, SavedDir(req[r].door), b, step)
  PROVE  AtHome'
<1>1. Homes' = Homes /\ SavedDir(req[r].door) \in Homes
  BY DEF Homes, SavedDir, AtHome
<1>2. \A c \in Boards : InHomes(book[c])'
  BY <1>1 DEF AtHome, Write, InHomes, Kept, Shape
<1>3. ASSUME NEW p \in Requests
      PROVE  /\ req'[p].op # "none" => req'[p].door \in Doors
             /\ \A e \in req'[p].seen : InHomes(e)'
  <2>1. Reading(p) => req[p].what \in Boards
    BY DEF Kept, Right, Reading
  <2> QED  BY <1>1, <1>2, <2>1 DEF AtHome, Wrote, Same, InHomes
<1> QED  BY <1>2, <1>3 DEF AtHome

\* Every step keeps it.
LEMMA NextAtHome == Kept /\ AtHome /\ [Next]_vars => AtHome'
<1> SUFFICES ASSUME Kept, AtHome, [Next]_vars PROVE AtHome'
  OBVIOUS
\* Steps of a request that leave the files alone.
<1>1. ASSUME UNCHANGED <<env, book>>,
             \A p \in Requests :
                \/ req'[p].op \in {req[p].op, "none"} /\ req'[p].door = req[p].door
                   /\ req'[p].seen \subseteq req[p].seen
                \/ req'[p].op = "none" /\ req'[p].seen = {}
                \/ req'[p].door \in Doors /\ req'[p].seen \subseteq {book[c] : c \in Boards}
      PROVE  AtHome'
  <2>1. Homes' = Homes
    BY <1>1 DEF Homes, SavedDir
  <2> QED  BY <1>1, <2>1 DEF AtHome, InHomes
<1>2. CASE UNCHANGED vars
  BY <1>1, <1>2 DEF vars
<1>3. req \in [Requests -> Request]
  BY DEF Kept, Shape
<1>4. ASSUME NEW r \in Requests, NEW d \in Doors, NEW op, NEW t, NEW what,
             op \in Reads => what \in Boards, Arrive(r, d, op, t, what)
      PROVE  AtHome'
  <2>1. UNCHANGED <<env, book>>
        /\ \A p \in Requests \ {r} : req'[p] = req[p]
    BY <1>3, <1>4 DEF Arrive
  <2>2. \/ req'[r].op = "none" /\ req'[r].seen = {}
        \/ req'[r].door = d /\ req'[r].seen = (IF op \in Reads THEN {book[what]} ELSE {})
    BY <1>3, <1>4 DEF Arrive, Idle
  <2> QED  BY <1>1, <1>4, <2>1, <2>2
<1>5. ASSUME NEW r \in Requests, Refuse(r) \/ Saved(r) \/ Find(r) \/ ReadFile(r) PROVE AtHome'
  <2>1. UNCHANGED <<env, book>>
        /\ \A p \in Requests : req'[p].op = req[p].op /\ req'[p].door = req[p].door
                               /\ req'[p].seen = req[p].seen
    <3>1. \A answer, trail, x :
             /\ [req[r] EXCEPT !.pc = "done", !.answer = answer, !.trail = @ \o trail].op = req[r].op
             /\ [req[r] EXCEPT !.pc = "done", !.answer = answer, !.trail = @ \o trail].door = req[r].door
             /\ [req[r] EXCEPT !.pc = "done", !.answer = answer, !.trail = @ \o trail].seen = req[r].seen
             /\ [req[r] EXCEPT !.pc = "found", !.dir = x].op = req[r].op
             /\ [req[r] EXCEPT !.pc = "found", !.dir = x].door = req[r].door
             /\ [req[r] EXCEPT !.pc = "found", !.dir = x].seen = req[r].seen
      BY <1>3 DEF Request
    <3>2. \/ \E answer, trail : Answer(r, answer, trail)
          \/ \E x : req' = [req EXCEPT ![r].pc = "found", ![r].dir = x]
      BY <1>5, Zenon DEF Refuse, Saved, Find, ReadFile
    <3>3. CASE \E answer, trail : Answer(r, answer, trail)
      BY <1>3, <1>5, <3>1, <3>3 DEF Answer, Refuse, Saved, Find, ReadFile
    <3>4. CASE \E x : req' = [req EXCEPT ![r].pc = "found", ![r].dir = x]
      BY <1>3, <1>5, <3>1, <3>4 DEF Refuse, Saved, Find, ReadFile
    <3> QED  BY <3>2, <3>3, <3>4
  <2> QED  BY <1>1, <2>1
<1>6. ASSUME NEW r \in Requests, Open(r) PROVE AtHome'
  <2>1. req[r].op = "save" /\ env' = env
        /\ Write(SavedDir(req[r].door), Slug[req[r].what], Empty, Unsure)
    BY <1>6 DEF Open
  <2> QED  BY <1>6, <2>1, OpenWrote, WroteAtHome
<1>7. ASSUME NEW r \in Requests, Fill(r) PROVE AtHome'
  <2>1. req[r].op = "save" /\ env' = env /\ req[r].dir = SavedDir(req[r].door)
        /\ \E c, e : Write(req[r].dir, Slug[req[r].what], c, e)
    BY <1>7 DEF Fill, Kept, Right
  <2> QED  BY <1>7, <2>1, FillWrote, WroteAtHome
<1>8. ASSUME NEW d \in Doors, Crash(d) PROVE AtHome'
  <2>1. UNCHANGED <<env, book>>
        /\ \A p \in Requests : req'[p].op = req[p].op /\ req'[p].door = req[p].door
                               /\ req'[p].seen = req[p].seen
    BY <1>3, <1>8 DEF Crash, Request
  <2> QED  BY <1>1, <2>1
<1> QED  BY <1>2, <1>4, <1>5, <1>6, <1>7, <1>8 DEF Next, RequestStep, Reads

\* Where all processes save into one directory, no save is hidden: every read of any
\* process that met no write under way answers with the last save of any.
OneHome == \A d, e \in Doors : SavedDir(d) = SavedDir(e)
ReadsAnySave ==
    OneHome =>
      \A r \in Requests :
        /\ req[r].op \in Reads /\ req[r].pc = "done" /\ "ok" \in Range(req[r].trail)
        /\ ~Met(req[r])
        => Current(req[r])

THEOREM OneHomeReadsAnySave == Spec => []ReadsAnySave
<1>1. Init => AtHome
  BY DEF Init, AtHome, InHomes, Idle
<1>2. Kept /\ AtHome => ReadsAnySave
  <2> SUFFICES ASSUME Kept, AtHome, OneHome, NEW r \in Requests,
                      req[r].op \in Reads, req[r].pc = "done", "ok" \in Range(req[r].trail),
                      ~Met(req[r])
               PROVE  Current(req[r])
    BY DEF ReadsAnySave
  <2>1. req[r].door \in Doors
    BY DEF AtHome, Reads
  <2>2. \A d \in Doors : SavedDir(d) = SavedDir(req[r].door)
    BY <2>1 DEF OneHome
  <2>3. ~Hidden(req[r])
    BY <2>2 DEF AtHome, InHomes, Homes, Hidden
  <2> QED  BY <2>3 DEF Kept, ReadsLastSave
<1> QED  BY <1>1, <1>2, NextAtHome, AlwaysKept, PTL DEF Spec

\* Every file that is not as shipped has an author who ranked steward and whose
\* admission was audited, at whatever front door, and after any crash.
THEOREM AlwaysAudited == Spec => []AuditedWrites
<1>1. Kept => AuditedWrites
  BY DEF Kept
<1> QED  BY <1>1, AlwaysKept, PTL

\* The web app and the MCP server over HTTP, for every credential and every deployment
\* that configures them alike, admit the same callers to the same operations.
THEOREM DoorsAlwaysAgree == Spec => []DoorsAgree
<1>1. Kept => DoorsAgree
  <2> SUFFICES ASSUME Kept, OneConfiguration PROVE env \in Agreeing
    BY DEF DoorsAgree
  <2>1. env \in Environments
    BY DEF Kept, Shape
  <2>2. Admitted(env, "web") = Admitted(env, "http")
    BY DoorsAlike DEF Admitted
  <2> QED  BY <2>1, <2>2 DEF Agreeing
<1> QED  BY <1>1, AlwaysKept, PTL

\* The types of the store and of every request, at any number of them.
THEOREM StoreTypeCorrect == Spec => []TypeOK
<1>1. Kept => TypeOK
  <2> SUFFICES ASSUME Kept PROVE TypeOK
    OBVIOUS
  <2>1. Shape /\ \A r \in Requests : req[r] \in Request /\ Right(req[r])
    BY DEF Kept, Shape
  <2>2. ASSUME NEW r \in Requests
        PROVE  /\ req[r].pc \in Steps /\ req[r].role \in Roles
               /\ req[r].dir \in Dirs \cup {"none"} /\ req[r].answer \in Answers
    BY <2>1, <2>2 DEF Request
  <2>3. ASSUME NEW r \in Requests, req[r].pc \in {"opened", "overlapped", "written", "found"}
        PROVE  req[r].dir \in Dirs
    BY <2>1, <2>3, SavedDirType DEF Right, Dirs
  <2>4. \A r \in Requests : (req[r].answer # "none") <=> (req[r].pc = "done")
    BY <2>1 DEF Right
  <2> QED  BY <2>1, <2>2, <2>3, <2>4 DEF TypeOK, Shape
<1> QED  BY <1>1, AlwaysKept, PTL
=============================================================================
