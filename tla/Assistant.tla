------------------------------ MODULE Assistant ------------------------------
(***************************************************************************)
(* The requests that ask a language model (routes generate, chat and       *)
(* explain; app/generator.py, app/explain.py, app/llm): they share one     *)
(* memoised provider with the probes of /health/llm, and a save resets it. *)
(*                                                                         *)
(* The handlers that are async run on the event loop, one at a time and    *)
(* blocking; the probes run in threads, which may be preempted at any      *)
(* access to the memo.  A save here is one of the provider's kind.         *)
(***************************************************************************)
EXTENDS ChatBuild

CONSTANTS
    Loop,         \* the event loop
    Probes,       \* threads that serve /health/llm
    Backends,     \* what LLM_PROVIDER may be, "disabled" among them
    Drafts,       \* specs that a completion may parse to
    Libraries,    \* what a generation may be grounded on: QueryCatalog or its own
    Asks,         \* what a chat says: the sections its keywords name, and its section
    MaxRequests,  \* bound: requests of the loop
    MaxProbes     \* bound: probes of each thread

ASSUME AssistantAssumption ==
    /\ Loop \notin Probes
    /\ "disabled" \in Backends /\ None \notin Backends
    /\ QueryCatalog \in Libraries
    /\ \A l \in Libraries : l \in Seq(Items(l)) \ {<< >>}
    /\ \A a \in Asks : a.mentioned \subseteq Sections /\ a.section \in Sections \cup {None}

VARIABLES
    backend,   \* settings.llm.provider, and LLM_PROVIDER
    memo,      \* provider._cache
    at,        \* of the loop and of each thread: where it is
    held,      \* the provider each has in hand, or is about to build
    task,      \* of the loop: "generate", "chat" or "explain"
    asked,     \* of the loop: what a chat says, the library of a generation
    tries,     \* completions that this request has had and rejected
    reply,     \* the loop's last answer
    overtaken, \* history: a probe is to store, or has stored, a provider of a
               \* backend that a save replaced, or a save failed before the reset
    requests, probes

memoVars == <<backend, memo, overtaken>>
procVars == <<at, held>>
requestVars == <<task, asked, tries, reply>>
vars == <<memoVars, procVars, requestVars, requests, probes>>

Procs == Probes \cup {Loop}
NoReply == [by |-> "nobody"]
NoAsk == [mentioned |-> {}, section |-> None]

Init ==
    /\ backend \in Backends
    /\ memo = None
    /\ overtaken = FALSE
    /\ at = [p \in Procs |-> "idle"]
    /\ held = [p \in Procs |-> None]
    /\ task = "chat" /\ asked = NoAsk
    /\ tries = 0
    /\ reply = NoReply
    /\ requests = 0 /\ probes = [p \in Probes |-> 0]

Goto(p, point) == at' = [at EXCEPT ![p] = point]

------------------------------------------------------------------------------
(* get_provider, whose every access to _cache is a step. *)

Test(p) ==
    /\ at[p] = "test"
    /\ Goto(p, IF memo # None THEN "return" ELSE "choose")
    /\ UNCHANGED <<memoVars, held>>

Choose(p) ==
    /\ at[p] = "choose"
    /\ held' = [held EXCEPT ![p] = backend]
    /\ Goto(p, "keep")
    /\ UNCHANGED memoVars

Keep(p) ==
    /\ at[p] = "keep"
    /\ memo' = held[p]
    /\ Goto(p, "return")
    /\ UNCHANGED <<backend, overtaken, held>>

Return(p) ==
    /\ at[p] = "return"
    /\ held' = [held EXCEPT ![p] = memo]
    /\ Goto(p, "use")
    /\ UNCHANGED memoVars

GetProvider(p) == Test(p) \/ Choose(p) \/ Keep(p) \/ Return(p)

------------------------------------------------------------------------------
(* A probe: health() of what get_provider returned; of None it fails. *)

Probe(p) ==
    /\ at[p] = "idle" /\ probes[p] < MaxProbes
    /\ Goto(p, "test")
    /\ probes' = [probes EXCEPT ![p] = @ + 1]
    /\ UNCHANGED held

ProbeEnds(p) ==
    /\ at[p] = "use"
    /\ Goto(p, "idle")
    /\ held' = [held EXCEPT ![p] = None]
    /\ UNCHANGED probes

ProbeStep(p) ==
    \/ GetProvider(p) /\ UNCHANGED <<requestVars, requests, probes>>
    \/ (Probe(p) \/ ProbeEnds(p)) /\ UNCHANGED <<memoVars, requestVars, requests>>

------------------------------------------------------------------------------
(* A save (apply_settings): the live field, .env, then the reset. *)

Save(b) ==
    /\ at[Loop] = "idle" /\ requests < MaxRequests
    /\ requests' = requests + 1
    /\ backend' = b
    /\ Goto(Loop, "write")
    /\ UNCHANGED <<memo, overtaken, held, requestVars, probes>>

Behind(p) == at[p] = "keep" /\ held[p] # backend

\* Mutant: a save leaves the memo.
ResetNever ==
    /\ at[Loop] = "write"
    /\ overtaken' = \E p \in Probes : Behind(p)
    /\ Goto(Loop, "idle")
    /\ UNCHANGED <<backend, memo, held, requestVars, requests, probes>>
Reset ==
    /\ at[Loop] = "write"
    /\ memo' = None
    /\ overtaken' = \E p \in Probes : Behind(p)
    /\ Goto(Loop, "idle")
    /\ UNCHANGED <<backend, held, requestVars, requests, probes>>

\* .env cannot be written: the request fails with the field live and nothing reset.
WriteFails ==
    /\ at[Loop] = "write"
    /\ overtaken' = (overtaken \/ memo \notin {None, backend} \/ \E p \in Probes : Behind(p))
    /\ Goto(Loop, "idle")
    /\ UNCHANGED <<backend, memo, held, requestVars, requests, probes>>

------------------------------------------------------------------------------
(* The loop's requests. *)

Drafted(by, spec, errors) == [by |-> by, spec |-> spec, valid |-> errors = {}, errors |-> errors]
OfflineDraft == [a \in Asks |->
    LET spec == DemoBuild(a.mentioned, a.section)
    IN  Drafted("demo", spec, Validate(QueryCatalog, spec))]
Notes == [by |-> "notes"]
Prose == [by |-> "model"]
BadGateway == [by |-> "error"]

\* What a task answers when there is no completion: chat drafts offline, explain has
\* its notes, generate has nothing.
Fallback(kind, request) ==
    CASE kind = "chat" -> OfflineDraft[request]
      [] kind = "explain" -> Notes
      [] kind = "generate" -> BadGateway

Begin(kind, request) ==
    /\ at[Loop] = "idle" /\ requests < MaxRequests
    /\ requests' = requests + 1
    /\ task' = kind /\ asked' = request /\ tries' = 0
    /\ IF backend = "disabled" /\ kind # "generate"
       THEN reply' = Fallback(kind, request) /\ UNCHANGED at
       ELSE reply' = NoReply /\ Goto(Loop, "test")
    /\ UNCHANGED <<memoVars, held, probes>>

Answer(r) ==
    /\ reply' = r
    /\ Goto(Loop, "idle")
    /\ held' = [held EXCEPT ![Loop] = None]
    /\ UNCHANGED <<task, asked, tries>>

\* The provider is disabled or unreachable, or what it says cannot be parsed.
CompletionFails == Answer(Fallback(task, asked))

Answering == at[Loop] = "use" /\ held[Loop] \notin {None, "disabled"}

\* Mutant: a repaired draft is taken for valid.
JudgeFirst(draft, errors) == Answer(Drafted("model", draft, IF tries = 0 THEN errors ELSE {}))
Judge(draft, errors) == Answer(Drafted("model", draft, errors))

\* Mutant: a draft is repaired until it is valid.
MayRepairAlways == TRUE
\* One repair.
MayRepair == tries = 0

\* A generation is grounded on the library that it brings, or on QueryCatalog; a chat
\* on QueryCatalog.
Library == IF task = "generate" THEN asked.library ELSE QueryCatalog
Problems == [l \in Libraries |-> [draft \in Drafts |-> Validate(l, draft)]]

\* A draft is validated against the library it was grounded on; one that cannot be read
\* raises, a wrong one is shown to the model again once.
Draft(draft) ==
    LET errors == Problems[Library][draft]
    IN  /\ Answering /\ task # "explain"
        /\ CASE errors = Raises -> Answer(Fallback(task, asked))
             [] errors # Raises /\ errors # {} /\ MayRepair ->
                   /\ tries' = 1
                   /\ Goto(Loop, "repair")
                   /\ UNCHANGED <<held, task, asked, reply>>
             [] OTHER -> Judge(draft, errors)

\* The problems are put to the same provider.
Repair ==
    /\ at[Loop] = "repair"
    /\ Goto(Loop, "use")
    /\ UNCHANGED <<held, requestVars>>

Explained == Answering /\ task = "explain" /\ Answer(Prose)

LoopStep ==
    \/ GetProvider(Loop) /\ UNCHANGED <<requestVars, requests, probes>>
    \/ /\ \/ at[Loop] = "use" /\ CompletionFails
          \/ \E draft \in Drafts : Draft(draft)
          \/ Repair
          \/ Explained
       /\ UNCHANGED <<memoVars, requests, probes>>
    \/ Reset
    \/ WriteFails

Arrives ==
    \/ \E b \in Backends : Save(b)
    \/ \E library \in Libraries : Begin("generate", [library |-> library])
    \/ Begin("explain", NoAsk)
    \/ \E a \in Asks : Begin("chat", a)

Next == Arrives \/ LoopStep \/ \E p \in Probes : ProbeStep(p)

\* What the loop has begun it goes on with: a completion ends within its timeout.
\* Nothing obliges a request to arrive or a thread to be scheduled.
Spec == Init /\ [][Next]_vars /\ WF_vars(LoopStep)

------------------------------------------------------------------------------
(* Properties. *)

\* Every query and every column of a spec exists in a library, stated apart from
\* _validate.
Renders(library, spec) ==
    /\ spec.section \in Sections
    /\ spec.panels # << >>
    /\ \A i \in DOMAIN spec.panels :
         LET p == spec.panels[i]
         IN  /\ p # NotAnObject
             /\ p.bindings # NotAnObject
             /\ p.kind = "chart" => p.bindings # None
             /\ \E j \in DOMAIN library :
                  /\ library[j].name = p.query
                  /\ p.bindings # None => \A role \in DOMAIN p.bindings :
                       \E c \in DOMAIN library[j].columns :
                          library[j].columns[c] = p.bindings[role]

\* What an answer promises: a spec called valid would render from the library it was
\* asked of, a repair or not; one that is not comes with its errors; an offline draft is
\* always valid (chat_build.py:108); and chat and explain never answer with an error,
\* whatever the provider does (chat.py:54, explain.py:11).
AnswersKept ==
    /\ "spec" \in DOMAIN reply =>
         /\ reply.valid => Renders(Library, reply.spec)
         /\ reply.valid \/ reply.errors # {}
         /\ reply.by = "demo" => reply.valid
    /\ at[Loop] = "idle" /\ requests > 0 /\ task \in {"chat", "explain"} => reply.by # "error"

\* A request asks the backend that is configured: no save leaves it an old memo,
\* and none that a thread took away is met.  Excepted is the time until the next
\* save where a probe builds a provider while a save resets the memo, which
\* provider.py:61-72 does not exclude, or where a save could not write .env.
AsksConfigured ==
    at[Loop] = "use" => held[Loop] # None /\ (held[Loop] = backend \/ overtaken)

\* The event loop is free again after every request and every save: two
\* completions at most (generator.py:125-134).
RequestsEnd == at[Loop] # "idle" ~> at[Loop] = "idle"
=============================================================================
