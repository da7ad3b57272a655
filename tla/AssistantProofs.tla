--------------------------- MODULE AssistantProofs ---------------------------
(***************************************************************************)
(* Proofs about Assistant: for any threads, backends, libraries, drafts    *)
(* and bounds, the backend a request asks is the one configured, and what  *)
(* the answers promise is kept.                                            *)
(***************************************************************************)
EXTENDS Assistant, FiniteSetTheorems, WellFoundedInduction, TLAPS

Points == {"idle", "test", "choose", "keep", "return", "use", "write", "repair"}

\* The variables the race is about, and where each is.
Shape ==
    /\ backend \in Backends
    /\ memo \in Backends \cup {None}
    /\ overtaken \in BOOLEAN
    /\ at \in [Procs -> Points]
    /\ held \in [Procs -> Backends \cup {None}]

\* What is about to be stored is a provider, and the loop's is the configured one.
ToStore ==
    /\ \A p \in Procs : at[p] = "keep" => held[p] \in Backends
    /\ at[Loop] = "keep" => held[Loop] = backend

\* Between saves, unless one was overtaken: the memo and what the threads are about
\* to store in it are of the configured backend.
MemoCurrent ==
    at[Loop] # "write" /\ ~overtaken =>
        /\ memo \in {None, backend}
        /\ \A p \in Probes : at[p] = "keep" => held[p] = backend

\* The loop finds the memo set when it returns it: nobody else resets it.
LoopHolds ==
    /\ at[Loop] = "return" => memo # None
    /\ at[Loop] \in {"use", "repair"} =>
          held[Loop] # None /\ (held[Loop] = backend \/ overtaken)

Configured == Shape /\ ToStore /\ MemoCurrent /\ LoopHolds

\* At first no provider is remembered.
LEMMA InitConfigured == Init => Configured
<1> SUFFICES ASSUME Init PROVE Configured
  OBVIOUS
<1>1. /\ backend \in Backends /\ memo = None /\ overtaken = FALSE
      /\ at = [p \in Procs |-> "idle"] /\ held = [p \in Procs |-> None] /\ Loop \in Procs
      /\ Probes \subseteq Procs
  BY DEF Init, Procs
<1> QED  BY <1>1 DEF Configured, Shape, ToStore, MemoCurrent, LoopHolds, Points

\* The four accesses of get_provider on the event loop keep the memo of the configured
\* backend.
LEMMA GetProviderConfigured ==
  ASSUME Configured, NEW p \in Procs, GetProvider(p)
  PROVE  Configured'
<1> USE AssistantAssumption DEF Configured, Shape, ToStore, MemoCurrent, LoopHolds, Procs, Points,
        Goto, memoVars
<1>1. CASE Test(p)  BY <1>1 DEF Test
<1>2. CASE Choose(p)  BY <1>2 DEF Choose
<1>3. CASE Keep(p)  BY <1>3 DEF Keep
<1>4. CASE Return(p)  BY <1>4 DEF Return
<1> QED  BY <1>1, <1>2, <1>3, <1>4 DEF GetProvider

\* A probing thread stores what it chose: the configured backend's, or a save has
\* overtaken it.
LEMMA ProbeConfigured ==
  ASSUME Configured, NEW p \in Probes, ProbeStep(p)
  PROVE  Configured'
<1> USE AssistantAssumption DEF Configured, Shape, ToStore, MemoCurrent, LoopHolds, Procs, Points,
        Goto, memoVars
<1>1. CASE GetProvider(p)  BY <1>1, GetProviderConfigured DEF Procs
<1>2. CASE Probe(p) /\ UNCHANGED memoVars  BY <1>2 DEF Probe
<1>3. CASE ProbeEnds(p) /\ UNCHANGED memoVars  BY <1>3 DEF ProbeEnds
<1> QED  BY <1>1, <1>2, <1>3 DEF ProbeStep

\* A save that ends resets the memo; one that cannot write .env leaves it
\* overtaken.
LEMMA SaveConfigured ==
  ASSUME Configured, (\E b \in Backends : Save(b)) \/ Reset \/ WriteFails
  PROVE  Configured'
<1> USE AssistantAssumption DEF Configured, Shape, ToStore, MemoCurrent, LoopHolds, Procs, Points, Goto
<1>1. CASE \E b \in Backends : Save(b)  BY <1>1 DEF Save
<1>2. CASE Reset  BY <1>2 DEF Reset, Behind
<1>3. CASE WriteFails  BY <1>3 DEF WriteFails, Behind
<1> QED  BY <1>1, <1>2, <1>3

\* The steps of a request on the event loop, its arrival or that of a save included.
LEMMA RequestConfigured ==
  ASSUME Configured,
         \/ Arrives
         \/ at[Loop] = "use" /\ CompletionFails /\ UNCHANGED memoVars
         \/ (\E draft \in Drafts : Draft(draft)) /\ UNCHANGED memoVars
         \/ Repair /\ UNCHANGED memoVars
         \/ Explained /\ UNCHANGED memoVars
  PROVE  Configured'
<1> USE AssistantAssumption DEF Configured, Shape, ToStore, MemoCurrent, LoopHolds, Procs, Points,
        Goto, memoVars
<1>1. ASSUME NEW kind, NEW request, Begin(kind, request)
      PROVE  Configured'
  BY <1>1 DEF Begin
<1>2. CASE Arrives
  BY <1>1, <1>2, SaveConfigured DEF Arrives
<1>3. ASSUME at[Loop] = "use", Goto(Loop, "idle"), held' = [held EXCEPT ![Loop] = None],
             UNCHANGED memoVars
      PROVE  Configured'
  BY <1>3
<1>4. CASE at[Loop] = "use" /\ CompletionFails /\ UNCHANGED memoVars
  BY <1>3, <1>4 DEF CompletionFails, Answer
<1>5. ASSUME NEW draft \in Drafts, Draft(draft), UNCHANGED memoVars
      PROVE  Configured'
  <2>1. /\ at[Loop] = "use" /\ held[Loop] # None
        /\ \/ Goto(Loop, "idle") /\ held' = [held EXCEPT ![Loop] = None]
           \/ Goto(Loop, "repair") /\ held' = held
    BY <1>5 DEF Draft, Answering, Answer, Judge
  <2>2. CASE Goto(Loop, "repair") /\ held' = held
    BY <1>5, <2>1, <2>2
  <2> QED  BY <1>3, <1>5, <2>1, <2>2
<1>6. CASE Repair /\ UNCHANGED memoVars
  BY <1>6 DEF Repair
<1>7. CASE Explained /\ UNCHANGED memoVars
  BY <1>3, <1>7 DEF Explained, Answering, Answer
<1> QED  BY <1>2, <1>4, <1>5, <1>6, <1>7

\* Every step keeps the memo of the configured backend, unless it is overtaken.
LEMMA NextConfigured == Configured /\ [Next]_vars => Configured'
<1> SUFFICES ASSUME Configured, [Next]_vars PROVE Configured'
  OBVIOUS
<1>1. CASE Arrives
  BY <1>1, RequestConfigured
<1>2. CASE LoopStep
  BY <1>2, GetProviderConfigured, RequestConfigured, SaveConfigured DEF LoopStep, Procs
<1>3. CASE \E p \in Probes : ProbeStep(p)
  BY <1>3, ProbeConfigured
<1>4. CASE UNCHANGED vars
  BY <1>4 DEF vars, memoVars, procVars, Configured, Shape, ToStore, MemoCurrent, LoopHolds
<1> QED  BY <1>1, <1>2, <1>3, <1>4 DEF Next

\* Wherever a save falls among the reads and writes of get_provider, in the loop and
\* in any number of probing threads, a request asks the backend that is configured,
\* unless a probe overtook the reset or .env could not be written.
THEOREM AlwaysAsksConfigured == Spec => []AsksConfigured
<1>1. Configured => AsksConfigured
  BY DEF Configured, LoopHolds, AsksConfigured
<1> QED  BY <1>1, InitConfigured, NextConfigured, PTL DEF Spec

------------------------------------------------------------------------------
(* The answers. *)

\* The least number principle, for a set of positions.
LEMMA LeastPosition ==
  ASSUME NEW S, S \subseteq Nat, S # {}
  PROVE  \E m \in S : \A k \in S : m <= k
<1> DEFINE R == OpToRel(<, Nat)
<1>1. IsWellFoundedOn(R, Nat)
  BY NatLessThanWellFounded
<1>2. \A x, y \in Nat : <<x, y>> \in R <=> x < y
  BY DEF OpToRel
<1> HIDE DEF R
<1>3. PICK m \in S : \A k \in S : ~ (<<k, m>> \in R)
  BY <1>1, WFMin
<1>4. ASSUME NEW k \in S PROVE m <= k
  <2>1. ~ (<<k, m>> \in R)
    BY <1>3
  <2>2. k \in Nat /\ m \in Nat
    OBVIOUS
  <2>3. ~ (k < m)
    BY <1>2, <2>1, <2>2
  <2> QED  BY <2>2, <2>3
<1> QED  BY <1>4

\* A set of positions that is not empty has a first one.
LEMMA FirstPosition ==
  ASSUME NEW S, S \subseteq Nat, S # {}
  PROVE  Nth(1, S) \in S
<1>1. PICK m \in S : \A k \in S : m <= k
  BY LeastPosition
<1>2. {j \in S : j <= m} = {m}
  <2>1. \A j \in S : j <= m => j = m
    BY <1>1
  <2>2. m \in Nat /\ m <= m
    OBVIOUS
  <2> QED  BY <2>1, <2>2
<1>3. Cardinality({j \in S : j <= m}) = 1
  BY <1>2, FS_Singleton
<1> QED  BY <1>3 DEF Nth

\* A set of positions of a library that is not empty has a last one.
LEMMA LastPosition ==
  ASSUME NEW n \in Nat, NEW S, S \subseteq 1..n, S # {}
  PROVE  Last(S) \in S
<1> DEFINE R == {n - i : i \in S}
<1>1. R \subseteq Nat /\ R # {}
  <2>1. \A i \in S : i \in Int /\ i <= n
    OBVIOUS
  <2>2. \A i \in S : n - i \in Nat
    BY <2>1
  <2> QED  BY <2>2
<1>2. PICK m \in R : \A k \in R : m <= k
  BY <1>1, LeastPosition
<1>3. PICK i \in S : m = n - i
  BY <1>2
<1>4. ASSUME NEW j \in S PROVE j <= i
  <2>1. n - i <= n - j
    BY <1>2, <1>3
  <2> QED  BY <2>1
<1> QED  BY <1>4 DEF Last

\* A draft without a problem renders: what _validate looks at is enough.
LEMMA ValidRenders ==
  ASSUME NEW library, library \in Seq(Items(library)), NEW spec, Validate(library, spec) = {}
  PROVE  Renders(library, spec)
<1>1. ~ \E i \in DOMAIN spec.panels : Unreadable(library, spec.panels[i])
  BY DEF Validate, Raises
<1>2. SchemaErrors(spec) = {}
  BY <1>1 DEF Validate
<1>3. \A i \in DOMAIN spec.panels : Known(library, spec.panels[i].query)
  BY <1>1 DEF Validate
<1>4. spec.section \in Sections /\ spec.panels # << >>
  BY <1>2 DEF SchemaErrors
<1>5. ASSUME NEW i \in DOMAIN spec.panels
      PROVE  /\ spec.panels[i] # NotAnObject
             /\ spec.panels[i].bindings # NotAnObject
             /\ spec.panels[i].kind = "chart" => spec.panels[i].bindings # None
  BY <1>2, <1>5 DEF SchemaErrors
<1>6. ASSUME NEW i \in DOMAIN spec.panels, spec.panels[i].bindings # None,
             NEW role \in DOMAIN spec.panels[i].bindings
      PROVE  spec.panels[i].bindings[role] \in Columns(library, spec.panels[i].query)
  <2> DEFINE p == spec.panels[i]
             unbound == {r \in DOMAIN p.bindings : p.bindings[r] \notin Columns(library, p.query)}
  <2>1. {<<"column", i, r>> : r \in unbound} \subseteq Validate(library, spec)
    BY <1>1, <1>3, <1>6 DEF Validate
  <2> QED  BY <1>6, <2>1
<1>7. ASSUME NEW i \in DOMAIN spec.panels
      PROVE  \E j \in DOMAIN library :
               /\ library[j].name = spec.panels[i].query
               /\ Columns(library, spec.panels[i].query) = Items(library[j].columns)
  <2> DEFINE named == Named(library, spec.panels[i].query)
  <2>1. Len(library) \in Nat /\ named \subseteq 1..Len(library) /\ named # {}
    BY <1>3 DEF Known, Named
  <2>2. Last(named) \in named
    <3> HIDE DEF named
    <3> QED  BY <2>1, LastPosition
  <2>3. Last(named) \in DOMAIN library /\ library[Last(named)].name = spec.panels[i].query
    BY <2>2 DEF Named
  <2> QED  BY <2>3 DEF Columns
<1>8. ASSUME NEW i \in DOMAIN spec.panels
      PROVE  \E j \in DOMAIN library :
               /\ library[j].name = spec.panels[i].query
               /\ spec.panels[i].bindings # None => \A role \in DOMAIN spec.panels[i].bindings :
                    \E c \in DOMAIN library[j].columns :
                       library[j].columns[c] = spec.panels[i].bindings[role]
  BY <1>6, <1>7 DEF Items
<1> QED  BY <1>4, <1>5, <1>8 DEF Renders

\* The offline builder's draft is valid (chat_build.py:108), its table of last
\* resort included.
LEMMA DemoValid ==
  ASSUME NEW mentioned, NEW section, mentioned \subseteq Sections
  PROVE  Validate(QueryCatalog, DemoBuild(mentioned, section)) = {}
<1> DEFINE in == IF section \in Sections THEN section ELSE KeywordSection(mentioned)
           own == {i \in DOMAIN QueryCatalog : QueryCatalog[i].group = in}
           from == IF own # {} THEN own ELSE DOMAIN QueryCatalog
           head == QueryCatalog[Nth(1, from)].name
           plain == [section |-> in, panels |-> <<Panel("table", head, None)>>]
<1>1. in \in Sections
  <2> DEFINE order == <<"sensitivity", "quality", "governance", "system", "user">>
             found == {i \in DOMAIN order : order[i] \in mentioned}
  <2>1. CASE found # {}
    <3>1. Nth(1, found) \in found
      BY <2>1, FirstPosition
    <3> QED  BY <3>1 DEF KeywordSection
  <2>2. CASE found = {}
    BY <2>2 DEF KeywordSection, Sections
  <2> QED  BY <2>1, <2>2
<1>2. DOMAIN QueryCatalog \subseteq Nat /\ DOMAIN QueryCatalog # {}
  BY CatalogAssumption
<1>3. Nth(1, from) \in DOMAIN QueryCatalog
  BY <1>2, FirstPosition
<1>4. Known(QueryCatalog, head) /\ Panel("table", head, None) # NotAnObject /\ None # NotAnObject
  BY <1>3, CatalogAssumption DEF Known, Named
<1> HIDE DEF in, head
<1>5. Validate(QueryCatalog, plain) = {}
  <2>1. plain.section = in /\ plain.panels = <<Panel("table", head, None)>>
    OBVIOUS
  <2>2. SchemaErrors(plain) = {}
    BY <1>1, <1>4, <2>1 DEF SchemaErrors, Panel, Kinds
  <2>3. ~ Unreadable(QueryCatalog, Panel("table", head, None))
    BY <1>4 DEF Unreadable, Panel
  <2> QED  BY <1>4, <2>1, <2>2, <2>3 DEF Validate, Panel
<1> QED  BY <1>5 DEF DemoBuild, in, head

\* A spec in an answer keeps the promise, of the library that was asked.
Promised(library, r) ==
    "spec" \in DOMAIN r =>
      /\ r.valid => Renders(library, r.spec)
      /\ r.valid \/ r.errors # {}
      /\ r.by = "demo" => r.valid

\* While a request is under way there is no answer yet, and what chat drafts from is
\* one of the things it may be told; no answer to chat or explain is an error.
Kept ==
    /\ Promised(Library, reply)
    /\ at \in [Procs -> Points]
    /\ at[Loop] \notin {"idle", "write"} =>
         /\ task \in {"generate", "chat", "explain"}
         /\ task = "chat" => asked \in Asks
         /\ task = "generate" => asked.library \in Libraries
    /\ task \in {"chat", "explain"} => reply.by # "error"

\* The offline answers keep the promise of their request.
LEMMA FallbackPromised ==
  ASSUME NEW kind \in {"generate", "chat", "explain"}, NEW request,
         kind = "chat" => request \in Asks
  PROVE  /\ Promised(QueryCatalog, Fallback(kind, request))
         /\ kind = "generate" => \A l : Promised(l, Fallback(kind, request))
         /\ kind \in {"chat", "explain"} => Fallback(kind, request).by # "error"
<1>1. CASE kind = "chat"
  <2> DEFINE spec == DemoBuild(request.mentioned, request.section)
  <2>1. request.mentioned \subseteq Sections
    BY <1>1, AssistantAssumption
  <2>2. Validate(QueryCatalog, spec) = {}
    BY <2>1, DemoValid
  <2>3. Renders(QueryCatalog, spec)
    BY <2>2, ValidRenders, CatalogAssumption
  <2>4. Fallback(kind, request) = Drafted("demo", spec, Validate(QueryCatalog, spec))
    BY <1>1 DEF Fallback, OfflineDraft
  <2>5. Fallback(kind, request) = [by |-> "demo", spec |-> spec, valid |-> TRUE, errors |-> {}]
    BY <2>2, <2>4 DEF Drafted
  <2> HIDE DEF spec
  <2> QED  BY <1>1, <2>3, <2>5 DEF Promised
<1>2. CASE kind = "explain"
  BY <1>2 DEF Fallback, Notes, Promised
<1>3. CASE kind = "generate"
  BY <1>3 DEF Fallback, BadGateway, Promised
<1> QED  BY <1>1, <1>2, <1>3

\* So does what a judged draft is answered with.
LEMMA JudgedPromised ==
  ASSUME NEW library, library \in Seq(Items(library)), NEW draft, NEW errors,
         errors = Validate(library, draft)
  PROVE  /\ Promised(library, Drafted("model", draft, errors))
         /\ Drafted("model", draft, errors).by # "error"
<1>1. errors = {} => Renders(library, draft)
  BY ValidRenders
<1> QED  BY <1>1 DEF Promised, Drafted

\* Nothing was asked to begin with.
LEMMA InitKept == Init => Kept
<1> SUFFICES ASSUME Init PROVE Kept
  OBVIOUS
<1>1. reply = NoReply /\ at = [p \in Procs |-> "idle"] /\ Loop \in Procs
  BY DEF Init, Procs
<1> QED  BY <1>1 DEF Kept, Promised, NoReply, Points

\* The steps of a request that is under way.
LEMMA LoopKept ==
  ASSUME Kept, LoopStep
  PROVE  Kept'
<1> USE DEF Goto, Procs, Points
<1>1. ASSUME UNCHANGED requestVars, at' \in [Procs -> Points],
             at'[Loop] \notin {"idle", "write"} => at[Loop] \notin {"idle", "write"}
      PROVE  Kept'
  BY <1>1 DEF Kept, requestVars, Promised, Library
<1>2. CASE GetProvider(Loop) /\ UNCHANGED requestVars
  <2>1. at[Loop] \in {"test", "choose", "keep", "return"} /\ at' \in [Procs -> Points]
    BY <1>2 DEF GetProvider, Test, Choose, Keep, Return, Kept
  <2> QED  BY <1>1, <1>2, <2>1
<1>3. CASE Repair
  BY <1>1, <1>3 DEF Repair, Kept
<1>4. CASE Reset \/ WriteFails
  BY <1>1, <1>4 DEF Reset, WriteFails, Kept, requestVars
<1>5. ASSUME at[Loop] = "use", Answer(reply'), Promised(Library, reply'),
             task \in {"chat", "explain"} => reply'.by # "error"
      PROVE  Kept'
  <2>1. Library' = Library
    BY <1>5 DEF Answer, Library
  <2> QED  BY <1>5, <2>1 DEF Answer, Kept, Promised
<1>6. ASSUME at[Loop] = "use"
      PROVE  /\ Promised(Library, Fallback(task, asked))
             /\ task \in {"chat", "explain"} => Fallback(task, asked).by # "error"
  <2>1. task \in {"generate", "chat", "explain"} /\ (task = "chat" => asked \in Asks)
    BY <1>6 DEF Kept
  <2> QED  BY <2>1, FallbackPromised DEF Library
<1>7. CASE at[Loop] = "use" /\ CompletionFails
  <2>1. reply' = Fallback(task, asked) /\ Answer(reply')
    BY <1>7 DEF CompletionFails, Answer
  <2> QED  BY <1>5, <1>6, <1>7, <2>1
<1>8. ASSUME NEW draft \in Drafts, Draft(draft)
      PROVE  Kept'
  <2>1. /\ at[Loop] = "use" /\ Library \in Libraries /\ Library \in Seq(Items(Library))
        /\ Problems[Library][draft] = Validate(Library, draft)
    <3>1. at[Loop] = "use" /\ (task = "generate" => asked.library \in Libraries)
      BY <1>8 DEF Draft, Answering, Kept
    <3>2. Library \in Libraries /\ Library \in Seq(Items(Library))
      BY <3>1, AssistantAssumption DEF Library
    <3> HIDE DEF Library
    <3> QED  BY <3>1, <3>2 DEF Problems
  <2>2. CASE Answer(Fallback(task, asked))
    <3>1. reply' = Fallback(task, asked) /\ Answer(reply')
      BY <2>2 DEF Answer
    <3> QED  BY <1>5, <1>6, <2>1, <3>1
  <2>3. CASE Judge(draft, Problems[Library][draft])
    <3>1. reply' = Drafted("model", draft, Problems[Library][draft]) /\ Answer(reply')
      BY <2>3 DEF Judge, Answer
    <3> QED  BY <1>5, <2>1, <3>1, JudgedPromised
  <2>4. CASE Goto(Loop, "repair") /\ UNCHANGED <<task, asked, reply>>
    BY <2>1, <2>4 DEF Kept, Promised, Library
  <2> QED  BY <1>8, <2>2, <2>3, <2>4 DEF Draft
<1>9. CASE Explained
  <2>1. at[Loop] = "use" /\ reply' = Prose /\ Answer(reply')
    BY <1>9 DEF Explained, Answering, Answer
  <2> QED  BY <1>5, <2>1 DEF Promised, Prose
<1> QED  BY <1>2, <1>3, <1>4, <1>7, <1>8, <1>9 DEF LoopStep

\* A request or a save that arrives.
LEMMA ArrivalKept ==
  ASSUME Kept, Arrives
  PROVE  Kept'
<1> USE DEF Goto, Procs, Points
<1>1. ASSUME NEW b \in Backends, Save(b)
      PROVE  Kept'
  BY <1>1 DEF Save, Kept, requestVars, Promised, Library
<1>2. ASSUME NEW kind \in {"generate", "chat", "explain"}, NEW request, Begin(kind, request),
             kind = "chat" => request \in Asks, kind = "generate" => request.library \in Libraries
      PROVE  Kept'
  <2>1. /\ kind # "generate" => Promised(QueryCatalog, Fallback(kind, request))
        /\ kind \in {"chat", "explain"} => Fallback(kind, request).by # "error"
    BY <1>2, FallbackPromised
  <2>2. task' = kind /\ asked' = request
    BY <1>2 DEF Begin
  <2>5. kind # "generate" => Library' = QueryCatalog
    BY <2>2 DEF Library
  <2>3. CASE backend = "disabled" /\ kind # "generate"
    <3>1. reply' = Fallback(kind, request) /\ at' = at /\ at[Loop] = "idle"
      BY <1>2, <2>3 DEF Begin
    <3> QED  BY <2>1, <2>2, <2>3, <2>5, <3>1 DEF Kept, Promised
  <2>4. CASE ~(backend = "disabled" /\ kind # "generate")
    <3>1. reply' = NoReply /\ at' = [at EXCEPT ![Loop] = "test"]
      BY <1>2, <2>4 DEF Begin
    <3>2. Promised(Library', reply') /\ reply'.by # "error"
      BY <3>1 DEF Promised, NoReply
    <3> QED  BY <1>2, <2>2, <3>1, <3>2 DEF Kept, Promised
  <2> QED  BY <2>3, <2>4
<1> QED  BY <1>1, <1>2 DEF Arrives

\* Every step keeps the promises.
LEMMA NextKept == Kept /\ [Next]_vars => Kept'
<1> SUFFICES ASSUME Kept, [Next]_vars PROVE Kept'
  OBVIOUS
<1>1. CASE Arrives
  BY <1>1, ArrivalKept
<1>2. CASE LoopStep
  BY <1>2, LoopKept
<1>3. ASSUME NEW p \in Probes, ProbeStep(p)
      PROVE  Kept'
  <2>1. UNCHANGED requestVars /\ at' \in [Procs -> Points] /\ at'[Loop] = at[Loop]
    BY <1>3, AssistantAssumption DEF ProbeStep, GetProvider, Test, Choose, Keep, Return, Probe,
       ProbeEnds, Goto, Kept, Procs, Points
  <2> QED  BY <2>1 DEF Kept, requestVars, Promised, Library
<1>4. CASE UNCHANGED vars
  BY <1>4 DEF vars, procVars, requestVars, Kept, Promised, Library
<1> QED  BY <1>1, <1>2, <1>3, <1>4 DEF Next

\* Whatever the model drafts and however its calls fail: an answer called valid would
\* render, an offline draft is always valid, and chat and explain never fail.
THEOREM AlwaysAnswersKept == Spec => []AnswersKept
<1>1. Kept => AnswersKept
  BY DEF Kept, Promised, AnswersKept
<1> QED  BY <1>1, InitKept, NextKept, PTL DEF Spec
=============================================================================
