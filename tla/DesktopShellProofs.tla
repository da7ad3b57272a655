-------------------------- MODULE DesktopShellProofs --------------------------
(***************************************************************************)
(* Proofs about DesktopShell: however many servers are started and polls   *)
(* made, the shell leaves no server behind, and the page acts on answers   *)
(* about the server that is kept.                                          *)
(***************************************************************************)
EXTENDS DesktopShell, SequenceTheorems, TLAPS

Queued == [cmd: Commands, chain: Chains \cup {None}]
Settled == [cmd: Commands, chain: Chains \cup {None},
            val: BOOLEAN \cup Servers \cup {None}]

\* The commands on their way: the replies, then what the shell has not run yet.
Total == Len(replies) + Len(queue)
Cmd(i) == IF i <= Len(replies) THEN replies[i].cmd ELSE queue[i - Len(replies)].cmd
For(i) == IF i <= Len(replies) THEN replies[i].chain ELSE queue[i - Len(replies)].chain

\* What a reply carries: a url is of a server that was started.
Fits(r) ==
    /\ r.cmd # "destroyed"
    /\ r.cmd \in {"alive", "ready", "restart"} => r.val \in BOOLEAN
    /\ r.cmd = "url" => r.val \in 0..starts

\* Numbers of servers are never those of servers to come.
Bounds ==
    /\ server <= starts
    /\ \A c \in Chains : url[c] <= starts
    /\ \A n \in nav \cup tied : n <= starts
    /\ at <= starts
    /\ \A i \in DOMAIN replies : Fits(replies[i])

\* A chain waits for what it asked and asks one thing at a time; a restart is under
\* way only while the retry button is disabled.
Known(i) ==
    /\ Cmd(i) \in {"alive", "url", "ready"} => For(i) \in Chains
    /\ Cmd(i) = "url" => chain[For(i)] = "url"
    /\ Cmd(i) = "ready" => chain[For(i)] = "ready"
    /\ Cmd(i) = "restart" => retrying /\ For(i) = None
Once(i, j) ==
    Cmd(i) \in {"url", "ready", "restart"} /\ Cmd(i) = Cmd(j) /\ For(i) = For(j) => i = j
OneAtATime ==
    /\ \A i \in 1..Total : Known(i)
    /\ \A i, j \in 1..Total : Once(i, j)

Typed == TypeOK /\ replies \in Seq(Settled)
Shape == Typed /\ Bounds /\ (Open => OneAtATime)

------------------------------------------------------------------------------
(* Sequences. *)

\* What is left of a sequence without its head.
LEMMA TailFacts ==
  ASSUME NEW S, NEW s \in Seq(S), s # <<>>
  PROVE  /\ Len(s) \in Nat \ {0} /\ Tail(s) \in Seq(S) /\ Len(Tail(s)) = Len(s) - 1
         /\ Head(s) = s[1] /\ s[1] \in S
         /\ \A i \in 1..(Len(s) - 1) : Tail(s)[i] = s[i + 1]
<1>1. Len(s) \in Nat \ {0}
  BY LenProperties, EmptySeq
<1> QED  BY <1>1, HeadTailProperties, ElementOfSeq

\* A sequence and two more.
LEMMA ConcatTwo ==
  ASSUME NEW S, NEW s \in Seq(S), NEW x \in S, NEW y \in S
  PROVE  /\ s \o <<x, y>> \in Seq(S) /\ Len(s \o <<x, y>>) = Len(s) + 2
         /\ \A i \in 1..Len(s) : (s \o <<x, y>>)[i] = s[i]
         /\ (s \o <<x, y>>)[Len(s) + 1] = x /\ (s \o <<x, y>>)[Len(s) + 2] = y
<1>1. <<x, y>> \in Seq(S) /\ Len(<<x, y>>) = 2 /\ <<x, y>>[1] = x /\ <<x, y>>[2] = y
  OBVIOUS
<1>2. Len(s) \in Nat
  BY LenProperties
<1> QED  BY <1>1, <1>2, ConcatProperties

\* The fields of a command.
LEMMA CommandFields ==
  ASSUME NEW cmd \in Commands, NEW c \in Chains \cup {None}
  PROVE  Command(cmd, c) \in Queued /\ Command(cmd, c).cmd = cmd /\ Command(cmd, c).chain = c
BY DEF Command, Queued

\* What the shell may answer.
LEMMA AnswersFacts ==
  ASSUME TypeOK, NEW cmd \in {"alive", "url", "ready"}, NEW val \in Answers(cmd)
  PROVE  /\ cmd = "alive" => val \in BOOLEAN /\ (val = FALSE => ~Alive)
         /\ cmd = "url" => val = server
         /\ cmd = "ready" => val \in BOOLEAN /\ (val = TRUE => Ready)
         /\ val \in BOOLEAN \cup Servers \cup {None}
<1>1. CASE cmd = "alive"
  BY <1>1 DEF Answers, Alive
<1>2. CASE cmd = "url"
  BY <1>2 DEF Answers, TypeOK
<1>3. CASE cmd = "ready"
  BY <1>3 DEF Answers, Ready
<1> QED  BY <1>1, <1>2, <1>3

------------------------------------------------------------------------------
(* The commands on their way. *)

\* The lengths, and the types of what is on its way.
LEMMA Lengths ==
  ASSUME Typed
  PROVE  /\ Len(replies) \in Nat /\ Len(queue) \in Nat /\ Total \in Nat
         /\ \A i \in 1..Len(replies) : replies[i] \in Settled
         /\ \A i \in 1..Len(queue) : queue[i] \in Queued
         /\ DOMAIN replies = 1..Len(replies) /\ DOMAIN queue = 1..Len(queue)
<1>1. replies \in Seq(Settled) /\ queue \in Seq(Queued)
  BY DEF Typed, TypeOK, Queued
<1> QED  BY <1>1, LenProperties, ElementOfSeq DEF Total

\* A command that is run stays where it is, now as a reply.
LEMMA RunKeeps ==
  ASSUME Typed, Typed', queue # <<>>, queue' = Tail(queue), NEW r \in Settled,
         replies' = Append(replies, r), r.cmd = Head(queue).cmd, r.chain = Head(queue).chain
  PROVE  Total' = Total /\ \A i \in 1..Total : Cmd(i)' = Cmd(i) /\ For(i)' = For(i)
<1>1. /\ Len(queue) \in Nat \ {0} /\ Len(queue') = Len(queue) - 1 /\ Head(queue) = queue[1]
      /\ \A i \in 1..(Len(queue) - 1) : queue'[i] = queue[i + 1]
  BY TailFacts DEF Typed, TypeOK, Queued
<1>2. /\ Len(replies') = Len(replies) + 1 /\ replies'[Len(replies) + 1] = r
      /\ \A i \in 1..Len(replies) : replies'[i] = replies[i]
  BY AppendProperties DEF Typed
<1>3. Len(replies) \in Nat /\ Total \in Nat
  BY Lengths
<1>4. Total' = Total
  BY <1>1, <1>2, <1>3 DEF Total
<1>5. ASSUME NEW i \in 1..Total PROVE Cmd(i)' = Cmd(i) /\ For(i)' = For(i)
  <2>1. CASE i <= Len(replies)
    BY <1>2, <1>3, <2>1 DEF Cmd, For
  <2>2. CASE i = Len(replies) + 1
    BY <1>1, <1>2, <1>3, <2>2 DEF Cmd, For
  <2>3. CASE i > Len(replies) + 1
    <3>1. queue'[i - Len(replies')] = queue[i - Len(replies)]
      BY <1>1, <1>2, <1>3, <2>3 DEF Total
    <3>2. ~(i <= Len(replies')) /\ ~(i <= Len(replies))
      BY <1>2, <1>3, <2>3
    <3> QED  BY <3>1, <3>2 DEF Cmd, For
  <2> QED  BY <1>3, <2>1, <2>2, <2>3
<1> QED  BY <1>4, <1>5

\* The queue of the next state is the queue and k more.
Grows(k) == Len(queue') = Len(queue) + k /\ \A i \in 1..Len(queue) : queue'[i] = queue[i]

\* A reply that settles leaves the line, and what the page then asks joins it.
LEMMA SettleShifts ==
  ASSUME Typed, replies # <<>>, replies' = Tail(replies), NEW k \in Nat, Grows(k)
  PROVE  /\ Total \in Nat \ {0} /\ Total' = Total - 1 + k
         /\ \A i \in 1..(Total - 1) : Cmd(i)' = Cmd(i + 1) /\ For(i)' = For(i + 1)
         /\ \A i \in Total..(Total - 1 + k) :
               /\ Cmd(i)' = queue'[i - Total + 1 + Len(queue)].cmd
               /\ For(i)' = queue'[i - Total + 1 + Len(queue)].chain
         /\ Cmd(1) = Head(replies).cmd /\ For(1) = Head(replies).chain
<1>1. /\ Len(replies) \in Nat \ {0} /\ Len(replies') = Len(replies) - 1
      /\ Head(replies) = replies[1]
      /\ \A i \in 1..(Len(replies) - 1) : replies'[i] = replies[i + 1]
  BY TailFacts DEF Typed
<1>2. Len(queue) \in Nat /\ Total \in Nat
  BY Lengths
<1>3. Total \in Nat \ {0} /\ Total' = Total - 1 + k
  BY <1>1, <1>2 DEF Total, Grows
<1>4. ASSUME NEW i \in 1..(Total - 1) PROVE Cmd(i)' = Cmd(i + 1) /\ For(i)' = For(i + 1)
  <2>1. CASE i <= Len(replies) - 1
    BY <1>1, <2>1 DEF Cmd, For
  <2>2. CASE i > Len(replies) - 1
    <3>1. queue'[i - Len(replies')] = queue[i + 1 - Len(replies)]
      BY <1>1, <1>2, <2>2 DEF Total, Grows
    <3> QED  BY <1>1, <1>2, <2>2, <3>1 DEF Cmd, For
  <2> QED  BY <1>1, <1>2, <2>1, <2>2
<1>5. ASSUME NEW i \in Total..(Total - 1 + k)
      PROVE  /\ Cmd(i)' = queue'[i - Total + 1 + Len(queue)].cmd
             /\ For(i)' = queue'[i - Total + 1 + Len(queue)].chain
  <2>1. i - Len(replies') = i - Total + 1 + Len(queue) /\ ~(i <= Len(replies'))
    BY <1>1, <1>2 DEF Total
  <2> QED  BY <2>1 DEF Cmd, For
<1>6. Cmd(1) = Head(replies).cmd /\ For(1) = Head(replies).chain
  BY <1>1 DEF Cmd, For
<1> QED  BY <1>3, <1>4, <1>5, <1>6

\* What is invoked joins the end of the line.
LEMMA InvokeJoins ==
  ASSUME Typed, replies' = replies, NEW k \in Nat, Grows(k)
  PROVE  /\ Total \in Nat /\ Total' = Total + k
         /\ \A i \in 1..Total : Cmd(i)' = Cmd(i) /\ For(i)' = For(i)
         /\ \A i \in (Total + 1)..(Total + k) :
               /\ Cmd(i)' = queue'[i - Total + Len(queue)].cmd
               /\ For(i)' = queue'[i - Total + Len(queue)].chain
<1>1. Len(replies) \in Nat /\ Len(queue) \in Nat /\ Total \in Nat
  BY Lengths
<1>2. Total' = Total + k
  BY <1>1 DEF Total, Grows
<1>3. ASSUME NEW i \in 1..Total PROVE Cmd(i)' = Cmd(i) /\ For(i)' = For(i)
  <2>1. CASE i <= Len(replies)
    BY <1>1, <2>1 DEF Cmd, For
  <2>2. CASE i > Len(replies)
    <3>1. queue'[i - Len(replies)] = queue[i - Len(replies)]
      BY <1>1, <2>2 DEF Total, Grows
    <3> QED  BY <1>1, <2>2, <3>1 DEF Cmd, For
  <2> QED  BY <1>1, <2>1, <2>2
<1>4. ASSUME NEW i \in (Total + 1)..(Total + k)
      PROVE  /\ Cmd(i)' = queue'[i - Total + Len(queue)].cmd
             /\ For(i)' = queue'[i - Total + Len(queue)].chain
  <2>1. i - Len(replies') = i - Total + Len(queue) /\ ~(i <= Len(replies'))
    BY <1>1 DEF Total
  <2> QED  BY <2>1 DEF Cmd, For
<1> QED  BY <1>1, <1>2, <1>3, <1>4

\* The commands of a poll join the queue.
LEMMA PollGrows ==
  ASSUME Typed, NEW c \in Chains, queue' = queue \o PollCommands(c)
  PROVE  /\ queue' \in Seq(Queued) /\ Grows(2)
         /\ queue'[1 + Len(queue)].cmd = "alive" /\ queue'[1 + Len(queue)].chain = c
         /\ queue'[2 + Len(queue)].cmd = "url" /\ queue'[2 + Len(queue)].chain = c
<1>1. queue \in Seq(Queued) /\ Len(queue) \in Nat
  BY Lengths DEF Typed, TypeOK, Queued
<1> DEFINE x == Command("alive", c)
           y == Command("url", c)
<1>2. x \in Queued /\ y \in Queued /\ x.cmd = "alive" /\ x.chain = c /\ y.cmd = "url" /\ y.chain = c
  BY CommandFields DEF Commands
<1>3. queue' = queue \o <<x, y>>
  BY DEF PollCommands
<1> HIDE DEF x, y
<1>4. /\ queue' \in Seq(Queued) /\ Len(queue') = Len(queue) + 2
      /\ \A i \in 1..Len(queue) : queue'[i] = queue[i]
      /\ queue'[Len(queue) + 1] = x /\ queue'[Len(queue) + 2] = y
  BY <1>1, <1>2, <1>3, ConcatTwo
<1> QED  BY <1>1, <1>2, <1>4 DEF Grows

\* One command joins the queue.
LEMMA AskGrows ==
  ASSUME Typed, NEW cmd \in Commands, NEW c \in Chains \cup {None},
         queue' = Append(queue, Command(cmd, c))
  PROVE  /\ queue' \in Seq(Queued) /\ Grows(1)
         /\ queue'[1 + Len(queue)].cmd = cmd /\ queue'[1 + Len(queue)].chain = c
<1>1. queue \in Seq(Queued) /\ Len(queue) \in Nat
  BY Lengths DEF Typed, TypeOK, Queued
<1> DEFINE x == Command(cmd, c)
<1>2. x \in Queued /\ x.cmd = cmd /\ x.chain = c /\ queue' = Append(queue, x)
  BY CommandFields
<1> HIDE DEF x
<1> QED  BY <1>1, <1>2, AppendProperties DEF Grows

\* A step that leaves the line, the chains and the button leaves who waits for what.
LEMMA SameLine ==
  ASSUME OneAtATime, Total' = Total, \A i \in 1..Total : Cmd(i)' = Cmd(i) /\ For(i)' = For(i),
         chain' = chain, retrying' = retrying
  PROVE  OneAtATime'
BY DEF OneAtATime, Known, Once

\* A step that touches none of it.
LEMMA StillLine ==
  ASSUME OneAtATime, UNCHANGED <<replies, queue, chain, retrying>>
  PROVE  OneAtATime'
<1>1. Total' = Total /\ \A i \in 1..Total : Cmd(i)' = Cmd(i) /\ For(i)' = For(i)
  BY DEF Total, Cmd, For
<1> QED  BY <1>1, SameLine

\* A command of a chain that nobody waits for, or that asks nothing, joins the line.
LEMMA JoinLine ==
  ASSUME Typed, OneAtATime, replies' = replies, Grows(1), chain' = chain,
         NEW cmd \in {"restart", "destroyed"},
         queue'[1 + Len(queue)].cmd = cmd, queue'[1 + Len(queue)].chain = None,
         cmd = "restart" => ~retrying /\ retrying', cmd = "destroyed" => retrying' = retrying
  PROVE  OneAtATime'
<1>1. /\ Total \in Nat /\ Total' = Total + 1
      /\ \A i \in 1..Total : Cmd(i)' = Cmd(i) /\ For(i)' = For(i)
      /\ \A i \in (Total + 1)..(Total + 1) : /\ Cmd(i)' = queue'[i - Total + Len(queue)].cmd
                                             /\ For(i)' = queue'[i - Total + Len(queue)].chain
  BY InvokeJoins
<1>2. \A i \in 1..Total' : \/ i \in 1..Total /\ Cmd(i)' = Cmd(i) /\ For(i)' = For(i)
                           \/ i = Total + 1 /\ Cmd(i)' = cmd /\ For(i)' = None
  BY <1>1
<1>3. \A i \in 1..Total' : Known(i)'
  BY <1>2 DEF OneAtATime, Known
<1>4. \A i, j \in 1..Total' : Once(i, j)'
  BY <1>2 DEF OneAtATime, Known, Once
<1> QED  BY <1>3, <1>4 DEF OneAtATime

\* The poll of a chain that nothing is on its way for joins the line.
LEMMA PollLine ==
  ASSUME Typed, OneAtATime, NEW c \in Chains, chain[c] \in {"none", "timer"},
         chain' = [chain EXCEPT ![c] = "url"], replies' = replies,
         queue' = queue \o PollCommands(c), retrying' = retrying
  PROVE  OneAtATime'
<1>1. /\ Total \in Nat /\ Total' = Total + 2
      /\ \A i \in 1..Total : Cmd(i)' = Cmd(i) /\ For(i)' = For(i)
      /\ \A i \in (Total + 1)..(Total + 2) : /\ Cmd(i)' = queue'[i - Total + Len(queue)].cmd
                                             /\ For(i)' = queue'[i - Total + Len(queue)].chain
      /\ queue'[1 + Len(queue)].cmd = "alive" /\ queue'[1 + Len(queue)].chain = c
      /\ queue'[2 + Len(queue)].cmd = "url" /\ queue'[2 + Len(queue)].chain = c
  BY PollGrows, InvokeJoins
<1>2. /\ \A d \in Chains : d # c => chain'[d] = chain[d]
      /\ chain'[c] = "url"
  BY DEF Typed, TypeOK
<1>3. ASSUME NEW i \in 1..Total'
      PROVE  \/ i \in 1..Total /\ Cmd(i)' = Cmd(i) /\ For(i)' = For(i)
             \/ i = Total + 1 /\ Cmd(i)' = "alive" /\ For(i)' = c
             \/ i = Total + 2 /\ Cmd(i)' = "url" /\ For(i)' = c
  <2>1. CASE i \in 1..Total
    BY <1>1, <2>1
  <2>2. CASE i = Total + 1
    <3>1. i - Total + Len(queue) = 1 + Len(queue) /\ i \in (Total + 1)..(Total + 2)
      BY <1>1, <2>2, Lengths
    <3> QED  BY <1>1, <2>2, <3>1
  <2>3. CASE i = Total + 2
    <3>1. i - Total + Len(queue) = 2 + Len(queue) /\ i \in (Total + 1)..(Total + 2)
      BY <1>1, <2>3, Lengths
    <3> QED  BY <1>1, <2>3, <3>1
  <2> QED  BY <1>1, <2>1, <2>2, <2>3
<1>4. \A i \in 1..Total : Cmd(i) \in {"url", "ready"} => For(i) # c
  BY DEF OneAtATime, Known
<1>5. \A i \in 1..Total' : Known(i)'
  BY <1>2, <1>3, <1>4 DEF OneAtATime, Known
<1>6. \A i, j \in 1..Total' : Once(i, j)'
  BY <1>3, <1>4 DEF OneAtATime, Known, Once
<1> QED  BY <1>5, <1>6 DEF OneAtATime

\* A reply that settles and asks nothing moves only the chain that waited for it.
LEMMA SettleLine ==
  ASSUME Typed, OneAtATime, replies # <<>>, replies' = Tail(replies), queue' = queue,
         \A d \in Chains : chain'[d] # chain[d] =>
            Head(replies).cmd \in {"url", "ready"} /\ d = Head(replies).chain,
         retrying' # retrying => Head(replies).cmd = "restart"
  PROVE  OneAtATime'
<1>1. Grows(0)
  BY Lengths DEF Grows
<1>2. /\ Total \in Nat \ {0} /\ Total' = Total - 1
      /\ \A i \in 1..(Total - 1) : Cmd(i)' = Cmd(i + 1) /\ For(i)' = For(i + 1)
      /\ Cmd(1) = Head(replies).cmd /\ For(1) = Head(replies).chain
  BY <1>1, SettleShifts
<1>3. \A i \in 1..Total' : i + 1 \in 1..Total /\ i + 1 # 1 /\ 1 \in 1..Total
  BY <1>2
<1>4. ASSUME NEW i \in 1..Total' PROVE Known(i)'
  <2>1. Known(i + 1) /\ Known(1) /\ Once(i + 1, 1)
    BY <1>3 DEF OneAtATime
  <2>2. Cmd(i)' = Cmd(i + 1) /\ For(i)' = For(i + 1)
    BY <1>2
  <2> QED  BY <1>2, <1>3, <2>1, <2>2 DEF Known, Once
<1>5. ASSUME NEW i \in 1..Total', NEW j \in 1..Total' PROVE Once(i, j)'
  <2>1. Once(i + 1, j + 1)
    BY <1>3 DEF OneAtATime
  <2>2. Cmd(i)' = Cmd(i + 1) /\ For(i)' = For(i + 1) /\ Cmd(j)' = Cmd(j + 1) /\ For(j)' = For(j + 1)
    BY <1>2
  <2>3. i \in Int /\ j \in Int /\ (i + 1 = j + 1 => i = j)
    BY <1>2
  <2> QED  BY <2>1, <2>2, <2>3 DEF Once
<1> QED  BY <1>4, <1>5 DEF OneAtATime

\* A chain that read a url asks whether it is ready.
LEMMA UrlLine ==
  ASSUME Typed, OneAtATime, replies # <<>>, replies' = Tail(replies),
         NEW c \in Chains, Head(replies).cmd = "url", Head(replies).chain = c,
         queue' = Append(queue, Command("ready", c)),
         chain' = [chain EXCEPT ![c] = "ready"], retrying' = retrying
  PROVE  OneAtATime'
<1>1. Grows(1) /\ queue'[1 + Len(queue)].cmd = "ready" /\ queue'[1 + Len(queue)].chain = c
  BY AskGrows DEF Commands
<1>2. /\ Total \in Nat \ {0} /\ Total' = Total - 1 + 1
      /\ \A i \in 1..(Total - 1) : Cmd(i)' = Cmd(i + 1) /\ For(i)' = For(i + 1)
      /\ \A i \in Total..(Total - 1 + 1) :
            /\ Cmd(i)' = queue'[i - Total + 1 + Len(queue)].cmd
            /\ For(i)' = queue'[i - Total + 1 + Len(queue)].chain
      /\ Cmd(1) = "url" /\ For(1) = c
  BY <1>1, SettleShifts
<1>3. ASSUME NEW i \in 1..Total'
      PROVE  \/ i + 1 \in 1..Total /\ i + 1 # 1 /\ Cmd(i)' = Cmd(i + 1) /\ For(i)' = For(i + 1)
             \/ i = Total /\ Cmd(i)' = "ready" /\ For(i)' = c
  <2>1. CASE i = Total
    <3>1. i - Total + 1 + Len(queue) = 1 + Len(queue) /\ i \in Total..(Total - 1 + 1)
      BY <1>2, <2>1, Lengths
    <3> QED  BY <1>1, <1>2, <2>1, <3>1
  <2> QED  BY <1>2, <2>1
<1>4. \A d \in Chains : chain'[d] = IF d = c THEN "ready" ELSE chain[d]
  BY DEF Typed, TypeOK
<1>5. 1 \in 1..Total /\ chain[c] = "url"
  BY <1>2 DEF OneAtATime, Known
<1>6. \A i \in 1..Total : i # 1 /\ Cmd(i) \in {"url", "ready"} => For(i) # c
  BY <1>2, <1>5 DEF OneAtATime, Known, Once
<1>7. \A i \in 1..Total' : Known(i)'
  BY <1>3, <1>4, <1>6 DEF OneAtATime, Known
<1>8. ASSUME NEW i \in 1..Total', NEW j \in 1..Total' PROVE Once(i, j)'
  <2>1. i \in Int /\ j \in Int /\ (i + 1 = j + 1 => i = j)
    BY <1>2
  <2> QED  BY <1>3, <1>6, <2>1 DEF OneAtATime, Once
<1> QED  BY <1>7, <1>8 DEF OneAtATime

\* A restart that succeeded starts a chain of its own.
LEMMA RestartLine ==
  ASSUME Typed, OneAtATime, replies # <<>>, replies' = Tail(replies),
         Head(replies).cmd = "restart", NEW c \in Chains, chain[c] = "none",
         queue' = queue \o PollCommands(c), chain' = [chain EXCEPT ![c] = "url"],
         retrying' = FALSE
  PROVE  OneAtATime'
<1>1. /\ Grows(2)
      /\ queue'[1 + Len(queue)].cmd = "alive" /\ queue'[1 + Len(queue)].chain = c
      /\ queue'[2 + Len(queue)].cmd = "url" /\ queue'[2 + Len(queue)].chain = c
  BY PollGrows
<1>2. /\ Total \in Nat \ {0} /\ Total' = Total - 1 + 2
      /\ \A i \in 1..(Total - 1) : Cmd(i)' = Cmd(i + 1) /\ For(i)' = For(i + 1)
      /\ \A i \in Total..(Total - 1 + 2) :
            /\ Cmd(i)' = queue'[i - Total + 1 + Len(queue)].cmd
            /\ For(i)' = queue'[i - Total + 1 + Len(queue)].chain
      /\ Cmd(1) = "restart"
  BY <1>1, SettleShifts
<1>3. ASSUME NEW i \in 1..Total'
      PROVE  \/ i + 1 \in 1..Total /\ i + 1 # 1 /\ Cmd(i)' = Cmd(i + 1) /\ For(i)' = For(i + 1)
             \/ i = Total /\ Cmd(i)' = "alive" /\ For(i)' = c
             \/ i = Total + 1 /\ Cmd(i)' = "url" /\ For(i)' = c
  <2>1. CASE i = Total
    <3>1. i - Total + 1 + Len(queue) = 1 + Len(queue) /\ i \in Total..(Total - 1 + 2)
      BY <1>2, <2>1, Lengths
    <3> QED  BY <1>1, <1>2, <2>1, <3>1
  <2>2. CASE i = Total + 1
    <3>1. i - Total + 1 + Len(queue) = 2 + Len(queue) /\ i \in Total..(Total - 1 + 2)
      BY <1>2, <2>2, Lengths
    <3> QED  BY <1>1, <1>2, <2>2, <3>1
  <2> QED  BY <1>2, <2>1, <2>2
<1>4. \A d \in Chains : chain'[d] = IF d = c THEN "url" ELSE chain[d]
  BY DEF Typed, TypeOK
<1>5. \A i \in 1..Total : Cmd(i) \in {"url", "ready"} => For(i) # c
  BY DEF OneAtATime, Known
<1>6. \A i \in 1..Total : i # 1 => Cmd(i) # "restart"
  BY <1>2 DEF OneAtATime, Known, Once
<1>7. \A i \in 1..Total' : Known(i)'
  BY <1>3, <1>4, <1>5, <1>6 DEF OneAtATime, Known
<1>8. ASSUME NEW i \in 1..Total', NEW j \in 1..Total' PROVE Once(i, j)'
  <2>1. i \in Int /\ j \in Int /\ (i + 1 = j + 1 => i = j)
    BY <1>2
  <2> QED  BY <1>3, <1>5, <2>1 DEF OneAtATime, Once
<1> QED  BY <1>7, <1>8 DEF OneAtATime

------------------------------------------------------------------------------
(* The types, and who waits for what. *)

\* The shell answers a question.
LEMMA QueryShape ==
  ASSUME Shape, Open, queue # <<>>, queue' = Tail(queue),
         Head(queue).cmd \in {"alive", "url", "ready"}, Query(Head(queue))
  PROVE  Shape'
<1> DEFINE q == Head(queue)
<1>1. q \in Queued /\ queue' \in Seq(Queued)
  <2>1. queue \in Seq(Queued)
    BY DEF Shape, Typed, TypeOK, Queued
  <2> QED  BY <2>1, TailFacts
<1>2. PICK val \in Answers(q.cmd) : /\ replies' = Append(replies, Reply(q.cmd, q.chain, val))
                                    /\ UNCHANGED <<shellVars, pageVars>>
  BY DEF Query
<1>3. /\ q.cmd = "alive" => val \in BOOLEAN
      /\ q.cmd = "url" => val = server
      /\ q.cmd = "ready" => val \in BOOLEAN
      /\ val \in BOOLEAN \cup Servers \cup {None}
  BY AnswersFacts DEF Shape, Typed
<1>4. q.cmd \in Commands /\ q.chain \in Chains \cup {None}
  BY <1>1 DEF Queued
<1> DEFINE r == Reply(q.cmd, q.chain, val)
<1>5. r \in Settled /\ r.cmd = q.cmd /\ r.chain = q.chain /\ r.val = val
  BY <1>3, <1>4 DEF Reply, Settled
<1>6. replies' = Append(replies, r)
  BY <1>2
<1>7. q.cmd = Head(queue).cmd /\ q.chain = Head(queue).chain /\ q.cmd \in {"alive", "url", "ready"}
  OBVIOUS
<1> HIDE DEF r, q
<1>8. /\ replies' \in Seq(Settled) /\ Len(replies') = Len(replies) + 1
      /\ replies'[Len(replies) + 1] = r
      /\ \A i \in 1..Len(replies) : replies'[i] = replies[i]
  BY <1>5, <1>6, AppendProperties DEF Shape, Typed
<1>9. DOMAIN replies = 1..Len(replies) /\ DOMAIN replies' = 1..Len(replies') /\ Len(replies) \in Nat
  BY <1>8, LenProperties DEF Shape, Typed
<1>10. Typed'
  <2>1. \A i \in DOMAIN replies' : replies'[i] \in Settled
    BY <1>8, <1>9, ElementOfSeq
  <2>2. \A i \in DOMAIN replies' : replies'[i].cmd \in Commands
    BY <2>1 DEF Settled
  <2> QED  BY <1>1, <1>2, <1>8, <2>2 DEF Shape, Typed, TypeOK, Queued, shellVars, pageVars
<1>11. Bounds'
  <2>1. Fits(r)
    BY <1>3, <1>5, <1>7 DEF Fits, Shape, Typed, TypeOK, Bounds, Servers, None
  <2>2. \A i \in DOMAIN replies' : Fits(replies'[i])
    BY <1>8, <1>9, <2>1 DEF Shape, Bounds
  <2>3. \A i \in DOMAIN replies' : Fits(replies[i])'
    BY <1>2, <2>2 DEF Fits, shellVars
  <2> QED  BY <1>2, <2>3 DEF Shape, Bounds, shellVars, pageVars
<1>12. OneAtATime'
  <2>1. Total' = Total /\ \A i \in 1..Total : Cmd(i)' = Cmd(i) /\ For(i)' = For(i)
    BY <1>5, <1>6, <1>7, <1>10, RunKeeps DEF Shape
  <2> QED  BY <1>2, <2>1, SameLine DEF Shape, pageVars
<1> QED  BY <1>10, <1>11, <1>12 DEF Shape

\* Stopping the server that is kept.
LEMMA StoppedFacts ==
  ASSUME TypeOK, server <= starts
  PROVE  /\ Stopped \in [Servers -> {"unborn", "starting", "ready", "dead"}]
         /\ \A n \in Servers : /\ Stopped[n] = "unborn" <=> n > starts
                               /\ n = server => Stopped[n] = "dead"
                               /\ n # server => Stopped[n] = proc[n]
BY DEF TypeOK, Stopped, Servers, None

\* The server is stopped and another started, or not.
LEMMA RestartShape ==
  ASSUME Shape, Open, queue # <<>>, queue' = Tail(queue), Head(queue).cmd = "restart", Restart
  PROVE  Shape'
<1>1. Head(queue) = queue[1] /\ queue' \in Seq(Queued) /\ Len(queue) \in Nat \ {0}
  BY TailFacts DEF Shape, Typed, TypeOK, Queued
<1> DEFINE r == Reply("restart", None, server' # None)
<1>2. r \in Settled /\ r.cmd = "restart" /\ r.chain = None /\ r.val \in BOOLEAN
  BY DEF Commands, Reply, Settled
<1>3. replies' = Append(replies, r)
  BY DEF Restart
<1> HIDE DEF r
<1>4. /\ replies' \in Seq(Settled) /\ Len(replies') = Len(replies) + 1
      /\ replies'[Len(replies) + 1] = r
      /\ \A i \in 1..Len(replies) : replies'[i] = replies[i]
  BY <1>2, <1>3, AppendProperties DEF Shape, Typed
<1>5. DOMAIN replies = 1..Len(replies) /\ DOMAIN replies' = 1..Len(replies') /\ Len(replies) \in Nat
  BY <1>4, LenProperties DEF Shape, Typed
<1>6. /\ starts \in Nat /\ starts' = starts + 1 /\ starts' \in Servers
      /\ server' \in {None, starts'} /\ UNCHANGED pageVars
      /\ tied' \subseteq tied \cup {starts'}
  BY ShellAssumption DEF Shape, Typed, TypeOK, Restart, StartServer, Servers
<1>7. /\ proc' \in [Servers -> {"unborn", "starting", "ready", "dead"}]
      /\ \A n \in Servers : proc'[n] = "unborn" <=> n > starts'
  <2>1. PICK s \in {"starting", "dead"} : proc' = [Stopped EXCEPT ![starts'] = s]
    BY DEF Restart, StartServer
  <2> QED  BY <1>6, <2>1, StoppedFacts DEF Shape, Typed, Bounds, Servers
<1>8. Typed'
  <2>1. \A i \in DOMAIN replies' : replies'[i] \in Settled
    BY <1>4, <1>5, ElementOfSeq
  <2>2. \A i \in DOMAIN replies' : replies'[i].cmd \in Commands
    BY <2>1 DEF Settled
  <2> QED  BY <1>1, <1>4, <1>6, <1>7, <2>2 DEF Shape, Typed, TypeOK, Queued, pageVars
<1>9. Bounds'
  <2>1. ASSUME NEW i \in DOMAIN replies' PROVE Fits(replies[i])'
    <3>1. CASE i = Len(replies) + 1
      BY <1>2, <1>4, <3>1 DEF Fits
    <3>2. CASE i \in 1..Len(replies)
      <4>1. Fits(replies[i]) /\ replies'[i] = replies[i]
        BY <1>4, <1>5, <3>2 DEF Shape, Bounds
      <4> QED  BY <1>6, <4>1 DEF Fits
    <3> QED  BY <1>4, <1>5, <3>1, <3>2
  <2>2. server' <= starts' /\ at' <= starts' /\ (\A n \in nav' \cup tied' : n <= starts')
    BY <1>6 DEF Shape, Typed, TypeOK, Bounds, pageVars, Servers, None
  <2>3. \A c \in Chains : url'[c] <= starts'
    BY <1>6 DEF Shape, Typed, TypeOK, Bounds, pageVars, Servers, None
  <2> QED  BY <2>1, <2>2, <2>3 DEF Bounds
<1>10. OneAtATime'
  <2>1. Cmd(Len(replies) + 1) = "restart" /\ For(Len(replies) + 1) = queue[1].chain
    BY <1>1, <1>5 DEF Cmd, For
  <2>2. Len(replies) + 1 \in 1..Total
    BY <1>1, <1>5 DEF Total
  <2>3. queue[1].chain = None
    BY <2>1, <2>2 DEF Shape, OneAtATime, Known
  <2>4. Total' = Total /\ \A i \in 1..Total : Cmd(i)' = Cmd(i) /\ For(i)' = For(i)
    BY <1>1, <1>2, <1>3, <1>8, <2>3, RunKeeps DEF Shape
  <2> QED  BY <1>6, <2>4, SameLine DEF Shape, pageVars
<1> QED  BY <1>8, <1>9, <1>10 DEF Shape

\* The window is gone.
LEMMA DestroyedShape ==
  ASSUME Shape, queue # <<>>, queue' = Tail(queue), Destroyed
  PROVE  Shape'
<1>1. queue' \in Seq(Queued)
  BY TailFacts DEF Shape, Typed, TypeOK, Queued
<1>2. replies' = <<>> /\ DOMAIN replies' = {} /\ replies' \in Seq(Settled)
  BY DEF Destroyed
<1>3. Typed'
  BY <1>1, <1>2, StoppedFacts DEF Shape, Typed, TypeOK, Bounds, Destroyed, Queued
<1>4. Bounds'
  BY <1>2 DEF Shape, Bounds, Destroyed
<1> QED  BY <1>3, <1>4 DEF Shape, Destroyed, Open

\* What is left of the replies.
LEMMA TailReplies ==
  ASSUME Shape, replies # <<>>, replies' = Tail(replies), starts' = starts
  PROVE  /\ replies' \in Seq(Settled) /\ Head(replies) \in Settled /\ Fits(Head(replies))
         /\ \A i \in DOMAIN replies' : replies'[i].cmd \in Commands /\ Fits(replies[i])'
<1>1. /\ Len(replies) \in Nat \ {0} /\ replies' \in Seq(Settled)
      /\ Len(replies') = Len(replies) - 1
      /\ Head(replies) = replies[1] /\ replies[1] \in Settled
      /\ \A i \in 1..(Len(replies) - 1) : replies'[i] = replies[i + 1]
  BY TailFacts DEF Shape, Typed
<1>2. DOMAIN replies = 1..Len(replies) /\ DOMAIN replies' = 1..(Len(replies) - 1)
  BY <1>1, LenProperties DEF Shape, Typed
<1>3. \A i \in DOMAIN replies' : replies'[i] \in Settled
  BY <1>1, <1>2, ElementOfSeq
<1>4. \A i \in DOMAIN replies' : Fits(replies'[i])
  BY <1>1, <1>2 DEF Shape, Bounds
<1>5. \A i \in DOMAIN replies' : Fits(replies[i])'
  BY <1>4 DEF Fits
<1>6. Fits(Head(replies))
  BY <1>1, <1>2 DEF Shape, Bounds
<1> QED  BY <1>1, <1>3, <1>5, <1>6 DEF Settled

\* The chain that a settled url or ready answer is for waits for it.
LEMMA SettlesWaiting ==
  ASSUME Typed, OneAtATime, replies # <<>>
  PROVE  /\ Head(replies).cmd \in {"alive", "url", "ready"} => Head(replies).chain \in Chains
         /\ Head(replies).cmd = "url" => chain[Head(replies).chain] = "url"
         /\ Head(replies).cmd = "ready" => chain[Head(replies).chain] = "ready"
         /\ Head(replies).cmd = "restart" => retrying
<1>1. Len(replies) \in Nat \ {0} /\ Head(replies) = replies[1]
  BY TailFacts DEF Typed
<1>2. 1 \in 1..Total /\ Cmd(1) = Head(replies).cmd /\ For(1) = Head(replies).chain
  BY <1>1, Lengths DEF Total, Cmd, For
<1> QED  BY <1>2 DEF OneAtATime, Known

\* A promise of the page settles.
LEMMA SettleShape == ASSUME Shape, Settle PROVE Shape'
<1> DEFINE r == Head(replies)
<1>1. /\ Open /\ Typed /\ OneAtATime /\ replies # <<>> /\ replies' = Tail(replies)
      /\ UNCHANGED <<shellVars, at, polls, answered>>
  BY DEF Settle, Shape, Open, OnSplash
<1>2. /\ replies' \in Seq(Settled) /\ r \in Settled /\ Fits(r)
      /\ \A i \in DOMAIN replies' : replies'[i].cmd \in Commands /\ Fits(replies[i])'
  BY <1>1, TailReplies DEF shellVars
<1>3. /\ r.cmd \in {"alive", "url", "ready"} => r.chain \in Chains
      /\ r.cmd = "url" => chain[r.chain] = "url"
      /\ r.cmd = "ready" => chain[r.chain] = "ready"
  BY <1>1, SettlesWaiting
<1>4. queue \in Seq(Queued)
  BY <1>1 DEF Typed, TypeOK, Queued
<1>5. CASE r.cmd = "alive" /\ OnAlive(r)
  <2>1. OneAtATime'
    BY <1>1, <1>5, SettleLine DEF OnAlive
  <2>2. Typed'
    BY <1>1, <1>2, <1>5 DEF Typed, TypeOK, OnAlive, Die, shellVars
  <2>3. Bounds'
    BY <1>1, <1>2, <1>5 DEF Shape, Bounds, OnAlive, shellVars
  <2> QED  BY <2>1, <2>2, <2>3 DEF Shape
<1>6. CASE r.cmd = "url" /\ r.val = None /\ OnUrl(r)
  <2>1. /\ chain' = [chain EXCEPT ![r.chain] = "timer"] /\ queue' = queue
        /\ UNCHANGED <<url, view, finished, clock, retrying, nav>>
    BY <1>6 DEF OnUrl
  <2>2. OneAtATime'
    BY <1>1, <1>3, <1>6, <2>1, SettleLine DEF Typed, TypeOK
  <2>3. Typed'
    BY <1>1, <1>2, <2>1 DEF Typed, TypeOK, shellVars
  <2>4. Bounds'
    BY <1>1, <1>2, <2>1 DEF Shape, Bounds, shellVars
  <2> QED  BY <2>2, <2>3, <2>4 DEF Shape
<1>7. CASE r.cmd = "url" /\ r.val # None /\ OnUrl(r)
  <2>1. /\ chain' = [chain EXCEPT ![r.chain] = "ready"]
        /\ queue' = Append(queue, Command("ready", r.chain))
        /\ url' = [url EXCEPT ![r.chain] = r.val]
        /\ UNCHANGED <<view, finished, clock, retrying, nav>>
    BY <1>7 DEF OnUrl
  <2>2. r.chain \in Chains /\ r.val \in Servers /\ r.val <= starts /\ r.val # None
    BY <1>1, <1>2, <1>3, <1>7, ShellAssumption DEF Fits, Typed, TypeOK, Servers, None
  <2>3. queue' \in Seq(Queued)
    BY <1>1, <2>1, <2>2, AskGrows DEF Commands
  <2>4. OneAtATime'
    BY <1>1, <1>7, <2>1, <2>2, UrlLine
  <2> HIDE DEF r
  <2>5. Typed'
    BY <1>1, <1>2, <2>1, <2>2, <2>3 DEF Typed, TypeOK, shellVars, Queued
  <2>6. \A c \in Chains : url'[c] <= starts
    BY <1>1, <2>1, <2>2 DEF Shape, Bounds, Typed, TypeOK
  <2>7. Bounds'
    BY <1>1, <1>2, <2>1, <2>6 DEF Shape, Bounds, shellVars
  <2> QED  BY <2>4, <2>5, <2>7 DEF Shape
<1>8. CASE r.cmd = "ready" /\ OnReady(r)
  <2>1. PICK s \in {"timer", "over"} : chain' = [chain EXCEPT ![r.chain] = s]
    BY <1>8 DEF OnReady
  <2>2. /\ nav' \in {nav, nav \cup {url[r.chain]}}
        /\ {finished', clock'} \subseteq {finished, clock, TRUE, FALSE}
        /\ UNCHANGED <<queue, view, retrying, url>>
    BY <1>8 DEF OnReady
  <2>3. url[r.chain] \in Servers /\ url[r.chain] <= starts
    BY <1>1, <1>3, <1>8 DEF Typed, TypeOK, Shape, Bounds
  <2>4. OneAtATime'
    BY <1>1, <1>3, <1>8, <2>1, <2>2, SettleLine DEF Typed, TypeOK
  <2> HIDE DEF r
  <2>5. Typed'
    BY <1>1, <1>2, <2>1, <2>2, <2>3 DEF Typed, TypeOK, shellVars
  <2>6. Bounds'
    BY <1>1, <1>2, <2>1, <2>2, <2>3 DEF Shape, Bounds, shellVars
  <2> QED  BY <2>4, <2>5, <2>6 DEF Shape
<1>9. CASE r.cmd = "restart" /\ ~r.val /\ OnRestart(r)
  <2>1. retrying' = FALSE /\ UNCHANGED <<queue, view, finished, clock, chain, url, nav>>
    BY <1>9 DEF OnRestart
  <2>2. OneAtATime'
    BY <1>1, <1>9, <2>1, SettleLine
  <2>3. Typed'
    BY <1>1, <1>2, <2>1 DEF Typed, TypeOK, shellVars
  <2>4. Bounds'
    BY <1>1, <1>2, <2>1 DEF Shape, Bounds, shellVars
  <2> QED  BY <2>2, <2>3, <2>4 DEF Shape
<1>10. CASE r.cmd = "restart" /\ r.val /\ OnRestart(r)
  <2>1. PICK c \in Chains : /\ chain[c] = "none" /\ chain' = [chain EXCEPT ![c] = "url"]
                            /\ queue' = queue \o PollCommands(c)
    BY <1>10 DEF OnRestart
  <2>2. /\ retrying' = FALSE /\ view' = "live" /\ finished' = FALSE /\ clock' = TRUE
        /\ UNCHANGED <<url, nav>>
    BY <1>10 DEF OnRestart
  <2>3. queue' \in Seq(Queued)
    BY <1>1, <2>1, PollGrows
  <2>4. OneAtATime'
    BY <1>1, <1>10, <2>1, <2>2, RestartLine
  <2>5. Typed'
    BY <1>1, <1>2, <2>1, <2>2, <2>3 DEF Typed, TypeOK, shellVars, Queued
  <2>6. Bounds'
    BY <1>1, <1>2, <2>1, <2>2 DEF Shape, Bounds, shellVars
  <2> QED  BY <2>4, <2>5, <2>6 DEF Shape
<1> QED  BY <1>5, <1>6, <1>7, <1>8, <1>9, <1>10 DEF Settle

\* Every step keeps the types, and who waits for what.
LEMMA NextShape == Shape /\ [Next]_vars => Shape'
<1> SUFFICES ASSUME Shape, [Next]_vars PROVE Shape'
  OBVIOUS
<1>1. CASE UNCHANGED vars
  <2>1. Typed' /\ Bounds'
    BY <1>1 DEF vars, shellVars, pageVars, Shape, Typed, TypeOK, Bounds, Fits
  <2>2. Open' => OneAtATime'
    BY <1>1, StillLine DEF vars, pageVars, Shape, Open
  <2> QED  BY <2>1, <2>2 DEF Shape
<1>2. CASE Execute
  <2>1. Open /\ queue # <<>> /\ queue' = Tail(queue)
    BY <1>2 DEF Execute
  <2>2. CASE Head(queue).cmd \in {"alive", "url", "ready"} /\ Query(Head(queue))
    BY <2>1, <2>2, QueryShape
  <2>3. CASE Head(queue).cmd = "restart" /\ Restart
    BY <2>1, <2>3, RestartShape
  <2>4. CASE Head(queue).cmd = "destroyed" /\ Destroyed
    BY <2>1, <2>4, DestroyedShape
  <2> QED  BY <1>2, <2>2, <2>3, <2>4 DEF Execute
<1>3. CASE Settle
  BY <1>3, SettleShape
<1>4. CASE Deadline
  <2>1. /\ UNCHANGED <<shellVars, queue, replies, retrying, chain, url, nav, at>>
        /\ view' \in {view, "error"} /\ Open
        /\ {finished', clock'} \subseteq {finished, clock, TRUE, FALSE}
    BY <1>4 DEF Deadline, Die, Open, OnSplash
  <2>2. OneAtATime'
    BY <2>1, StillLine DEF Shape
  <2>3. Typed' /\ Bounds'
    BY <2>1 DEF shellVars, Shape, Typed, TypeOK, Bounds, Fits
  <2> QED  BY <2>2, <2>3 DEF Shape
<1>5. CASE Retry
  <2>1. /\ queue' = Append(queue, Command("restart", None)) /\ ~retrying /\ retrying' = TRUE /\ Open
        /\ UNCHANGED <<shellVars, replies, view, finished, clock, chain, url, nav, at>>
    BY <1>5 DEF Retry, Open
  <2>2. /\ queue' \in Seq(Queued) /\ Grows(1) /\ queue'[1 + Len(queue)].cmd = "restart"
        /\ queue'[1 + Len(queue)].chain = None
    BY <2>1, AskGrows DEF Shape, Commands
  <2>3. OneAtATime'
    BY <2>1, <2>2, JoinLine DEF Shape
  <2>4. Typed' /\ Bounds'
    BY <2>1, <2>2 DEF shellVars, Shape, Typed, TypeOK, Bounds, Fits, Queued
  <2> QED  BY <2>3, <2>4 DEF Shape
<1>6. CASE Navigate
  <2>1. /\ UNCHANGED <<shellVars, queue, replies, finished, retrying, chain, url>>
        /\ view' = "app" /\ clock' = FALSE /\ nav' = {} /\ at' \in nav /\ Open
    BY <1>6 DEF Navigate, Open, OnSplash
  <2>2. OneAtATime'
    BY <2>1, StillLine DEF Shape
  <2>3. Typed' /\ Bounds'
    BY <2>1 DEF shellVars, Shape, Typed, TypeOK, Bounds, Fits
  <2> QED  BY <2>2, <2>3 DEF Shape
<1>7. CASE Close
  <2>1. /\ queue' = Append(queue, Command("destroyed", None)) /\ Open
        /\ UNCHANGED <<shellVars, replies, pageVars>>
    BY <1>7 DEF Close
  <2>2. /\ queue' \in Seq(Queued) /\ Grows(1) /\ queue'[1 + Len(queue)].cmd = "destroyed"
        /\ queue'[1 + Len(queue)].chain = None
    BY <2>1, AskGrows DEF Shape, Commands
  <2>3. OneAtATime'
    BY <2>1, <2>2, JoinLine DEF Shape, pageVars
  <2>4. Typed' /\ Bounds'
    BY <2>1, <2>2 DEF shellVars, pageVars, Shape, Typed, TypeOK, Bounds, Fits, Queued
  <2> QED  BY <2>3, <2>4 DEF Shape
<1>8. CASE Crash
  <2>1. /\ replies' = <<>> /\ replies' \in Seq(Settled) /\ DOMAIN replies' = {} /\ view' = "crashed"
        /\ proc' = [n \in Servers |-> IF n \in tied THEN "dead" ELSE proc[n]]
        /\ UNCHANGED <<server, starts, tied, queue, finished, clock, retrying, chain, url, nav, at>>
    BY <1>8 DEF Crash
  <2>2. /\ proc' \in [Servers -> {"unborn", "starting", "ready", "dead"}]
        /\ \A n \in Servers : proc'[n] = "unborn" <=> n > starts
    BY <2>1 DEF Shape, Typed, TypeOK, Bounds, Servers
  <2>3. Typed' /\ Bounds'
    BY <2>1, <2>2 DEF Shape, Typed, TypeOK, Bounds
  <2> QED  BY <2>1, <2>3 DEF Shape, Open
<1>9. ASSUME NEW c \in Chains, Poll(c) PROVE Shape'
  <2>1. /\ Open /\ chain[c] = "timer"
        /\ UNCHANGED <<shellVars, replies, view, finished, clock, retrying, url, nav, at>>
    BY <1>9 DEF Poll, Open, OnSplash
  <2>2. CASE finished
    <3>1. chain' = [chain EXCEPT ![c] = "over"] /\ queue' = queue
      BY <1>9, <2>2 DEF Poll
    <3>2. Total' = Total /\ \A i \in 1..Total : Cmd(i)' = Cmd(i) /\ For(i)' = For(i)
      BY <2>1, <3>1 DEF Total, Cmd, For
    <3>3. \A d \in Chains : d # c => chain'[d] = chain[d]
      BY <3>1 DEF Shape, Typed, TypeOK
    <3>4. OneAtATime'
      BY <2>1, <3>2, <3>3 DEF Shape, OneAtATime, Known, Once
    <3>5. Typed' /\ Bounds'
      BY <2>1, <3>1 DEF shellVars, Shape, Typed, TypeOK, Bounds, Fits
    <3> QED  BY <3>4, <3>5 DEF Shape
  <2>3. CASE ~finished
    <3>1. chain' = [chain EXCEPT ![c] = "url"] /\ queue' = queue \o PollCommands(c)
      BY <1>9, <2>3 DEF Poll
    <3>2. queue' \in Seq(Queued)
      BY <3>1, PollGrows DEF Shape
    <3>3. OneAtATime'
      BY <2>1, <3>1, PollLine DEF Shape
    <3>4. Typed' /\ Bounds'
      BY <2>1, <3>1, <3>2 DEF shellVars, Shape, Typed, TypeOK, Bounds, Fits, Queued
    <3> QED  BY <3>3, <3>4 DEF Shape
  <2> QED  BY <2>2, <2>3
<1>10. ASSUME NEW n \in Servers, ComeUp(n) \/ Exit(n) PROVE Shape'
  <2>1. PICK s \in {"ready", "dead"} : proc' = [proc EXCEPT ![n] = s]
    BY <1>10 DEF ComeUp, Exit
  <2>2. Running(n) /\ UNCHANGED <<server, starts, tied, queue, replies, pageVars>>
    BY <1>10 DEF ComeUp, Exit, Running
  <2>3. Open' => OneAtATime'
    BY <2>2, StillLine DEF Shape, Open, pageVars
  <2>4. Typed' /\ Bounds'
    BY <2>1, <2>2 DEF pageVars, Shape, Typed, TypeOK, Bounds, Fits, Running
  <2> QED  BY <2>3, <2>4 DEF Shape
<1> QED
  BY <1>1, <1>2, <1>3, <1>4, <1>5, <1>6, <1>7, <1>8, <1>9, <1>10 DEF Next

\* The shell starts with one poll on its way.
LEMMA InitShape == Init => Shape
<1> SUFFICES ASSUME Init PROVE Shape
  OBVIOUS
<1>1. /\ queue = <<Command("alive", 1), Command("url", 1)>> /\ replies = <<>>
      /\ chain = [c \in Chains |-> IF c = 1 THEN "url" ELSE "none"] /\ 1 \in Chains
  BY ShellAssumption DEF Init, PollCommands, Chains
<1>2. /\ Command("alive", 1) \in Queued /\ Command("url", 1) \in Queued
      /\ Command("alive", 1).cmd = "alive" /\ Command("url", 1).cmd = "url"
      /\ Command("alive", 1).chain = 1 /\ Command("url", 1).chain = 1
  BY <1>1, CommandFields DEF Commands
<1>3. /\ queue \in Seq(Queued) /\ Len(queue) = 2 /\ Len(replies) = 0 /\ DOMAIN replies = {}
      /\ queue[1].cmd = "alive" /\ queue[1].chain = 1
      /\ queue[2].cmd = "url" /\ queue[2].chain = 1 /\ replies \in Seq(Settled)
  BY <1>1, <1>2
<1>4. Typed
  <2>1. 1 \in Servers /\ starts = 1 /\ server \in {None, 1}
    BY ShellAssumption DEF Init, Servers
  <2>2. /\ proc \in [Servers -> {"unborn", "starting", "ready", "dead"}]
        /\ \A n \in Servers : proc[n] = "unborn" <=> n > starts
    BY <2>1 DEF Init, Servers
  <2>3. /\ tied \subseteq Servers /\ nav \subseteq Servers /\ at \in Servers \cup {None}
        /\ url \in [Chains -> Servers \cup {None}]
        /\ chain \in [Chains -> {"none", "timer", "url", "ready", "over"}]
        /\ \A c \in Chains : chain[c] # "ready"
    BY <2>1 DEF Init
  <2> QED  BY <1>3, <2>1, <2>2, <2>3 DEF Init, Typed, TypeOK, Queued
<1>5. Bounds
  <2>1. starts = 1 /\ server \in {0, 1} /\ at = 0 /\ nav = {} /\ tied \subseteq {server}
    BY DEF Init, None
  <2>2. \A c \in Chains : url[c] = 0
    BY DEF Init, None
  <2>3. server <= starts /\ at <= starts
    BY <2>1
  <2>4. \A n \in nav \cup tied : n <= starts
    BY <2>1, <2>3
  <2>5. \A c \in Chains : url[c] <= starts
    BY <2>1, <2>2
  <2> QED  BY <1>3, <2>3, <2>4, <2>5 DEF Bounds
<1>6. OneAtATime
  BY <1>1, <1>3 DEF OneAtATime, Known, Once, Total, Cmd, For
<1> QED  BY <1>4, <1>5, <1>6 DEF Shape

\* The types of the shell, of what is on its way and of the page; a chain that asks
\* whether its server is ready has read its url.
THEOREM ShellTypeCorrect == Spec => []TypeOK
<1>1. Shape => TypeOK
  BY DEF Shape, Typed
<1> QED  BY <1>1, InitShape, NextShape, PTL DEF Spec

------------------------------------------------------------------------------
(* No server is left behind. *)

\* Every step keeps the servers in hand: a restart stops the one before, and no
\* server starts by itself.
LEMMA NextNoOrphan == Shape /\ NoOrphan /\ [Next]_vars => NoOrphan'
<1> SUFFICES ASSUME Shape, NoOrphan, [Next]_vars PROVE NoOrphan'
  OBVIOUS
<1>1. ASSUME UNCHANGED <<proc, server, tied>>, view' \in {view, "live", "error", "app"}
      PROVE  NoOrphan'
  BY <1>1 DEF NoOrphan, Running
<1>2. CASE Execute
  <2>1. CASE Query(Head(queue))
    BY <1>1, <2>1 DEF Query, shellVars, pageVars
  <2>2. CASE Restart
    <3>1. Open /\ starts' = starts + 1 /\ view' = view
      BY <1>2, <2>2 DEF Execute, Restart, pageVars
    <3>2. \A n \in Servers : Stopped[n] \notin {"starting", "ready"}
      BY StoppedFacts DEF Shape, Typed, Bounds, NoOrphan, Running
    <3>3. \A n \in Servers : Running(n)' => n = starts' /\ server' = starts'
      BY <2>2, <3>2, StoppedFacts DEF Shape, Typed, Bounds, Restart, StartServer, Running
    <3> QED  BY <3>1, <3>3 DEF NoOrphan, Open
  <2>3. CASE Destroyed
    BY <2>3, StoppedFacts DEF Shape, Typed, Bounds, Destroyed, NoOrphan, Running
  <2> QED  BY <1>2, <2>1, <2>2, <2>3 DEF Execute
<1>3. CASE Settle
  BY <1>1, <1>3 DEF Settle, OnAlive, Die, OnUrl, OnReady, OnRestart, shellVars
<1>4. CASE Crash
  BY <1>4 DEF Crash, NoOrphan, Running
<1>5. ASSUME NEW n \in Servers, ComeUp(n) \/ Exit(n) PROVE NoOrphan'
  <2>1. PICK s \in {"ready", "dead"} : proc' = [proc EXCEPT ![n] = s]
    BY <1>5 DEF ComeUp, Exit
  <2>2. Running(n) /\ UNCHANGED <<server, tied, view>>
    BY <1>5 DEF ComeUp, Exit, Running, pageVars
  <2>3. \A m \in Servers : Running(m)' => Running(m)
    BY <2>1, <2>2 DEF Running, Shape, Typed, TypeOK
  <2> QED  BY <2>2, <2>3 DEF NoOrphan
<1>6. CASE UNCHANGED vars \/ Deadline \/ Retry \/ Navigate \/ Close \/ \E c \in Chains : Poll(c)
  BY <1>1, <1>6 DEF vars, shellVars, pageVars, Deadline, Die, Retry, Navigate, Close, Poll
<1> QED
  BY <1>2, <1>3, <1>4, <1>5, <1>6 DEF Next

\* For any number of restarts: what runs is the server the shell keeps, none after
\* the window closed, and after a crash none that the job object held.
THEOREM AlwaysNoOrphan == Spec => []NoOrphan
<1>1. Init => NoOrphan
  BY ShellAssumption DEF Init, NoOrphan, Running, Servers
<1> QED  BY <1>1, InitShape, NextShape, NextNoOrphan, PTL DEF Spec

------------------------------------------------------------------------------
(* The window opens on a server that answered. *)

\* What is known of the server that is kept.
Vouched(n) == n # None /\ (n = server => n \in answered)
\* A ready answer on its way vouches for the url its chain has read, a timer for
\* the server it navigates to.
ReadyVouched ==
    Open => \A i \in DOMAIN replies :
              replies[i].cmd = "ready" /\ replies[i].val = TRUE => Vouched(url[replies[i].chain])
AllVouched ==
    /\ ReadyVouched
    /\ \A n \in nav : Vouched(n)
    /\ view = "app" => Vouched(at)

\* A server that was vouched for stays so: numbers are not used again.
LEMMA StaysVouched ==
  ASSUME Shape, [Next]_vars, NEW n \in 0..starts, Vouched(n)
  PROVE  Vouched(n)'
<1>1. CASE server' = server /\ answered \subseteq answered'
  BY <1>1 DEF Vouched
<1>2. CASE Execute
  <2>1. CASE Query(Head(queue))
    BY <1>1, <2>1 DEF Query, shellVars
  <2>2. CASE Restart
    <3>1. server' = None \/ server' = starts + 1
      BY <2>2 DEF Restart, StartServer
    <3>2. starts \in Nat
      BY DEF Shape, Typed, TypeOK, Servers
    <3> QED  BY <3>1, <3>2 DEF Vouched
  <2>3. CASE Destroyed
    BY <1>1, <2>3 DEF Destroyed
  <2> QED  BY <1>2, <2>1, <2>2, <2>3 DEF Execute
<1>3. CASE ~Execute
  <2>1. server' = server /\ answered' = answered
    BY <1>3 DEF Next, vars, shellVars, pageVars, Settle, Deadline, Retry, Navigate, Close, Crash,
                Poll, ComeUp, Exit
  <2> QED  BY <1>1, <2>1
<1> QED  BY <1>2, <1>3

\* Where the replies and the next command are in the line.
LEMMA InLine ==
  ASSUME Typed, OneAtATime
  PROVE  /\ \A i \in DOMAIN replies :
              replies[i].cmd = "ready" => /\ replies[i].chain \in Chains
                                          /\ chain[replies[i].chain] = "ready"
         /\ queue # <<>> /\ Head(queue).cmd = "ready" => /\ Head(queue).chain \in Chains
                                                        /\ chain[Head(queue).chain] = "ready"
<1>1. \A i \in DOMAIN replies : i \in 1..Total /\ Cmd(i) = replies[i].cmd /\ For(i) = replies[i].chain
  BY Lengths DEF Total, Cmd, For
<1>2. ASSUME queue # <<>>
      PROVE  /\ Len(replies) + 1 \in 1..Total
             /\ Cmd(Len(replies) + 1) = Head(queue).cmd /\ For(Len(replies) + 1) = Head(queue).chain
  <2>1. queue \in Seq(Queued)
    BY DEF Typed, TypeOK, Queued
  <2>2. Len(queue) \in Nat \ {0} /\ Head(queue) = queue[1]
    BY <1>2, <2>1, TailFacts
  <2> QED  BY <2>2, Lengths DEF Total, Cmd, For
<1> QED  BY <1>1, <1>2 DEF OneAtATime, Known

\* Every step keeps what is vouched for.
LEMMA NextAllVouched == Shape /\ AllVouched /\ [Next]_vars => AllVouched'
<1> SUFFICES ASSUME Shape, AllVouched, [Next]_vars PROVE AllVouched'
  OBVIOUS
<1>1. /\ starts \in Nat /\ server \in 0..starts /\ at \in 0..starts
      /\ \A n \in nav : n \in 0..starts
      /\ \A c \in Chains : url[c] \in 0..starts
      /\ \A c \in Chains : chain[c] = "ready" => url[c] # None
      /\ DOMAIN replies = 1..Len(replies) /\ Len(replies) \in Nat
  BY Lengths DEF Shape, Typed, TypeOK, Bounds, Servers, None
<1>2. \A n \in 0..starts : n # None /\ (n = server => n \in answered) => (n = server' => n \in answered')
  BY StaysVouched DEF Vouched
<1>3. Open => \A i \in DOMAIN replies :
                replies[i].cmd = "ready" => /\ replies[i].chain \in Chains
                                            /\ chain[replies[i].chain] = "ready"
  BY InLine DEF Shape
<1>4. ASSUME UNCHANGED <<nav, at, url>>, view' = "app" => view = "app", Open' => Open,
             \A i \in DOMAIN replies' :
                \/ i \in DOMAIN replies /\ replies'[i] = replies[i]
                \/ replies'[i].cmd = "ready" /\ replies'[i].val = TRUE =>
                     /\ url'[replies'[i].chain] # None
                     /\ url'[replies'[i].chain] = server' => server' \in answered'
      PROVE  AllVouched'
  <2>1. \A n \in nav' : Vouched(n)'
    BY <1>1, <1>2, <1>4 DEF AllVouched, Vouched
  <2>2. view' = "app" => Vouched(at)'
    BY <1>1, <1>2, <1>4 DEF AllVouched, Vouched
  <2>3. ASSUME Open', NEW i \in DOMAIN replies', replies'[i].cmd = "ready", replies'[i].val = TRUE
        PROVE  /\ url'[replies'[i].chain] # None
               /\ url'[replies'[i].chain] = server' => url'[replies'[i].chain] \in answered'
    <3>1. CASE i \in DOMAIN replies /\ replies'[i] = replies[i]
      BY <1>1, <1>2, <1>3, <1>4, <2>3, <3>1 DEF AllVouched, ReadyVouched, Vouched
    <3> QED  BY <1>4, <2>3, <3>1
  <2> QED  BY <2>1, <2>2, <2>3 DEF AllVouched, ReadyVouched, Vouched
<1>5. CASE UNCHANGED vars \/ Deadline \/ Retry \/ Close \/ (\E c \in Chains : Poll(c))
           \/ \E n \in Servers : ComeUp(n) \/ Exit(n)
  <2>1. UNCHANGED <<nav, at, url, replies>> /\ view' \in {view, "error"} /\ (Open' => Open)
    BY <1>5 DEF vars, shellVars, pageVars, Deadline, Die, Retry, Close, Poll, ComeUp, Exit, Open, OnSplash
  <2> QED  BY <1>4, <2>1
<1>6. CASE Execute
  <2>1. Open /\ queue # <<>>
    BY <1>6 DEF Execute
  <2>2. CASE Head(queue).cmd \in {"alive", "url", "ready"} /\ Query(Head(queue))
    <3> DEFINE q == Head(queue)
    <3>1. PICK val \in Answers(q.cmd) :
             /\ replies' = Append(replies, Reply(q.cmd, q.chain, val))
             /\ answered' = IF q.cmd = "ready" /\ val THEN answered \cup {server} ELSE answered
             /\ UNCHANGED <<shellVars, pageVars>>
      BY <2>2 DEF Query
    <3> DEFINE r == Reply(q.cmd, q.chain, val)
    <3>2. r.cmd = q.cmd /\ r.chain = q.chain /\ r.val = val
      BY DEF Reply
    <3>3. /\ DOMAIN replies' = 1..(Len(replies) + 1) /\ replies'[Len(replies) + 1] = r
          /\ \A i \in 1..Len(replies) : replies'[i] = replies[i]
      BY <1>1, <3>1 DEF Shape, Typed
    <3>4. q.cmd = "ready" => url[q.chain] # None
      BY <1>1, <2>1, InLine DEF Shape
    <3> HIDE DEF r, q
    <3>5. r.cmd = "ready" /\ r.val = TRUE => url'[r.chain] # None /\ server' \in answered'
      BY <3>1, <3>2, <3>4 DEF shellVars, pageVars
    <3>6. \A i \in DOMAIN replies' : \/ i \in DOMAIN replies /\ replies'[i] = replies[i]
                                     \/ replies'[i] = r
      BY <1>1, <3>3
    <3>7. UNCHANGED <<nav, at, url, view>>
      BY <3>1 DEF pageVars
    <3> QED  BY <1>4, <2>1, <3>5, <3>6, <3>7
  <2>3. CASE Restart
    <3> DEFINE r == Reply("restart", None, server' # None)
    <3>1. r.cmd = "restart"
      BY DEF Reply
    <3>2. /\ DOMAIN replies' = 1..(Len(replies) + 1) /\ replies'[Len(replies) + 1] = r
          /\ \A i \in 1..Len(replies) : replies'[i] = replies[i]
      BY <1>1, <2>3 DEF Restart, Shape, Typed
    <3> HIDE DEF r
    <3>3. \A i \in DOMAIN replies' : \/ i \in DOMAIN replies /\ replies'[i] = replies[i]
                                     \/ replies'[i] = r
      BY <1>1, <3>2
    <3>4. UNCHANGED <<nav, at, url, view>>
      BY <2>3 DEF Restart, pageVars
    <3> QED  BY <1>4, <2>1, <3>1, <3>3, <3>4
  <2>4. CASE Destroyed
    <3>1. DOMAIN replies' = {} /\ UNCHANGED <<nav, at, url>> /\ view' = "closed"
      BY <2>4 DEF Destroyed
    <3> QED  BY <1>4, <2>1, <3>1
  <2> QED  BY <1>6, <2>2, <2>3, <2>4 DEF Execute
<1>7. CASE Crash
  <2>1. DOMAIN replies' = {} /\ UNCHANGED <<nav, at, url>> /\ view' = "crashed" /\ Open
    BY <1>7 DEF Crash
  <2> QED  BY <1>4, <2>1
<1>8. CASE Navigate
  <2>1. /\ at' \in nav /\ nav' = {} /\ UNCHANGED <<url, replies, server, answered, chain>> /\ Open
    BY <1>8 DEF Navigate, Open, OnSplash, shellVars
  <2> QED  BY <2>1 DEF AllVouched, ReadyVouched, Vouched
<1>9. CASE Settle
  <2> DEFINE r == Head(replies)
  <2>1. /\ Open /\ view # "app" /\ replies # <<>> /\ replies' = Tail(replies)
        /\ UNCHANGED <<server, answered, at>>
    BY <1>9 DEF Settle, Open, OnSplash, shellVars
  <2>2. /\ r = replies[1] /\ 1 \in DOMAIN replies /\ DOMAIN replies' = 1..(Len(replies) - 1)
        /\ \A i \in DOMAIN replies' : i + 1 \in DOMAIN replies /\ replies'[i] = replies[i + 1]
    <3>1. /\ Len(replies) \in Nat \ {0} /\ Len(replies') = Len(replies) - 1
          /\ replies' \in Seq(Settled) /\ Head(replies) = replies[1]
          /\ \A i \in 1..(Len(replies) - 1) : replies'[i] = replies[i + 1]
      BY <2>1, TailFacts DEF Shape, Typed
    <3>2. DOMAIN replies' = 1..(Len(replies) - 1)
      BY <3>1, LenProperties
    <3> QED  BY <1>1, <3>1, <3>2
  <2>3. /\ r.cmd = "url" => r.chain \in Chains /\ chain[r.chain] = "url"
        /\ r.cmd = "ready" => r.chain \in Chains /\ chain[r.chain] = "ready"
    BY <2>1, SettlesWaiting DEF Shape
  <2>4. view' # "app"
    BY <1>9, <2>1 DEF Settle, OnAlive, Die, OnUrl, OnReady, OnRestart
  <2>5. \A i \in DOMAIN replies : replies[i].cmd = "ready" => url'[replies[i].chain] = url[replies[i].chain]
    <3>1. url' = url \/ (r.cmd = "url" /\ url' = [url EXCEPT ![r.chain] = r.val])
      BY <1>9 DEF Settle, OnAlive, OnUrl, OnReady, OnRestart
    <3> QED  BY <1>3, <2>1, <2>3, <3>1 DEF Shape, Typed, TypeOK
  <2>6. nav' = nav \/ (r.cmd = "ready" /\ r.val = TRUE /\ nav' = nav \cup {url[r.chain]})
    <3>1. CASE r.cmd = "ready" /\ OnReady(r)
      <4>1. r.val \in BOOLEAN
        BY <2>2, <3>1 DEF Shape, Bounds, Fits
      <4> QED  BY <3>1, <4>1 DEF OnReady
    <3> QED  BY <1>9, <3>1 DEF Settle, OnAlive, OnUrl, OnRestart
  <2> HIDE DEF r
  <2>7. \A n \in nav' : Vouched(n)
    BY <2>1, <2>2, <2>6 DEF AllVouched, ReadyVouched
  <2>8. \A n \in nav' : Vouched(n)'
    BY <2>1, <2>7 DEF Vouched
  <2>9. ASSUME NEW i \in DOMAIN replies', replies'[i].cmd = "ready", replies'[i].val = TRUE
        PROVE  /\ url'[replies'[i].chain] # None
               /\ url'[replies'[i].chain] = server => url'[replies'[i].chain] \in answered
    BY <2>1, <2>2, <2>5, <2>9 DEF AllVouched, ReadyVouched, Vouched
  <2> QED  BY <2>1, <2>4, <2>8, <2>9 DEF AllVouched, ReadyVouched, Vouched
<1> QED
  BY <1>5, <1>6, <1>7, <1>8, <1>9 DEF Next

\* For any number of restarts: when the window shows the server that is kept, that
\* server has answered, whatever restart fell between its url and the answer.
THEOREM AlwaysAnswered == Spec => []AppHasAnswered
<1>1. Init => AllVouched
  BY DEF Init, AllVouched, ReadyVouched
<1>2. AllVouched => AppHasAnswered
  BY DEF AllVouched, Vouched, AppHasAnswered
<1> QED  BY <1>1, <1>2, InitShape, NextShape, NextAllVouched, PTL DEF Spec

------------------------------------------------------------------------------
(* The splash gives up early only on a server that is gone. *)

\* An answer that the server is gone is true, or the result of a restart is behind it.
GoneTrue ==
    \A i \in DOMAIN replies : replies[i].cmd = "alive" /\ replies[i].val = FALSE =>
        ~Alive \/ \E j \in DOMAIN replies : j > i /\ replies[j].cmd = "restart"
RetryShut == retrying => view # "live"

\* Only a restart brings a server that is gone back to life.
LEMMA StaysGone ==
  ASSUME Shape, [Next]_vars, ~Alive, ~(Execute /\ Restart)
  PROVE  ~Alive'
<1>1. ASSUME server' = server, \A n \in Servers : proc[n] = "dead" => proc'[n] = "dead"
      PROVE  ~Alive'
  BY <1>1 DEF Alive, Shape, Typed, TypeOK
<1>2. CASE Execute
  <2>1. CASE Query(Head(queue))
    BY <1>1, <2>1 DEF Query, shellVars
  <2>2. CASE Destroyed
    BY <1>1, <2>2, StoppedFacts DEF Destroyed, Shape, Typed, Bounds
  <2> QED  BY <1>2, <2>1, <2>2 DEF Execute
<1>3. ASSUME NEW n \in Servers, ComeUp(n) \/ Exit(n) PROVE ~Alive'
  <2>1. PICK s \in {"ready", "dead"} : proc' = [proc EXCEPT ![n] = s]
    BY <1>3 DEF ComeUp, Exit
  <2>2. proc[n] # "dead" \/ s = "dead"
    BY <1>3 DEF ComeUp, Exit, Running
  <2>3. server' = server /\ proc[n] # "dead"
    BY <1>3 DEF ComeUp, Exit, Running
  <2> QED  BY <1>1, <2>1, <2>3 DEF Shape, Typed, TypeOK
<1>4. CASE Crash
  BY <1>1, <1>4 DEF Crash
<1>5. CASE UNCHANGED shellVars
  BY <1>1, <1>5 DEF shellVars
<1> QED
  BY <1>2, <1>3, <1>4, <1>5 DEF Next, vars, Settle, Deadline, Retry, Navigate, Close, Poll

\* Every step keeps the answers true.
LEMMA NextGoneTrue ==
  Shape /\ GoneTrue /\ RetryShut /\ [Next]_vars => GoneTrue' /\ RetryShut'
<1> SUFFICES ASSUME Shape, GoneTrue, RetryShut, [Next]_vars PROVE GoneTrue' /\ RetryShut'
  OBVIOUS
<1>1. DOMAIN replies = 1..Len(replies) /\ Len(replies) \in Nat
  BY Lengths DEF Shape
<1>2. RetryShut'
  <2>1. CASE Settle
    BY <2>1 DEF RetryShut, Settle, OnAlive, Die, OnUrl, OnReady, OnRestart
  <2>2. CASE ~Settle
    BY <2>2 DEF RetryShut, Next, vars, pageVars, Execute, Query, Restart, Destroyed, Deadline, Die,
                Retry, Navigate, Close, Crash, Poll, ComeUp, Exit
  <2> QED  BY <2>1, <2>2
<1>3. ASSUME replies' = replies, ~(Execute /\ Restart) PROVE GoneTrue'
  BY <1>3, StaysGone DEF GoneTrue
<1>4. ASSUME DOMAIN replies' = {} PROVE GoneTrue'
  BY <1>4 DEF GoneTrue
<1>5. CASE Execute /\ Query(Head(queue)) /\ Head(queue).cmd \in {"alive", "url", "ready"}
  <2> DEFINE q == Head(queue)
  <2>1. PICK val \in Answers(q.cmd) : /\ replies' = Append(replies, Reply(q.cmd, q.chain, val))
                                      /\ UNCHANGED shellVars
    BY <1>5 DEF Query
  <2> DEFINE r == Reply(q.cmd, q.chain, val)
  <2>2. r.cmd = q.cmd /\ r.val = val
    BY DEF Reply
  <2>3. /\ DOMAIN replies' = 1..(Len(replies) + 1) /\ replies'[Len(replies) + 1] = r
        /\ \A i \in 1..Len(replies) : replies'[i] = replies[i]
    BY <1>1, <2>1 DEF Shape, Typed
  <2>4. q.cmd = "alive" /\ val = FALSE => ~Alive
    BY AnswersFacts DEF Shape, Typed
  <2>5. Alive' = Alive
    BY <2>1 DEF shellVars, Alive
  <2> HIDE DEF r, q
  <2>6. \A i \in DOMAIN replies' : \/ i \in DOMAIN replies /\ replies'[i] = replies[i]
                                   \/ replies'[i] = r
    BY <1>1, <2>3
  <2>7. DOMAIN replies \subseteq DOMAIN replies'
    BY <1>1, <2>3
  <2>8. ASSUME NEW i \in DOMAIN replies', replies'[i].cmd = "alive", replies'[i].val = FALSE
        PROVE  ~Alive' \/ \E j \in DOMAIN replies' : j > i /\ replies'[j].cmd = "restart"
    <3>1. CASE replies'[i] = r
      BY <2>2, <2>4, <2>5, <2>8, <3>1
    <3>2. CASE i \in DOMAIN replies /\ replies'[i] = replies[i] /\ Alive
      <4>1. PICK j \in DOMAIN replies : j > i /\ replies[j].cmd = "restart"
        BY <2>8, <3>2 DEF GoneTrue
      <4>2. j \in DOMAIN replies' /\ replies'[j] = replies[j]
        BY <1>1, <2>3, <2>7
      <4> QED  BY <4>1, <4>2
    <3> QED  BY <2>5, <2>6, <3>1, <3>2
  <2> QED  BY <1>2, <2>8 DEF GoneTrue
<1>6. CASE Execute /\ Restart
  <2> DEFINE r == Reply("restart", None, server' # None)
  <2>1. r.cmd = "restart"
    BY DEF Reply
  <2>2. /\ DOMAIN replies' = 1..(Len(replies) + 1) /\ replies'[Len(replies) + 1] = r
    BY <1>1, <1>6 DEF Restart, Shape, Typed
  <2> HIDE DEF r
  <2>3. \A i \in DOMAIN replies' : \/ Len(replies) + 1 > i
                                   \/ replies'[i].cmd = "restart"
    BY <1>1, <2>1, <2>2
  <2>4. Len(replies) + 1 \in DOMAIN replies' /\ replies'[Len(replies) + 1].cmd = "restart"
    BY <1>1, <2>1, <2>2
  <2>5. ASSUME NEW i \in DOMAIN replies', replies'[i].cmd = "alive"
        PROVE  \E j \in DOMAIN replies' : j > i /\ replies'[j].cmd = "restart"
    BY <2>3, <2>4, <2>5
  <2> QED  BY <1>2, <2>5 DEF GoneTrue
<1>7. CASE Settle
  <2>1. /\ replies # <<>> /\ replies' = Tail(replies) /\ UNCHANGED shellVars
    BY <1>7 DEF Settle
  <2>2. /\ DOMAIN replies' = 1..(Len(replies) - 1)
        /\ \A i \in 1..(Len(replies) - 1) : replies'[i] = replies[i + 1]
    <3>1. /\ Len(replies) \in Nat \ {0} /\ Len(replies') = Len(replies) - 1
          /\ replies' \in Seq(Settled)
          /\ \A i \in 1..(Len(replies) - 1) : replies'[i] = replies[i + 1]
      BY <2>1, TailFacts DEF Shape, Typed
    <3> QED  BY <3>1, LenProperties
  <2>3. Alive' = Alive
    BY <2>1 DEF shellVars, Alive
  <2>4. ASSUME NEW i \in DOMAIN replies', replies'[i].cmd = "alive", replies'[i].val = FALSE, Alive'
        PROVE  \E j \in DOMAIN replies' : j > i /\ replies'[j].cmd = "restart"
    <3>1. i + 1 \in DOMAIN replies /\ replies[i + 1].cmd = "alive" /\ replies[i + 1].val = FALSE
      BY <1>1, <2>2, <2>4
    <3>2. PICK j \in DOMAIN replies : j > i + 1 /\ replies[j].cmd = "restart"
      BY <2>3, <2>4, <3>1 DEF GoneTrue
    <3>3. j - 1 \in DOMAIN replies' /\ j - 1 > i /\ replies'[j - 1] = replies[j]
      BY <1>1, <2>2, <2>4, <3>2
    <3> QED  BY <3>2, <3>3
  <2> QED  BY <1>2, <2>4 DEF GoneTrue
<1>8. GoneTrue'
  <2>1. CASE Execute
    <3>1. CASE Destroyed
      BY <1>4, <3>1 DEF Destroyed
    <3> QED  BY <1>5, <1>6, <2>1, <3>1 DEF Execute
  <2>2. CASE Crash
    BY <1>4, <2>2 DEF Crash
  <2>3. CASE ~Execute /\ ~Settle /\ ~Crash
    <3>1. replies' = replies
      BY <2>3 DEF Next, vars, Deadline, Retry, Navigate, Close, Poll, ComeUp, Exit
    <3> QED  BY <1>3, <2>3, <3>1
  <2> QED  BY <1>7, <2>1, <2>2, <2>3
<1> QED  BY <1>2, <1>8

\* For any number of restarts: an answer about a server that was replaced never ends
\* the run of the next one.
THEOREM AlwaysFastFailTrue == Spec => FastFailTrue
<1>1. Init => GoneTrue /\ RetryShut
  BY DEF Init, GoneTrue, RetryShut
<1>2. Shape /\ GoneTrue /\ RetryShut /\ [Next]_vars =>
        [view = "live" /\ view' = "error" /\ Len(replies') < Len(replies) => ~Alive]_vars
  <2> SUFFICES ASSUME Shape, GoneTrue, RetryShut, Next,
                      view = "live", view' = "error", Len(replies') < Len(replies)
               PROVE  ~Alive
    BY DEF vars, pageVars
  <2>1. Settle
    <3>1. Len(replies) \in Nat
      BY Lengths DEF Shape
    <3>2. ~Deadline /\ ~Retry /\ ~Navigate /\ ~Close /\ ~Crash
      BY <3>1 DEF Deadline, Retry, Navigate, Close, Crash, pageVars
    <3>3. ~Execute
      BY DEF Execute, Query, Restart, Destroyed, pageVars
    <3>4. \A c \in Chains : ~Poll(c)
      BY DEF Poll
    <3>5. \A n \in Servers : ~ComeUp(n) /\ ~Exit(n)
      BY DEF ComeUp, Exit, pageVars
    <3> QED  BY <3>2, <3>3, <3>4, <3>5 DEF Next
  <2>2. /\ replies # <<>> /\ OneAtATime /\ Typed /\ ~retrying
    BY <2>1 DEF Settle, Shape, Open, RetryShut
  <2>3. Head(replies).cmd = "alive" /\ ~Head(replies).val
    BY <2>1 DEF Settle, OnAlive, OnUrl, OnReady, OnRestart
  <2>4. /\ DOMAIN replies = 1..Len(replies) /\ 1 \in DOMAIN replies /\ Head(replies) = replies[1]
    BY <2>2, TailFacts, LenProperties DEF Typed
  <2>5. replies[1].val = FALSE
    BY <2>3, <2>4 DEF Shape, Bounds, Fits
  <2>6. \A j \in DOMAIN replies : replies[j].cmd # "restart"
    <3>1. \A j \in 1..Len(replies) : j \in 1..Total /\ Cmd(j) = replies[j].cmd
      BY <2>2, Lengths DEF Total, Cmd
    <3> QED  BY <2>2, <2>4, <3>1 DEF OneAtATime, Known
  <2> QED  BY <2>3, <2>4, <2>5, <2>6 DEF GoneTrue
<1> QED  BY <1>1, <1>2, InitShape, NextShape, NextGoneTrue, PTL DEF Spec, FastFailTrue
==============================================================================
