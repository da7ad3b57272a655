----------------------------- MODULE DesktopShell -----------------------------
(***************************************************************************)
(* The desktop shell's start-up: the Tauri process that starts, watches,   *)
(* restarts and stops the Python server (desktop/src-tauri), and the       *)
(* splash page that polls it until it navigates or gives up                *)
(* (desktop/dist/index.html).                                              *)
(*                                                                         *)
(* The page invokes commands and goes on; the shell runs them one after    *)
(* the other on its main thread and their promises settle in that order.   *)
(* A wedged shell stops running them.  Servers are numbered in the order   *)
(* they are started, and the number stands for the port.  The log, the     *)
(* steps and the texts of the page are left out.                           *)
(***************************************************************************)
EXTENDS Naturals, Sequences, FiniteSets

CONSTANTS
    MaxStarts,  \* bound: servers started, the retries included
    MaxPolls    \* bound: polls of the page

ASSUME ShellAssumption == MaxStarts \in Nat \ {0} /\ MaxPolls \in Nat

None == 0
Servers == 1..MaxStarts
Chains == 1..MaxStarts
Commands == {"alive", "url", "ready", "restart", "destroyed"}

VARIABLES
    \* the shell
    server,   \* AppState.server: the server it keeps, or None
    starts,   \* servers started so far
    proc,     \* the processes: "unborn", "starting", "ready", "dead"
    tied,     \* the processes the kill-on-close job object holds
    queue,    \* commands invoked and not yet run
    replies,  \* results on their way to the page
    \* the page
    view,     \* "live", "error", "app" (navigated away), "closed", "crashed"
    finished, clock,  \* its flag and its interval
    retrying, \* the retry button is disabled
    chain,    \* its poll chains: "none", "timer", "url", "ready", "over"
    url,      \* the url a chain has read
    nav,      \* the servers that timers are about to navigate to
    at,       \* the server the window shows
    polls,
    answered  \* history: the servers that answered /health

shellVars == <<server, starts, proc, tied>>
pageVars == <<view, finished, clock, retrying, chain, url, nav, at, polls>>
vars == <<shellVars, queue, replies, pageVars, answered>>

Running(n) == proc[n] \in {"starting", "ready"}
Open == view \notin {"closed", "crashed"}
OnSplash == view \in {"live", "error"}
Command(cmd, c) == [cmd |-> cmd, chain |-> c]
Reply(cmd, c, val) == [cmd |-> cmd, chain |-> c, val |-> val]

\* The first chain's poll() is called as the page loads.
PollCommands(c) == <<Command("alive", c), Command("url", c)>>

\* setup: the server starts, or it does not and the splash reports it.
Init ==
    /\ server \in {None, 1}
    /\ starts = 1
    /\ proc = [n \in Servers |-> IF n > 1 THEN "unborn"
                                 ELSE IF server = 1 THEN "starting" ELSE "dead"]
    /\ tied \in SUBSET ({server} \ {None})
    /\ queue = PollCommands(1)
    /\ replies = <<>>
    /\ view = "live" /\ finished = FALSE /\ clock = TRUE /\ retrying = FALSE
    /\ chain = [c \in Chains |-> IF c = 1 THEN "url" ELSE "none"]
    /\ url = [c \in Chains |-> None]
    /\ nav = {} /\ at = None
    /\ polls = 0
    /\ answered = {}

-----------------------------------------------------------------------------
\* The shell's commands.

Alive == server # None /\ proc[server] # "dead"
Ready == server # None /\ proc[server] = "ready"

\* stop: the process is killed and waited for.
Stopped == IF server = None THEN proc ELSE [proc EXCEPT ![server] = "dead"]

\* The health request may time out on a ready server, and a dead one be taken
\* for alive when its state cannot be read.
Answers(cmd) ==
    CASE cmd = "alive" -> {Alive, server # None}
      [] cmd = "url" -> {server}
      [] cmd = "ready" -> {Ready, FALSE}

Query(q) ==
    \E val \in Answers(q.cmd) :
        /\ replies' = Append(replies, Reply(q.cmd, q.chain, val))
        /\ answered' = IF q.cmd = "ready" /\ val THEN answered \cup {server} ELSE answered
        /\ UNCHANGED <<shellVars, pageVars>>

\* Server::start on a new port; no spawn, no server.  A process that cannot be
\* put into the job object is kept all the same.
StartServer(before, n) ==
    \/ /\ server' = n
       /\ proc' = [before EXCEPT ![n] = "starting"]
       /\ tied' \in {tied, tied \cup {n}}
    \/ /\ server' = None
       /\ proc' = [before EXCEPT ![n] = "dead"]
       /\ UNCHANGED tied

\* restart_server: stop the one kept, start another, which may fail.
Restart ==
    /\ starts < MaxStarts
    /\ starts' = starts + 1
    /\ StartServer(Stopped, starts')
    /\ replies' = Append(replies, Reply("restart", None, server' # None))
    /\ UNCHANGED <<pageVars, answered>>

\* Mutant: the server is left to the job object.
DestroyedLeaves ==
    /\ view' = "closed"
    /\ proc' = [n \in Servers |-> IF n \in tied THEN "dead" ELSE proc[n]]
    /\ replies' = <<>>
    /\ UNCHANGED <<server, starts, tied, finished, clock, retrying, chain, url, nav, at,
                   polls, answered>>

\* WindowEvent::Destroyed: the server is stopped, and the process ends.
Destroyed ==
    /\ view' = "closed"
    /\ proc' = Stopped
    /\ replies' = <<>>
    /\ UNCHANGED <<server, starts, tied, finished, clock, retrying, chain, url, nav, at,
                   polls, answered>>

Execute ==
    /\ Open
    /\ queue # <<>>
    /\ queue' = Tail(queue)
    /\ LET q == Head(queue) IN
         \/ q.cmd \in {"alive", "url", "ready"} /\ Query(q)
         \/ q.cmd = "restart" /\ Restart
         \/ q.cmd = "destroyed" /\ Destroyed

-----------------------------------------------------------------------------
\* The page.

\* die: once; the clock is cleared and the error panel shown.
Die ==
    \/ /\ finished
       /\ UNCHANGED <<view, finished, clock>>
    \/ /\ ~finished
       /\ finished' = TRUE
       /\ clock' = FALSE
       /\ view' = "error"

\* A poll chain goes round on a timer; one that finds the run finished is over.
Poll(c) ==
    /\ OnSplash
    /\ chain[c] = "timer"
    /\ \/ /\ finished
          /\ chain' = [chain EXCEPT ![c] = "over"]
          /\ UNCHANGED <<queue, polls>>
       \/ /\ ~finished
          /\ polls < MaxPolls
          /\ polls' = polls + 1
          /\ queue' = queue \o PollCommands(c)
          /\ chain' = [chain EXCEPT ![c] = "url"]
    /\ UNCHANGED <<shellVars, replies, view, finished, clock, retrying, url, nav, at,
                   answered>>

OnAlive(r) ==
    /\ \/ r.val /\ UNCHANGED <<view, finished, clock>>
       \/ ~r.val /\ Die
    /\ UNCHANGED <<queue, retrying, chain, url, nav>>

\* Mutant: a server that has a url is taken to be ready.
OnUrlNavigates(r) ==
    /\ chain' = [chain EXCEPT ![r.chain] = IF r.val = None THEN "timer" ELSE "over"]
    /\ nav' = IF r.val = None THEN nav ELSE nav \cup {r.val}
    /\ UNCHANGED <<queue, view, finished, clock, retrying, url>>

\* Mutant: a missing url is not noticed.
OnUrlAsks(r) ==
    /\ chain' = [chain EXCEPT ![r.chain] = "ready"]
    /\ url' = [url EXCEPT ![r.chain] = r.val]
    /\ queue' = Append(queue, Command("ready", r.chain))
    /\ UNCHANGED <<view, finished, clock, retrying, nav>>

\* No url yet: round again.  Otherwise ask whether it is ready.
OnUrl(r) ==
    /\ \/ /\ r.val = None
          /\ chain' = [chain EXCEPT ![r.chain] = "timer"]
          /\ UNCHANGED <<queue, url>>
       \/ /\ r.val # None
          /\ chain' = [chain EXCEPT ![r.chain] = "ready"]
          /\ url' = [url EXCEPT ![r.chain] = r.val]
          /\ queue' = Append(queue, Command("ready", r.chain))
    /\ UNCHANGED <<view, finished, clock, retrying, nav>>

\* The callback does not look at finished: a run that failed may still navigate.
OnReady(r) ==
    /\ \/ /\ ~r.val
          /\ chain' = [chain EXCEPT ![r.chain] = "timer"]
          /\ UNCHANGED <<finished, clock, nav>>
       \/ /\ r.val
          /\ chain' = [chain EXCEPT ![r.chain] = "over"]
          /\ finished' = TRUE
          /\ clock' = FALSE
          /\ nav' = nav \cup {url[r.chain]}
    /\ UNCHANGED <<queue, view, retrying, url>>

\* The retry button's callback: a new run with a poll chain of its own, or the
\* panel stays.
OnRestart(r) ==
    /\ retrying' = FALSE
    /\ \/ /\ ~r.val
          /\ UNCHANGED <<queue, view, finished, clock, chain>>
       \/ /\ r.val
          /\ view' = "live"
          /\ finished' = FALSE
          /\ clock' = TRUE
          /\ \E c \in Chains :
               /\ chain[c] = "none"
               /\ \A d \in Chains : d < c => chain[d] # "none"
               /\ chain' = [chain EXCEPT ![c] = "url"]
               /\ queue' = queue \o PollCommands(c)
    /\ UNCHANGED <<url, nav>>

Settle ==
    /\ OnSplash
    /\ replies # <<>>
    /\ replies' = Tail(replies)
    /\ LET r == Head(replies) IN
         \/ r.cmd = "alive" /\ OnAlive(r)
         \/ r.cmd = "url" /\ OnUrl(r)
         \/ r.cmd = "ready" /\ OnReady(r)
         \/ r.cmd = "restart" /\ OnRestart(r)
    /\ UNCHANGED <<shellVars, at, polls, answered>>

\* Mutant: the deadline is looked at by the poll chain, not by a clock.
DeadlineInPoll ==
    /\ OnSplash
    /\ \E c \in Chains : chain[c] = "timer"
    /\ clock
    /\ ~finished
    /\ Die
    /\ UNCHANGED <<shellVars, queue, replies, retrying, chain, url, nav, at, polls,
                   answered>>

\* tickClock: the deadline runs on an interval of its own.
Deadline ==
    /\ OnSplash
    /\ clock
    /\ ~finished
    /\ Die
    /\ UNCHANGED <<shellVars, queue, replies, retrying, chain, url, nav, at, polls,
                   answered>>

\* Mutant: the page starts the new run before the shell has restarted.
RetryEarly ==
    /\ view = "error"
    /\ ~retrying
    /\ starts + Cardinality({i \in DOMAIN queue : queue[i].cmd = "restart"}) < MaxStarts
    /\ queue' = Append(queue, Command("restart", None))
    /\ retrying' = TRUE
    /\ view' = "live" /\ finished' = FALSE /\ clock' = TRUE
    /\ UNCHANGED <<shellVars, replies, chain, url, nav, at, polls, answered>>

\* The user tries again from the error panel.
Retry ==
    /\ view = "error"
    /\ ~retrying
    /\ starts < MaxStarts
    /\ retrying' = TRUE
    /\ queue' = Append(queue, Command("restart", None))
    /\ UNCHANGED <<shellVars, replies, view, finished, clock, chain, url, nav, at,
                   polls, answered>>

\* window.location.replace, 420 ms after the ready answer: the page is gone.
Navigate ==
    /\ OnSplash
    /\ at' \in nav
    /\ view' = "app"
    /\ nav' = {}
    /\ clock' = FALSE
    /\ UNCHANGED <<shellVars, queue, replies, finished, retrying, chain, url, polls,
                   answered>>

\* The user closes the window: an event behind the commands before it.
Close ==
    /\ Open
    /\ \A i \in DOMAIN queue : queue[i].cmd # "destroyed"
    /\ queue' = Append(queue, Command("destroyed", None))
    /\ UNCHANGED <<shellVars, replies, pageVars, answered>>

-----------------------------------------------------------------------------
\* The server comes up, or exits, on its own.
ComeUp(n) ==
    /\ proc[n] = "starting"
    /\ proc' = [proc EXCEPT ![n] = "ready"]
    /\ UNCHANGED <<server, starts, tied, queue, replies, pageVars, answered>>

Exit(n) ==
    /\ Running(n)
    /\ proc' = [proc EXCEPT ![n] = "dead"]
    /\ UNCHANGED <<server, starts, tied, queue, replies, pageVars, answered>>

\* The shell crashes or is killed: the system closes the job object and ends the
\* processes in it.
Crash ==
    /\ Open
    /\ view' = "crashed"
    /\ proc' = [n \in Servers |-> IF n \in tied THEN "dead" ELSE proc[n]]
    /\ replies' = <<>>
    /\ UNCHANGED <<server, starts, tied, queue, finished, clock, retrying, chain, url,
                   nav, at, polls, answered>>

Next ==
    \/ Execute \/ Settle \/ Deadline \/ Retry \/ Navigate \/ Close \/ Crash
    \/ \E c \in Chains : Poll(c)
    \/ \E n \in Servers : ComeUp(n) \/ Exit(n)

Spec == Init /\ [][Next]_vars

\* The page's own timers run.  Nothing is assumed of the shell, which may be
\* wedged, of the server, or of the user.
FairSpec ==
    /\ Spec
    /\ WF_vars(Deadline)
    /\ WF_vars(Navigate)
    /\ \A c \in Chains : WF_vars(Poll(c))

-----------------------------------------------------------------------------
TypeOK ==
    /\ server \in Servers \cup {None}
    /\ starts \in Servers
    /\ proc \in [Servers -> {"unborn", "starting", "ready", "dead"}]
    /\ \A n \in Servers : proc[n] = "unborn" <=> n > starts
    /\ queue \in Seq([cmd: Commands, chain: Chains \cup {None}])
    /\ \A i \in DOMAIN replies : replies[i].cmd \in Commands
    /\ view \in {"live", "error", "app", "closed", "crashed"}
    /\ {finished, clock, retrying} \subseteq BOOLEAN
    /\ chain \in [Chains -> {"none", "timer", "url", "ready", "over"}]
    /\ \A c \in Chains : chain[c] = "ready" => url[c] # None
    /\ url \in [Chains -> Servers \cup {None}]
    /\ tied \subseteq Servers
    /\ nav \subseteq Servers /\ at \in Servers \cup {None}

\* The shell keeps every process of its own that still runs; closing the window
\* leaves none and a crash only one that the job object does not hold (server.rs:
\* a leaked server keeps its port and the state files, and the next launch fails).
NoOrphan ==
    \A n \in Servers : Running(n) => /\ n = server
                                     /\ view # "closed"
                                     /\ view = "crashed" => n \notin tied

\* The window never opens on the server the shell keeps before that server has
\* answered, though url and answer come from two commands and a restart may fall
\* between them.
AppHasAnswered == view = "app" /\ at = server => at \in answered

\* The splash gives up before its deadline only on a server that is gone: the
\* answer about a server that was replaced never ends the next one's run.
FastFailTrue ==
    [][view = "live" /\ view' = "error" /\ Len(replies') < Len(replies) =>
         ~Alive]_vars

\* The splash never waits for ever: it navigates, shows the error panel, or is
\* closed, even if the shell answers nothing.
SplashEnds == view = "live" ~> view # "live"
=============================================================================
