---------------------------- MODULE ServerProcess ----------------------------
(***************************************************************************)
(* One server process of CCLog (server.c), from its fork to its end, with  *)
(* the children it forks to serve clients, the clients, the signal the     *)
(* application sends to stop it, and who holds which descriptor.           *)
(*                                                                         *)
(* Every system call is a step, so that signals, clients and children come *)
(* between any two of them.  The calls of signal() in server_process_main  *)
(* do not fail: both signal numbers are valid.  A request is answered or   *)
(* not; what the pages hold is not modelled here.                          *)
(***************************************************************************)
EXTENDS Naturals, Sequences, FiniteSets

CONSTANTS
  Clients,
  Nobody,           \* client_fd when there is no client in hand
  AppDispositions,  \* what the application may have set SIGINT to
  BacklogSize,      \* SERVER_BACKLOG_SIZE
  MaxFailures       \* bound on failed calls of accept and fork

Dispositions == {"SIG_DFL", "SIG_IGN", "app_handler"}

ASSUME ServerAssumption ==
  /\ Nobody \notin Clients
  /\ AppDispositions \subseteq Dispositions
  /\ BacklogSize \in Nat

VARIABLES
  pc,               \* where the server process is
  server_continue,
  sigint,           \* the disposition of SIGINT in the server process
  sigchld_ignored,
  client_fd,        \* the client of client_fd
  fds,              \* clients whose connection the server process has open
  children,         \* by client, where its child is
  child_fds,        \* by child, the clients whose connection it has open
  zombies,          \* children that have exited and stay in the process table
  listening,        \* processes that have the listening socket open
  backlog,          \* clients in the queue of the listening socket
  requests,         \* by client, what its connection holds
  answered,         \* clients an answer was written to
  dropped,          \* clients whose fork failed
  kill_sent,        \* cclogger_server_stop has called kill
  pending,          \* SIGINT is pending
  failures

setupVars  == <<sigint, sigchld_ignored>>
loopVars   == <<pc, client_fd, fds, server_continue>>
childVars  == <<children, child_fds, zombies>>
clientVars == <<backlog, requests, answered>>
signalVars == <<kill_sent, pending>>
boundVars  == <<dropped, failures>>
vars == <<setupVars, loopVars, childVars, listening, clientVars, signalVars, boundVars>>

-----------------------------------------------------------------------------
(* server_process_main up to its loop.                                     *)

StartProcess ==
  /\ pc = "start" /\ pc' = "sigchld"
  /\ server_continue' = TRUE
  /\ UNCHANGED <<setupVars, client_fd, fds, childVars, listening, clientVars,
                 signalVars, boundVars>>

\* Mutant of IgnoreSigchld: the disposition stays the default.
IgnoreSigchldNot ==
  /\ pc = "sigchld" /\ pc' = "sigint"
  /\ UNCHANGED <<setupVars, client_fd, fds, server_continue, childVars, listening,
                 clientVars, signalVars, boundVars>>

IgnoreSigchld ==
  /\ pc = "sigchld" /\ pc' = "sigint"
  /\ sigchld_ignored' = TRUE
  /\ UNCHANGED <<sigint, client_fd, fds, server_continue, childVars, listening,
                 clientVars, signalVars, boundVars>>

InstallHandler ==
  /\ pc = "sigint" /\ pc' = "loop"
  /\ sigint' = "main_sig_int_handler"
  /\ UNCHANGED <<sigchld_ignored, client_fd, fds, server_continue, childVars,
                 listening, clientVars, signalVars, boundVars>>

-----------------------------------------------------------------------------
(* server_loop.                                                            *)

TestContinue ==
  /\ pc = "loop"
  /\ pc' = IF server_continue THEN "accept" ELSE "close"
  /\ UNCHANGED <<setupVars, client_fd, fds, server_continue, childVars, listening,
                 clientVars, signalVars, boundVars>>

\* Mutant of AcceptNothing: a blocking socket, without EAGAIN.
AcceptNothingBlocks ==
  /\ pc = "accept" /\ failures < MaxFailures
  /\ failures' = failures + 1
  /\ pc' = "loop"
  /\ UNCHANGED <<setupVars, client_fd, fds, server_continue, childVars, listening,
                 clientVars, signalVars, dropped>>

\* Mutant of AcceptNothing: an error of accept ends the loop.
AcceptNothingEnds ==
  /\ pc = "accept" /\ backlog = <<>>
  /\ pc' = "close"
  /\ UNCHANGED <<setupVars, client_fd, fds, server_continue, childVars, listening,
                 clientVars, signalVars, boundVars>>

\* EAGAIN, or another error: the loop goes on.
AcceptNothing ==
  /\ pc = "accept" /\ pc' = "loop"
  /\ \/ backlog = <<>> /\ UNCHANGED failures
     \/ failures < MaxFailures /\ failures' = failures + 1
  /\ UNCHANGED <<setupVars, client_fd, fds, server_continue, childVars, listening,
                 clientVars, signalVars, dropped>>

\* Mutant of AcceptClient: what accept returns is not tested.
AcceptUnchecked ==
  /\ pc = "accept"
  /\ client_fd' = (IF backlog = <<>> THEN Nobody ELSE Head(backlog))
  /\ backlog' = (IF backlog = <<>> THEN <<>> ELSE Tail(backlog))
  /\ fds' = fds \cup {client_fd'}
  /\ pc' = "fork"
  /\ UNCHANGED <<setupVars, server_continue, childVars, listening, requests, answered,
                 signalVars, boundVars>>

AcceptClient ==
  /\ pc = "accept" /\ backlog # <<>>
  /\ client_fd' = Head(backlog) /\ backlog' = Tail(backlog)
  /\ fds' = fds \cup {Head(backlog)}
  /\ pc' = "fork"
  /\ UNCHANGED <<setupVars, server_continue, childVars, listening, requests, answered,
                 signalVars, boundVars>>

\* The child has a copy of every descriptor of the server process.
ForkChild ==
  /\ pc = "fork" /\ pc' = "parent"
  /\ children' = [children EXCEPT ![client_fd] = "start"]
  /\ child_fds' = [child_fds EXCEPT ![client_fd] = fds]
  /\ listening' = listening \cup {client_fd}
  /\ UNCHANGED <<setupVars, client_fd, fds, server_continue, zombies, clientVars,
                 signalVars, boundVars>>

\* `continue' without a close of client_fd.
ForkFails ==
  /\ pc = "fork" /\ failures < MaxFailures
  /\ failures' = failures + 1
  /\ dropped' = dropped \cup {client_fd}
  /\ client_fd' = Nobody
  /\ pc' = "loop"
  /\ UNCHANGED <<setupVars, fds, server_continue, childVars, listening, clientVars,
                 signalVars>>

\* Mutant of ParentCloses: the descriptor stays open.
ParentClosesNot ==
  /\ pc = "parent" /\ pc' = "loop"
  /\ client_fd' = Nobody
  /\ UNCHANGED <<setupVars, fds, server_continue, childVars, listening, clientVars,
                 signalVars, boundVars>>

ParentCloses ==
  /\ pc = "parent" /\ pc' = "loop"
  /\ fds' = fds \ {client_fd}
  /\ client_fd' = Nobody
  /\ UNCHANGED <<setupVars, server_continue, childVars, listening, clientVars,
                 signalVars, boundVars>>

CloseSocket ==
  /\ pc = "close" /\ pc' = "cleanup"
  /\ listening' = listening \ {"server"}
  /\ UNCHANGED <<setupVars, client_fd, fds, server_continue, childVars, clientVars,
                 signalVars, boundVars>>

\* What exit does to the process, whatever ended it.
ProcessEnds ==
  /\ pc' = "exited"
  /\ fds' = {} /\ client_fd' = Nobody
  /\ listening' = listening \ {"server"}
  /\ zombies' = {}

\* cleanup_server_process frees memory of this process; then exit(0).
ExitProcess ==
  /\ pc = "cleanup"
  /\ ProcessEnds
  /\ UNCHANGED <<setupVars, server_continue, children, child_fds, clientVars,
                 signalVars, boundVars>>

-----------------------------------------------------------------------------
(* The child that serves client c.                                         *)

\* Mutant of ChildCloses: the child keeps the listening socket.
ChildClosesNot(c) ==
  /\ children[c] = "start"
  /\ children' = [children EXCEPT ![c] = "read"]
  /\ UNCHANGED <<setupVars, loopVars, child_fds, zombies, listening, clientVars,
                 signalVars, boundVars>>

\* close(fd), before server_serve.
ChildCloses(c) ==
  /\ children[c] = "start"
  /\ children' = [children EXCEPT ![c] = "read"]
  /\ listening' = listening \ {c}
  /\ UNCHANGED <<setupVars, loopVars, child_fds, zombies, clientVars, signalVars,
                 boundVars>>

\* The read blocks until the client has sent something or has gone; what does
\* not parse is not answered.
ChildReads(c) ==
  /\ children[c] = "read" /\ requests[c] # "none"
  /\ children' = [children EXCEPT ![c] = IF requests[c] = "valid" THEN "write" ELSE "exit"]
  /\ UNCHANGED <<setupVars, loopVars, child_fds, zombies, listening, clientVars,
                 signalVars, boundVars>>

\* build_response and write; a response that cannot be built is not written.
ChildWrites(c) ==
  /\ children[c] = "write"
  /\ children' = [children EXCEPT ![c] = "exit"]
  /\ answered' \in {answered, answered \cup {c}}
  /\ UNCHANGED <<setupVars, loopVars, child_fds, zombies, listening, backlog, requests,
                 signalVars, boundVars>>

\* A child of a process that has not ignored SIGCHLD, and never waits, stays
\* behind as a zombie.
ChildExits(c) ==
  /\ children[c] = "exit"
  /\ children' = [children EXCEPT ![c] = "exited"]
  /\ child_fds' = [child_fds EXCEPT ![c] = {}]
  /\ zombies' = IF sigchld_ignored \/ pc = "exited" THEN zombies ELSE zombies \cup {c}
  /\ UNCHANGED <<setupVars, loopVars, listening, clientVars, signalVars, boundVars>>

-----------------------------------------------------------------------------
(* The kernel, the application, the clients.                               *)

\* Who is in the queue when the last process closes the socket is not taken.
Connect(c) ==
  /\ requests[c] = "away"
  /\ listening # {} /\ Len(backlog) < BacklogSize
  /\ backlog' = Append(backlog, c)
  /\ requests' = [requests EXCEPT ![c] = "none"]
  /\ UNCHANGED <<setupVars, loopVars, childVars, listening, answered, signalVars,
                 boundVars>>

\* A client sends a request, or something else, or closes its side.
Send(c) ==
  /\ requests[c] = "none"
  /\ \E request \in {"valid", "other"}: requests' = [requests EXCEPT ![c] = request]
  /\ UNCHANGED <<setupVars, loopVars, childVars, listening, backlog, answered,
                 signalVars, boundVars>>

\* cclogger_server_stop.  A signal that is ignored is not even pending.
Kill ==
  /\ ~kill_sent /\ "app" \in listening
  /\ kill_sent' = TRUE
  /\ pending' = (sigint # "SIG_IGN" /\ pc # "exited")
  /\ UNCHANGED <<setupVars, loopVars, childVars, listening, clientVars, boundVars>>

\* The application ends, which closes its descriptor of the socket.
AppExits ==
  /\ "app" \in listening
  /\ listening' = listening \ {"app"}
  /\ UNCHANGED <<setupVars, loopVars, childVars, clientVars, signalVars, boundVars>>

\* main_sig_int_handler, a handler inherited from the application, or neither.
Deliver ==
  /\ pending /\ pc # "exited"
  /\ pending' = FALSE
  /\ \/ /\ sigint = "main_sig_int_handler"
        /\ server_continue' = FALSE
        /\ UNCHANGED <<pc, client_fd, fds, zombies, listening>>
     \/ /\ sigint = "app_handler"
        /\ UNCHANGED <<loopVars, zombies, listening>>
     \/ /\ sigint = "SIG_DFL"
        /\ ProcessEnds
        /\ UNCHANGED server_continue
  /\ UNCHANGED <<setupVars, children, child_fds, clientVars, kill_sent, boundVars>>

-----------------------------------------------------------------------------
Init ==
  /\ pc = "start" /\ server_continue = FALSE
  /\ sigint \in AppDispositions /\ sigchld_ignored = FALSE
  /\ client_fd = Nobody /\ fds = {}
  /\ children = [c \in Clients |-> "none"] /\ child_fds = [c \in Clients |-> {}]
  /\ zombies = {} /\ listening = {"app", "server"}
  /\ backlog = <<>> /\ requests = [c \in Clients |-> "away"] /\ answered = {}
  /\ dropped = {} /\ kill_sent = FALSE /\ pending = FALSE /\ failures = 0

ServerStep ==
  \/ StartProcess \/ IgnoreSigchld \/ InstallHandler
  \/ TestContinue \/ AcceptNothing \/ AcceptClient
  \/ ForkChild \/ ForkFails \/ ParentCloses
  \/ CloseSocket \/ ExitProcess

ChildStep(c) == ChildCloses(c) \/ ChildReads(c) \/ ChildWrites(c) \/ ChildExits(c)

Next ==
  \/ ServerStep
  \/ \E c \in Clients: ChildStep(c) \/ Connect(c) \/ Send(c)
  \/ Kill \/ AppExits \/ Deliver

\* The scheduler runs every process that can run, and signals arrive.
Fairness ==
  /\ WF_vars(ServerStep)
  /\ WF_vars(Deliver)
  /\ \A c \in Clients: WF_vars(ChildStep(c))

Spec == Init /\ [][Next]_vars
FairSpec == Spec /\ Fairness

-----------------------------------------------------------------------------
(* Properties.                                                             *)

\* Type invariant.
TypeOK ==
  /\ pc \in {"start", "sigchld", "sigint", "loop", "accept", "fork", "parent",
             "close", "cleanup", "exited"}
  /\ server_continue \in BOOLEAN /\ sigchld_ignored \in BOOLEAN
  /\ sigint \in Dispositions \cup {"main_sig_int_handler"}
  /\ client_fd \in Clients \cup {Nobody}
  /\ pc \in {"fork", "parent"} <=> client_fd \in Clients
  /\ fds \subseteq Clients
  /\ children \in [Clients -> {"none", "start", "read", "write", "exit", "exited"}]
  /\ child_fds \in [Clients -> SUBSET Clients]
  /\ zombies \subseteq Clients
  /\ listening \subseteq {"app", "server"} \cup Clients
  /\ backlog \in Seq(Clients)
  /\ requests \in [Clients -> {"away", "none", "valid", "other"}]
  /\ answered \subseteq Clients /\ dropped \subseteq Clients
  /\ kill_sent \in BOOLEAN /\ pending \in BOOLEAN
  /\ failures \in Nat

\* The server process never ends by itself: what the application counts on when
\* it takes the server for enabled until cclogger_server_stop.
EndsOnlyWhenStopped == pc \in {"close", "cleanup", "exited"} => kill_sent

\* The descriptor table of the server process grows only with failed forks: it
\* holds the client in hand and those nobody serves.
DescriptorsHeld == fds \subseteq dropped \cup {client_fd}

\* Every child is reaped, though nobody waits for it.
NoZombies == zombies = {}

\* A connection is at its end when no process has it open any more.
Ended(c) == c \notin fds /\ \A d \in Clients: c \notin child_fds[d]

\* A client that got an answer sees the end of it, as HTTP/1.0 requires, though
\* processes forked meanwhile inherit descriptors of other clients.
AnswersEnd == \A c \in Clients: (c \in answered) ~> Ended(c)

\* The stop has reached the process: the signal waits for a disposition that
\* ends the loop or the process, or the handler has run.
StopTakesHold ==
  \/ pending /\ sigint # "app_handler"
  \/ pc # "start" /\ ~server_continue

\* When the stop has reached the server and the application has ended, the port
\* gets free, though children may wait for clients that send nothing.
PortFreed ==
  ((StopTakesHold \/ pc = "exited") /\ "app" \notin listening) ~> (listening = {})

\* A server that is told to stop ends, also when it is told so before it has
\* its handler, and while it forks or has clients waiting.
StopEndsServer == kill_sent ~> (pc = "exited")

-----------------------------------------------------------------------------
(* The process implements the server the application knows.                *)

Phase ==
  IF pc = "exited" THEN "exited" ELSE IF StopTakesHold THEN "stopping" ELSE "running"

Waiting(c) == \E i \in DOMAIN backlog: backlog[i] = c

ClientStatus(c) ==
  IF requests[c] = "away" THEN "away"
  ELSE IF Waiting(c) THEN "waiting"
  ELSE IF Ended(c) THEN "finished" ELSE "taken"

Lifecycle == INSTANCE ServerLifecycle
  WITH phase <- Phase, clients <- [c \in Clients |-> ClientStatus(c)]

\* server.c implements ServerLifecycle: it runs until a stop takes hold, then
\* ends, and takes every client that waits unless it ends first.
ImplementsLifecycle == Lifecycle!Spec
=============================================================================
