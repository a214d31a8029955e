------------------------- MODULE ServerProcessProofs -------------------------
(* Safety of one server process, for any clients and any queue. *)
EXTENDS ServerProcess, SequenceTheorems, TLAPS

-----------------------------------------------------------------------------
(* Type correctness.                                                       *)

\* Each step of the server process itself keeps the types.
LEMMA ServerStepType ==
  ASSUME TypeOK, ServerStep
  PROVE  TypeOK'
<1> USE ServerAssumption DEF TypeOK, setupVars, loopVars, childVars, clientVars,
        signalVars, boundVars
<1>1. CASE StartProcess \/ IgnoreSigchld \/ InstallHandler \/ TestContinue
  BY <1>1 DEF StartProcess, IgnoreSigchld, InstallHandler, TestContinue
<1>2. CASE AcceptNothing
  BY <1>2 DEF AcceptNothing
<1>7. CASE CloseSocket
  BY <1>7 DEF CloseSocket
<1>8. CASE ExitProcess
  BY <1>8 DEF ExitProcess, ProcessEnds
<1>3. CASE AcceptClient
  <2>1. Head(backlog) \in Clients /\ Tail(backlog) \in Seq(Clients)
    BY <1>3 DEF AcceptClient
  <2> QED BY <1>3, <2>1 DEF AcceptClient
<1>4. CASE ForkChild
  BY <1>4 DEF ForkChild
<1>5. CASE ForkFails
  BY <1>5 DEF ForkFails
<1>6. CASE ParentCloses
  BY <1>6 DEF ParentCloses
<1> QED BY <1>1, <1>2, <1>3, <1>4, <1>5, <1>6, <1>7, <1>8 DEF ServerStep

\* Each step of a child and of a client keeps the types.
LEMMA ClientStepType ==
  ASSUME TypeOK, NEW c \in Clients, ChildStep(c) \/ Connect(c) \/ Send(c)
  PROVE  TypeOK'
<1> USE DEF TypeOK, setupVars, loopVars, childVars, clientVars, signalVars, boundVars
<1>1. CASE ChildCloses(c)
  BY <1>1 DEF ChildCloses
<1>2. CASE ChildReads(c)
  BY <1>2 DEF ChildReads
<1>3. CASE ChildWrites(c)
  BY <1>3 DEF ChildWrites
<1>4. CASE ChildExits(c)
  BY <1>4 DEF ChildExits
<1>5. CASE Connect(c)
  <2>1. Append(backlog, c) \in Seq(Clients)
    OBVIOUS
  <2> QED BY <1>5, <2>1 DEF Connect
<1>6. CASE Send(c)
  BY <1>6 DEF Send
<1> QED BY <1>1, <1>2, <1>3, <1>4, <1>5, <1>6 DEF ChildStep

\* The variables of the server process keep their types, and a client is in
\* hand exactly between accept and the end of the fork.
THEOREM ProcessTypeCorrect == Spec => []TypeOK
<1>1. Init => TypeOK
  <2> SUFFICES ASSUME Init PROVE TypeOK
    OBVIOUS
  <2>1. backlog \in Seq(Clients) /\ sigint \in Dispositions
    BY ServerAssumption DEF Init
  <2>2. children \in [Clients -> {"none", "start", "read", "write", "exit", "exited"}]
    BY DEF Init
  <2>3. child_fds \in [Clients -> SUBSET Clients]
    BY DEF Init
  <2>4. requests \in [Clients -> {"away", "none", "valid", "other"}]
    BY DEF Init
  <2> QED BY <2>1, <2>2, <2>3, <2>4, ServerAssumption DEF Init, TypeOK
<1>2. TypeOK /\ [Next]_vars => TypeOK'
  <2> SUFFICES ASSUME TypeOK, [Next]_vars PROVE TypeOK'
    OBVIOUS
  <2> USE DEF TypeOK, setupVars, loopVars, childVars, clientVars, signalVars, boundVars
  <2>1. CASE ServerStep
    BY <2>1, ServerStepType
  <2>2. CASE \E c \in Clients: ChildStep(c) \/ Connect(c) \/ Send(c)
    BY <2>2, ClientStepType
  <2>3. CASE Kill
    BY <2>3 DEF Kill
  <2>4. CASE AppExits
    BY <2>4 DEF AppExits
  <2>5. CASE Deliver
    BY <2>5, ServerAssumption DEF Deliver, ProcessEnds
  <2>6. CASE UNCHANGED vars
    BY <2>6 DEF vars
  <2> QED BY <2>1, <2>2, <2>3, <2>4, <2>5, <2>6 DEF Next
<1> QED BY <1>1, <1>2, PTL DEF Spec

-----------------------------------------------------------------------------
(* The server ends only when it is stopped.                                *)

\* A signal is pending only after the kill, and the flag of the loop falls only
\* when the handler runs.
StopInv ==
  /\ pending => kill_sent
  /\ pc # "start" /\ ~server_continue => kill_sent
  /\ pc \in {"close", "cleanup", "exited"} => kill_sent

\* The server process runs until cclogger_server_stop, whatever accept, fork,
\* the clients and the disposition of SIGINT are.
THEOREM RunsUntilStopped == Spec => []EndsOnlyWhenStopped
<1>1. Init => StopInv
  BY DEF Init, StopInv
<1>2. StopInv /\ [Next]_vars => StopInv'
  <2> SUFFICES ASSUME StopInv, [Next]_vars PROVE StopInv'
    OBVIOUS
  <2> USE DEF StopInv, setupVars, loopVars, childVars, clientVars, signalVars, boundVars
  <2>1. CASE StartProcess \/ IgnoreSigchld \/ InstallHandler \/ TestContinue
    BY <2>1 DEF StartProcess, IgnoreSigchld, InstallHandler, TestContinue
  <2>2. CASE AcceptNothing \/ AcceptClient \/ CloseSocket \/ ExitProcess
    BY <2>2 DEF AcceptNothing, AcceptClient, CloseSocket, ExitProcess, ProcessEnds
  <2>3. CASE ForkChild \/ ForkFails \/ ParentCloses
    BY <2>3 DEF ForkChild, ForkFails, ParentCloses
  <2>4. ASSUME NEW c \in Clients, ChildStep(c) \/ Connect(c) \/ Send(c)
        PROVE  StopInv'
    BY <2>4 DEF ChildStep, ChildCloses, ChildReads, ChildWrites, ChildExits, Connect, Send
  <2>5. CASE Kill \/ AppExits
    BY <2>5 DEF Kill, AppExits
  <2>6. CASE Deliver
    BY <2>6 DEF Deliver, ProcessEnds
  <2>7. CASE UNCHANGED vars
    BY <2>7 DEF vars
  <2> QED BY <2>1, <2>2, <2>3, <2>4, <2>5, <2>6, <2>7 DEF Next, ServerStep
<1>3. StopInv => EndsOnlyWhenStopped
  BY DEF StopInv, EndsOnlyWhenStopped
<1> QED BY <1>1, <1>2, <1>3, PTL DEF Spec

-----------------------------------------------------------------------------
(* Descriptors and children.                                               *)

\* The descriptors of the server process are those of the client in hand and of
\* the clients whose fork failed: no long run of served clients uses them up.
THEOREM DescriptorsAreClosed == Spec => []DescriptorsHeld
<1>1. Init => DescriptorsHeld
  BY DEF Init, DescriptorsHeld
<1>2. TypeOK /\ DescriptorsHeld /\ [Next]_vars => DescriptorsHeld'
  <2> SUFFICES ASSUME TypeOK, DescriptorsHeld, [Next]_vars PROVE DescriptorsHeld'
    OBVIOUS
  <2> USE DEF DescriptorsHeld, setupVars, loopVars, childVars, clientVars, signalVars,
              boundVars
  <2>1. CASE StartProcess \/ IgnoreSigchld \/ InstallHandler \/ TestContinue
    BY <2>1 DEF StartProcess, IgnoreSigchld, InstallHandler, TestContinue
  <2>2. CASE AcceptNothing \/ CloseSocket \/ ExitProcess
    BY <2>2 DEF AcceptNothing, CloseSocket, ExitProcess, ProcessEnds
  <2>3. CASE AcceptClient
    <3>1. client_fd = Nobody /\ fds \subseteq Clients
      BY <2>3 DEF AcceptClient, TypeOK
    <3>2. fds \subseteq dropped
      BY <3>1, ServerAssumption
    <3> QED BY <2>3, <3>2 DEF AcceptClient
  <2>4. CASE ForkChild \/ ForkFails \/ ParentCloses
    BY <2>4 DEF ForkChild, ForkFails, ParentCloses
  <2>5. ASSUME NEW c \in Clients, ChildStep(c) \/ Connect(c) \/ Send(c)
        PROVE  DescriptorsHeld'
    BY <2>5 DEF ChildStep, ChildCloses, ChildReads, ChildWrites, ChildExits, Connect, Send
  <2>6. CASE Kill \/ AppExits
    BY <2>6 DEF Kill, AppExits
  <2>7. CASE Deliver
    BY <2>7 DEF Deliver, ProcessEnds
  <2>8. CASE UNCHANGED vars
    BY <2>8 DEF vars
  <2> QED BY <2>1, <2>2, <2>3, <2>4, <2>5, <2>6, <2>7, <2>8 DEF Next, ServerStep
<1> QED BY <1>1, <1>2, ProcessTypeCorrect, PTL DEF Spec

\* SIGCHLD is ignored before the first child exists.
ReapInv ==
  /\ pc \notin {"start", "sigchld", "exited"} => sigchld_ignored
  /\ \A c \in Clients: children[c] # "none" => sigchld_ignored
  /\ zombies = {}

\* No child of the server process becomes a zombie.
THEOREM ChildrenAreReaped == Spec => []NoZombies
<1>1. Init => ReapInv
  BY DEF Init, ReapInv
<1>2. TypeOK /\ ReapInv /\ [Next]_vars => ReapInv'
  <2> SUFFICES ASSUME TypeOK, ReapInv, [Next]_vars PROVE ReapInv'
    OBVIOUS
  <2> USE DEF ReapInv, setupVars, loopVars, childVars, clientVars, signalVars, boundVars
  <2>1. CASE StartProcess \/ IgnoreSigchld \/ InstallHandler \/ TestContinue
    BY <2>1 DEF StartProcess, IgnoreSigchld, InstallHandler, TestContinue
  <2>2. CASE AcceptNothing \/ AcceptClient \/ CloseSocket \/ ExitProcess
    BY <2>2 DEF AcceptNothing, AcceptClient, CloseSocket, ExitProcess, ProcessEnds
  <2>3. CASE ForkChild
    BY <2>3 DEF ForkChild
  <2>4. CASE ForkFails \/ ParentCloses
    BY <2>4 DEF ForkFails, ParentCloses
  <2>5. ASSUME NEW c \in Clients, ChildStep(c)
        PROVE  ReapInv'
    <3>1. sigchld_ignored /\ children[c] # "none"
      BY <2>5 DEF ChildStep, ChildCloses, ChildReads, ChildWrites, ChildExits
    <3> QED BY <2>5, <3>1 DEF ChildStep, ChildCloses, ChildReads, ChildWrites, ChildExits
  <2>6. ASSUME NEW c \in Clients, Connect(c) \/ Send(c)
        PROVE  ReapInv'
    BY <2>6 DEF Connect, Send
  <2>7. CASE Kill \/ AppExits
    BY <2>7 DEF Kill, AppExits
  <2>8. CASE Deliver
    BY <2>8 DEF Deliver, ProcessEnds
  <2>9. CASE UNCHANGED vars
    BY <2>9 DEF vars
  <2> QED BY <2>1, <2>2, <2>3, <2>4, <2>5, <2>6, <2>7, <2>8, <2>9 DEF Next, ServerStep
<1>3. ReapInv => NoZombies
  BY DEF ReapInv, NoZombies
<1> QED BY <1>1, <1>2, <1>3, ProcessTypeCorrect, PTL DEF Spec

-----------------------------------------------------------------------------
(* The refinement of ServerLifecycle: its initial state and its steps.  Its *)
(* fairness is a matter of liveness and stays with the model checker.       *)

\* The handler runs only once StartProcess has set the flag, and the loop is
\* left only when the flag is down.
PhaseInv ==
  /\ sigint = "main_sig_int_handler" => pc # "start"
  /\ pc \in {"close", "cleanup"} => ~server_continue
  /\ pending => kill_sent

\* A client connects once, so it is in the queue once at most.
QueueInv ==
  /\ \A i, j \in DOMAIN backlog: backlog[i] = backlog[j] => i = j
  /\ \A i \in DOMAIN backlog: requests[backlog[i]] # "away"

\* The phases of the processes hold in every reachable state.
LEMMA PhaseInvariant == Spec => []PhaseInv
<1>1. Init => PhaseInv
  BY ServerAssumption DEF Init, PhaseInv, Dispositions
<1>2. PhaseInv /\ [Next]_vars => PhaseInv'
  <2> SUFFICES ASSUME PhaseInv, [Next]_vars PROVE PhaseInv'
    OBVIOUS
  <2> USE DEF PhaseInv, setupVars, loopVars, childVars, clientVars, signalVars, boundVars
  <2>1. CASE StartProcess \/ IgnoreSigchld \/ InstallHandler \/ TestContinue
    BY <2>1 DEF StartProcess, IgnoreSigchld, InstallHandler, TestContinue
  <2>2. CASE AcceptNothing \/ AcceptClient \/ CloseSocket \/ ExitProcess
    BY <2>2 DEF AcceptNothing, AcceptClient, CloseSocket, ExitProcess, ProcessEnds
  <2>3. CASE ForkChild \/ ForkFails \/ ParentCloses
    BY <2>3 DEF ForkChild, ForkFails, ParentCloses
  <2>4. ASSUME NEW c \in Clients, ChildStep(c) \/ Connect(c) \/ Send(c)
        PROVE  PhaseInv'
    BY <2>4 DEF ChildStep, ChildCloses, ChildReads, ChildWrites, ChildExits, Connect, Send
  <2>5. CASE Kill \/ AppExits
    BY <2>5 DEF Kill, AppExits
  <2>6. CASE Deliver
    BY <2>6 DEF Deliver, ProcessEnds
  <2>7. CASE UNCHANGED vars
    BY <2>7 DEF vars
  <2> QED BY <2>1, <2>2, <2>3, <2>4, <2>5, <2>6, <2>7 DEF Next, ServerStep
<1> QED BY <1>1, <1>2, PTL DEF Spec

\* What accept leaves of the queue is the rest of it.
LEMMA QueueTail ==
  ASSUME NEW q \in Seq(Clients), q # <<>>
  PROVE  /\ Head(q) = q[1] /\ 1 \in DOMAIN q
         /\ \A i \in DOMAIN Tail(q): i + 1 \in DOMAIN q /\ i \in Nat /\ Tail(q)[i] = q[i + 1]
         /\ \A i \in DOMAIN q: i # 1 => i - 1 \in DOMAIN Tail(q) /\ Tail(q)[i - 1] = q[i]
<1>1. Len(q) \in Nat /\ Len(q) # 0 /\ DOMAIN q = 1 .. Len(q)
  OBVIOUS
<1>2. Tail(q) \in Seq(Clients) /\ Len(Tail(q)) = Len(q) - 1
  OBVIOUS
<1>3. DOMAIN Tail(q) = 1 .. (Len(q) - 1)
  BY <1>2
<1>4. \A i \in 1 .. (Len(q) - 1): Tail(q)[i] = q[i + 1]
  OBVIOUS
<1> QED BY <1>1, <1>3, <1>4

\* What a client that connects adds to the queue.
LEMMA QueueAppend ==
  ASSUME NEW q \in Seq(Clients), NEW c \in Clients
  PROVE  /\ \A i \in DOMAIN Append(q, c): i \in DOMAIN q \/ (Append(q, c)[i] = c /\ i = Len(q) + 1)
         /\ \A i \in DOMAIN q: i \in DOMAIN Append(q, c) /\ Append(q, c)[i] = q[i]
         /\ Len(q) + 1 \in DOMAIN Append(q, c) /\ Append(q, c)[Len(q) + 1] = c
<1>1. Len(q) \in Nat /\ DOMAIN q = 1 .. Len(q)
  OBVIOUS
<1>2. Append(q, c) \in Seq(Clients) /\ Len(Append(q, c)) = Len(q) + 1
  OBVIOUS
<1>3. DOMAIN Append(q, c) = 1 .. (Len(q) + 1)
  BY <1>2
<1> QED BY <1>1, <1>3

\* The queue and the requests change together, in Connect only; accept takes
\* the head of the queue.
LEMMA QueueInvariant == Spec => []QueueInv
<1>1. Init => QueueInv
  BY DEF Init, QueueInv
<1>2. TypeOK /\ QueueInv /\ [Next]_vars => QueueInv'
  <2> SUFFICES ASSUME TypeOK, QueueInv, [Next]_vars PROVE QueueInv'
    OBVIOUS
  <2>0. backlog \in Seq(Clients)
    BY DEF TypeOK
  <2>1. CASE AcceptClient
    <3>1. backlog # <<>> /\ backlog' = Tail(backlog) /\ requests' = requests
      BY <2>1 DEF AcceptClient
    <3> QED BY <2>0, <3>1, QueueTail DEF QueueInv
  <2>2. ASSUME NEW c \in Clients, Connect(c) PROVE QueueInv'
    <3>1. /\ requests[c] = "away" /\ backlog' = Append(backlog, c)
          /\ requests' = [requests EXCEPT ![c] = "none"]
      BY <2>2 DEF Connect
    <3>2. \A i \in DOMAIN backlog: backlog[i] # c
      BY <3>1 DEF QueueInv
    <3>3. \A d \in Clients: requests[d] # "away" => requests'[d] # "away"
      BY <3>1 DEF TypeOK
    <3>4. requests'[c] # "away"
      BY <3>1 DEF TypeOK
    <3>5. \A i \in DOMAIN backlog: backlog[i] \in Clients
      BY <2>0
    <3> QED BY <2>0, <3>1, <3>2, <3>3, <3>4, <3>5, QueueAppend DEF QueueInv
  <2>3. ASSUME NEW c \in Clients, Send(c) PROVE QueueInv'
    BY <2>3 DEF Send, QueueInv, TypeOK
  <2>4. CASE UNCHANGED <<backlog, requests>>
    BY <2>4 DEF QueueInv
  <2> USE DEF setupVars, loopVars, childVars, clientVars, signalVars, boundVars
  <2>5. CASE StartProcess \/ IgnoreSigchld \/ InstallHandler \/ TestContinue \/ AcceptNothing
    BY <2>4, <2>5 DEF StartProcess, IgnoreSigchld, InstallHandler, TestContinue, AcceptNothing
  <2>6. CASE CloseSocket \/ ExitProcess \/ ForkChild \/ ForkFails \/ ParentCloses
    BY <2>4, <2>6 DEF CloseSocket, ExitProcess, ForkChild, ForkFails, ParentCloses
  <2>7. ASSUME NEW c \in Clients, ChildStep(c) PROVE QueueInv'
    BY <2>4, <2>7 DEF ChildStep, ChildCloses, ChildReads, ChildWrites, ChildExits
  <2>8. CASE Kill \/ AppExits \/ Deliver
    BY <2>4, <2>8 DEF Kill, AppExits, Deliver
  <2>9. CASE UNCHANGED vars
    BY <2>4, <2>9 DEF vars
  <2> QED BY <2>1, <2>2, <2>3, <2>5, <2>6, <2>7, <2>8, <2>9 DEF Next, ServerStep
<1> QED BY <1>1, <1>2, ProcessTypeCorrect, PTL DEF Spec

\* What ServerLifecycle sees of the clients.
Statuses == [c \in Clients |-> ClientStatus(c)]

\* A step that takes no connection from a process and no client in or out of
\* the queue can only end connections.
LEMMA ConnectionsOnlyEnd ==
  ASSUME backlog' = backlog,
         \A c \in Clients: requests[c] = "away" <=> requests'[c] = "away",
         \A c \in Clients: Ended(c) => Ended(c)'
  PROVE  \E ended \in SUBSET Clients: Lifecycle!Ends(ended)
<1> DEFINE ended == {c \in Clients : Statuses[c] = "taken" /\ Ended(c)'}
<1>1. \A c \in Clients: Waiting(c) <=> Waiting(c)'
  BY DEF Waiting
<1>2. \A c \in Clients:
        ClientStatus(c)' = IF c \in ended THEN "finished" ELSE ClientStatus(c)
  BY <1>1 DEF ClientStatus, Statuses
<1>3. Statuses' = [c \in Clients |-> IF c \in ended THEN "finished" ELSE Statuses[c]]
  BY <1>2 DEF Statuses
<1>4. ended \subseteq {c \in Clients : Statuses[c] = "taken"}
  OBVIOUS
<1>5. Lifecycle!Ends(ended)
  BY <1>3, <1>4 DEF Lifecycle!Ends, Statuses
<1> QED BY <1>5

\* Nothing of what the clients see changes.
LEMMA StatusesStay ==
  ASSUME UNCHANGED <<backlog, requests, fds, child_fds>>
  PROVE  Statuses' = Statuses
BY DEF Statuses, ClientStatus, Waiting, Ended

\* The client that accept returns leaves the queue for good, and the server
\* process has its connection open.
LEMMA AcceptTakes ==
  ASSUME TypeOK, PhaseInv, QueueInv, AcceptClient
  PROVE  \E c \in Clients: Lifecycle!Take(c)
<1>1. backlog \in Seq(Clients) /\ backlog # <<>> /\ backlog' = Tail(backlog)
  BY DEF TypeOK, AcceptClient
<1>0. PICK c \in Clients: c = Head(backlog)
  BY <1>1
<1>2. /\ c \in Clients /\ 1 \in DOMAIN backlog /\ backlog[1] = c
      /\ requests' = requests /\ child_fds' = child_fds /\ fds' = fds \cup {c}
  BY <1>0, <1>1, QueueTail DEF AcceptClient, childVars
<1>3. Waiting(c) /\ requests[c] # "away"
  BY <1>2 DEF Waiting, QueueInv
<1>4. ~Waiting(c)'
  <2> SUFFICES ASSUME NEW i \in DOMAIN Tail(backlog), Tail(backlog)[i] = c
               PROVE  FALSE
    BY <1>1 DEF Waiting
  <2>1. i + 1 \in DOMAIN backlog /\ i \in Nat /\ backlog[i + 1] = c
    BY <1>1, QueueTail
  <2>2. i + 1 = 1
    BY <1>2, <2>1 DEF QueueInv
  <2>3. i \in DOMAIN Tail(backlog) /\ Tail(backlog) \in Seq(Clients)
    BY <1>1
  <2>4. i \in 1 .. Len(Tail(backlog))
    BY <2>3
  <2> QED BY <2>1, <2>2, <2>4
<1>5. \A d \in Clients: d # c => (Waiting(d) <=> Waiting(d)')
  BY <1>1, <1>2, QueueTail DEF Waiting
<1>6. \A d \in Clients: d # c => (Ended(d) <=> Ended(d)')
  BY <1>2 DEF Ended
<1>7. ~Ended(c)'
  BY <1>2 DEF Ended
<1>8. ClientStatus(c) = "waiting" /\ ClientStatus(c)' = "taken"
  BY <1>2, <1>3, <1>4, <1>7 DEF ClientStatus
<1>9. \A d \in Clients: d # c => ClientStatus(d)' = ClientStatus(d)
  BY <1>2, <1>5, <1>6 DEF ClientStatus
<1>10. Statuses' = [Statuses EXCEPT ![c] = "taken"]
  BY <1>2, <1>8, <1>9 DEF Statuses
<1>11. Phase' = Phase /\ Phase # "exited"
  BY DEF AcceptClient, Phase, StopTakesHold, signalVars, setupVars
<1>12. Lifecycle!Take(c)
  BY <1>2, <1>8, <1>10, <1>11 DEF Lifecycle!Take, Lifecycle!Moves, Statuses
<1> QED BY <1>2, <1>12

\* A client that connects waits in the queue of the socket.
LEMMA ConnectWaits ==
  ASSUME TypeOK, NEW c \in Clients, Connect(c)
  PROVE  Lifecycle!Connect(c)
<1>1. /\ backlog \in Seq(Clients) /\ backlog' = Append(backlog, c) /\ requests[c] = "away"
      /\ requests' = [requests EXCEPT ![c] = "none"]
      /\ fds' = fds /\ child_fds' = child_fds
  BY DEF TypeOK, Connect, loopVars, childVars
<1>2. requests'[c] = "none" /\ \A d \in Clients: d # c => requests'[d] = requests[d]
  BY <1>1 DEF TypeOK
<1>3. Waiting(c)' /\ \A d \in Clients: d # c => (Waiting(d) <=> Waiting(d)')
  BY <1>1, QueueAppend DEF Waiting
<1>4. \A d \in Clients: Ended(d) <=> Ended(d)'
  BY <1>1 DEF Ended
<1>5. ClientStatus(c) = "away" /\ ClientStatus(c)' = "waiting"
  BY <1>1, <1>2, <1>3 DEF ClientStatus
<1>6. \A d \in Clients: d # c => ClientStatus(d)' = ClientStatus(d)
  BY <1>2, <1>3, <1>4 DEF ClientStatus
<1>7. Statuses' = [Statuses EXCEPT ![c] = "waiting"]
  BY <1>5, <1>6 DEF Statuses
<1>8. Phase' = Phase
  BY DEF Connect, Phase, StopTakesHold, signalVars, setupVars, loopVars
<1> QED BY <1>5, <1>7, <1>8 DEF Lifecycle!Connect, Lifecycle!Moves, Statuses

\* The process ends when a stop has taken hold, and only then.
LEMMA EndIsExit ==
  ASSUME Phase = "stopping", ProcessEnds, UNCHANGED <<child_fds, backlog, requests>>
  PROVE  \E ended \in SUBSET Clients: Lifecycle!Exit(ended)
<1>1. \A c \in Clients: Ended(c) => Ended(c)'
  BY DEF Ended, ProcessEnds
<1>2. PICK ended \in SUBSET Clients: Lifecycle!Ends(ended)
  BY <1>1, ConnectionsOnlyEnd
<1>3. Phase' = "exited"
  BY DEF Phase, ProcessEnds
<1> QED BY <1>2, <1>3 DEF Lifecycle!Exit

\* A step that only ends connections, whatever it does besides.
LEMMA ConnectionsFinish ==
  ASSUME UNCHANGED <<backlog, Phase>>,
         \A c \in Clients: requests[c] = "away" <=> requests'[c] = "away",
         \A c \in Clients: Ended(c) => Ended(c)'
  PROVE  Lifecycle!Next
BY ConnectionsOnlyEnd DEF Lifecycle!Next, Lifecycle!Finish

\* A step of which the clients see nothing, and the application a stop at most.
LEMMA StopOrStutter ==
  ASSUME UNCHANGED <<backlog, requests, fds, child_fds>>,
         Phase' = Phase \/ (Phase = "running" /\ Phase' = "stopping")
  PROVE  [Lifecycle!Next]_(Lifecycle!lifecycleVars)
BY StatusesStay DEF Lifecycle!Next, Lifecycle!Stop, Lifecycle!lifecycleVars, Statuses
\* Every step of the server process is a step of the lifecycle or none.
LEMMA ServerStepImplements ==
  ASSUME TypeOK, PhaseInv, QueueInv, ServerStep
  PROVE  [Lifecycle!Next]_(Lifecycle!lifecycleVars)
<1> USE DEF setupVars, loopVars, childVars, clientVars, signalVars, boundVars
<1>1. CASE StartProcess \/ IgnoreSigchld \/ TestContinue \/ AcceptNothing \/ CloseSocket
  <2>1. UNCHANGED <<backlog, requests, fds, child_fds>>
    BY <1>1 DEF StartProcess, IgnoreSigchld, TestContinue, AcceptNothing, CloseSocket
  <2>2. Phase' = Phase
    BY <1>1 DEF StartProcess, IgnoreSigchld, TestContinue, AcceptNothing, CloseSocket,
                Phase, StopTakesHold
  <2> QED BY <2>1, <2>2, StopOrStutter
<1>2. CASE InstallHandler
  <2>1. UNCHANGED <<backlog, requests, fds, child_fds>>
    BY <1>2 DEF InstallHandler
  <2>2. Phase' = Phase \/ (Phase = "running" /\ Phase' = "stopping")
    BY <1>2 DEF InstallHandler, Phase, StopTakesHold
  <2> QED BY <2>1, <2>2, StopOrStutter
<1>3. CASE AcceptClient
  BY <1>3, AcceptTakes DEF Lifecycle!Next
<1>4. CASE ForkChild \/ ForkFails \/ ParentCloses
  <2>1. UNCHANGED <<backlog, requests>>
    BY <1>4 DEF ForkChild, ForkFails, ParentCloses
  <2>2. Phase' = Phase
    BY <1>4 DEF ForkChild, ForkFails, ParentCloses, Phase, StopTakesHold
  <2>3. fds' \subseteq fds
    BY <1>4 DEF ForkChild, ForkFails, ParentCloses
  <2>4. \A d \in Clients: child_fds'[d] \subseteq child_fds[d] \cup fds
    BY <1>4 DEF ForkChild, ForkFails, ParentCloses, TypeOK
  <2>5. \A c \in Clients: Ended(c) => Ended(c)'
    BY <2>3, <2>4 DEF Ended
  <2> QED BY <2>1, <2>2, <2>5, ConnectionsFinish
<1>5. CASE ExitProcess
  <2>1. Phase = "stopping"
    BY <1>5 DEF ExitProcess, PhaseInv, Phase, StopTakesHold
  <2>2. ProcessEnds /\ UNCHANGED <<child_fds, backlog, requests>>
    BY <1>5 DEF ExitProcess
  <2> QED BY <2>1, <2>2, EndIsExit DEF Lifecycle!Next
<1> QED BY <1>1, <1>2, <1>3, <1>4, <1>5 DEF ServerStep

\* Every step of a child or a client is a step of the lifecycle or none.
LEMMA ClientStepImplements ==
  ASSUME TypeOK, NEW c \in Clients, ChildStep(c) \/ Connect(c) \/ Send(c)
  PROVE  Lifecycle!Next
<1>1. CASE Connect(c)
  BY <1>1, ConnectWaits DEF Lifecycle!Next
<1> USE DEF setupVars, loopVars, childVars, clientVars, signalVars, boundVars
<1>2. CASE ChildStep(c)
  <2>1. UNCHANGED <<backlog, requests, fds>>
    BY <1>2 DEF ChildStep, ChildCloses, ChildReads, ChildWrites, ChildExits
  <2>2. Phase' = Phase
    BY <1>2 DEF ChildStep, ChildCloses, ChildReads, ChildWrites, ChildExits, Phase,
                StopTakesHold
  <2>3. \A d \in Clients: child_fds'[d] \subseteq child_fds[d]
    BY <1>2 DEF ChildStep, ChildCloses, ChildReads, ChildWrites, ChildExits, TypeOK
  <2>4. \A d \in Clients: Ended(d) => Ended(d)'
    BY <2>1, <2>3 DEF Ended
  <2> QED BY <2>1, <2>2, <2>4, ConnectionsFinish
<1>3. CASE Send(c)
  <2>1. UNCHANGED <<backlog, fds, child_fds>>
    BY <1>3 DEF Send
  <2>2. Phase' = Phase
    BY <1>3 DEF Send, Phase, StopTakesHold
  <2>3. \A d \in Clients: requests[d] = "away" <=> requests'[d] = "away"
    BY <1>3 DEF Send, TypeOK
  <2>4. \A d \in Clients: Ended(d) => Ended(d)'
    BY <2>1 DEF Ended
  <2> QED BY <2>1, <2>2, <2>3, <2>4, ConnectionsFinish
<1> QED BY <1>1, <1>2, <1>3

\* Every step of the application, and every signal, is a step of the lifecycle
\* or none.
LEMMA SignalImplements ==
  ASSUME TypeOK, PhaseInv, Kill \/ AppExits \/ Deliver
  PROVE  [Lifecycle!Next]_(Lifecycle!lifecycleVars)
<1> USE DEF setupVars, loopVars, childVars, clientVars, signalVars, boundVars
<1>1. CASE Kill \/ AppExits
  <2>1. UNCHANGED <<backlog, requests, fds, child_fds>>
    BY <1>1 DEF Kill, AppExits
  <2>2. Phase' = Phase \/ (Phase = "running" /\ Phase' = "stopping")
    BY <1>1 DEF Kill, AppExits, PhaseInv, Phase, StopTakesHold
  <2> QED BY <2>1, <2>2, StopOrStutter
<1>2. CASE Deliver /\ sigint # "SIG_DFL"
  <2>1. UNCHANGED <<backlog, requests, fds, child_fds>>
    BY <1>2 DEF Deliver
  <2>2. Phase' = Phase
    BY <1>2 DEF Deliver, PhaseInv, Phase, StopTakesHold
  <2> QED BY <2>1, <2>2, StopOrStutter
<1>3. CASE Deliver /\ sigint = "SIG_DFL"
  <2>1. Phase = "stopping"
    BY <1>3 DEF Deliver, Phase, StopTakesHold
  <2>2. ProcessEnds /\ UNCHANGED <<child_fds, backlog, requests>>
    BY <1>3 DEF Deliver
  <2> QED BY <2>1, <2>2, EndIsExit DEF Lifecycle!Next
<1> QED BY <1>1, <1>2, <1>3

\* server.c implements the safety of ServerLifecycle: the server runs until a
\* stop takes hold and only then ends; a client that connects waits, is taken
\* from the queue by a server that has not ended, and only a client that was
\* taken is finished.
THEOREM LifecycleSafety ==
  Spec => Lifecycle!Init /\ [][Lifecycle!Next]_(Lifecycle!lifecycleVars)
<1>1. Init => Lifecycle!Init
  <2> SUFFICES ASSUME Init PROVE Lifecycle!Init
    OBVIOUS
  <2>1. Phase = "running"
    BY DEF Init, Phase, StopTakesHold
  <2>2. \A c \in Clients: ClientStatus(c) = "away"
    BY DEF Init, ClientStatus
  <2> QED BY <2>1, <2>2 DEF Lifecycle!Init
<1>2. TypeOK /\ PhaseInv /\ QueueInv /\ [Next]_vars
        => [Lifecycle!Next]_(Lifecycle!lifecycleVars)
  <2> SUFFICES ASSUME TypeOK, PhaseInv, QueueInv, [Next]_vars
               PROVE  [Lifecycle!Next]_(Lifecycle!lifecycleVars)
    OBVIOUS
  <2>1. CASE ServerStep
    BY <2>1, ServerStepImplements
  <2>2. CASE \E c \in Clients: ChildStep(c) \/ Connect(c) \/ Send(c)
    BY <2>2, ClientStepImplements
  <2>3. CASE Kill \/ AppExits \/ Deliver
    BY <2>3, SignalImplements
  <2>4. CASE UNCHANGED vars
    <3>1. UNCHANGED <<backlog, requests, fds, child_fds>>
      BY <2>4 DEF vars, loopVars, childVars, clientVars
    <3>2. Phase' = Phase
      BY <2>4 DEF vars, loopVars, setupVars, signalVars, Phase, StopTakesHold
    <3> QED BY <3>1, <3>2, StopOrStutter
  <2> QED BY <2>1, <2>2, <2>3, <2>4 DEF Next
<1> QED BY <1>1, <1>2, ProcessTypeCorrect, PhaseInvariant, QueueInvariant, PTL DEF Spec
=============================================================================
