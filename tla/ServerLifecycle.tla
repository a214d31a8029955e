--------------------------- MODULE ServerLifecycle ---------------------------
(***************************************************************************)
(* What a server process of CCLog promises to the application and to the   *)
(* clients that connect to it: it runs until a stop reaches it, it ends    *)
(* once one does, and every client that connects is taken from the queue   *)
(* unless the server ends first.  Logger keeps the phase as the status of  *)
(* a server; ServerProcess implements it.                                  *)
(***************************************************************************)
CONSTANT Clients

VARIABLES phase, clients

lifecycleVars == <<phase, clients>>

Init ==
  /\ phase = "running"
  /\ clients = [c \in Clients |-> "away"]

Moves(c, from, to) == clients[c] = from /\ clients' = [clients EXCEPT ![c] = to]

\* The queue of the socket takes clients even when nobody accepts them.
Connect(c) == Moves(c, "away", "waiting") /\ UNCHANGED phase

Take(c) == phase # "exited" /\ Moves(c, "waiting", "taken") /\ UNCHANGED phase

\* A process that ends takes with it every connection nobody else has open:
\* that of its own client, and those it has inherited.
Ends(ended) ==
  /\ ended \subseteq {c \in Clients : clients[c] = "taken"}
  /\ clients' = [c \in Clients |-> IF c \in ended THEN "finished" ELSE clients[c]]

Finish(ended) == Ends(ended) /\ UNCHANGED phase

Stop == phase = "running" /\ phase' = "stopping" /\ UNCHANGED clients

Exit(ended) == phase = "stopping" /\ phase' = "exited" /\ Ends(ended)

Next ==
  \/ \E c \in Clients: Connect(c) \/ Take(c)
  \/ \E ended \in SUBSET Clients: Finish(ended) \/ Exit(ended)
  \/ Stop

Fairness ==
  /\ WF_lifecycleVars(\E ended \in SUBSET Clients: Exit(ended))
  /\ \A c \in Clients: WF_lifecycleVars(Take(c))

Spec == Init /\ [][Next]_lifecycleVars /\ Fairness
=============================================================================
