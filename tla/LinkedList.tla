----------------------------- MODULE LinkedList -----------------------------
(***************************************************************************)
(* The linked list of llist.c on a heap of nodes.  A node holds a level by *)
(* value: the list owns the level and frees it with the node.  calloc      *)
(* does not fail.                                                          *)
(***************************************************************************)
EXTENDS Integers, Sequences, FiniteSets

CONSTANTS
  Null,      \* the NULL pointer
  Addresses  \* where nodes can be

ASSUME ListAssumption ==
  Null \notin Addresses /\ Null \notin [first: Addresses, num_of_entries: Nat]

VARIABLES
  heap,      \* the nodes that are allocated: a function from addresses
  list       \* log_levels_list

listVars == <<heap, list>>

Node(data) == [data |-> data, next |-> Null]

\* Which free address calloc gives makes no difference.
Calloc == CHOOSE address \in Addresses: address \notin DOMAIN heap

WithNode(node) == [a \in DOMAIN heap \cup {Calloc} |-> IF a = Calloc THEN node ELSE heap[a]]

\* get_node_index: follows `next' from the first node.
get_node_index(first, target) ==
  LET node[i \in Nat] ==
        IF i = 0 THEN first
        ELSE IF node[i - 1] = Null THEN Null ELSE heap[node[i - 1]].next
  IN node[target]

\* The nodes that cclog_llist_clean goes through.
Reachable ==
  LET node(i) == get_node_index(list.first, i)
  IN IF list = Null THEN {} ELSE {node(i) : i \in 0 .. Cardinality(DOMAIN heap)} \ {Null}

cclog_llist_init(data) ==
  /\ heap' = WithNode(Node(data))
  /\ list' = [first |-> Calloc, num_of_entries |-> 1]

\* Mutant of cclog_llist_add: the new node becomes the first.
AddInFront(data) ==
  /\ heap' = WithNode([data |-> data, next |-> list.first])
  /\ list' = [first |-> Calloc, num_of_entries |-> list.num_of_entries + 1]

cclog_llist_add(data) ==
  LET last == get_node_index(list.first, list.num_of_entries - 1)
  IN /\ heap' = [WithNode(Node(data)) EXCEPT ![last].next = Calloc]
     /\ list' = [list EXCEPT !.num_of_entries = @ + 1]

\* What cclog_llist_foreach hands to its function, in that order: one
\* cclog_llist_get_index after another.
cclog_llist_foreach ==
  IF list = Null THEN <<>>
  ELSE [i \in 1 .. list.num_of_entries |-> heap[get_node_index(list.first, i - 1)].data]

\* Mutant of cclog_llist_clean: the last node is kept.
CleanButLast ==
  heap' = [a \in {b \in DOMAIN heap : b \notin Reachable \/ heap[b].next = Null} |-> heap[a]]

cclog_llist_clean == heap' = [a \in DOMAIN heap \ Reachable |-> heap[a]]

-----------------------------------------------------------------------------
(* The list of levels: logger.c.                                           *)

\* The end of cclogger_add_log_level.
AddLevel(level) ==
  /\ DOMAIN heap # Addresses
  /\ IF list = Null THEN cclog_llist_init(level) ELSE cclog_llist_add(level)

cclogger_reset_log_levels ==
  IF list = Null THEN UNCHANGED listVars ELSE cclog_llist_clean /\ list' = Null

ListInit == heap = [a \in {} |-> Node(Null)] /\ list = Null
=============================================================================
