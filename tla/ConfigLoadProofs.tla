-------------------------- MODULE ConfigLoadProofs --------------------------
(***************************************************************************)
(* What holds of the linked list and of the memory of a load, for any      *)
(* levels, any file and any capacity of the reader.                        *)
(***************************************************************************)
EXTENDS ConfigLoad, SetInduction, FiniteSetTheorems, SequenceTheorems

-----------------------------------------------------------------------------
(* Chains of nodes.                                                        *)

\* The addresses of the nodes of the list, from the first to the last.
Chain(c) ==
  /\ c \in Seq(Addresses) /\ c # <<>>
  /\ \A i, j \in DOMAIN c: c[i] = c[j] => i = j
  /\ DOMAIN heap = {c[i] : i \in DOMAIN c}
  /\ \A i \in DOMAIN c: heap[c[i]].next = IF i < Len(c) THEN c[i + 1] ELSE Null
  /\ list = [first |-> c[1], num_of_entries |-> Len(c)]

\* A node has its two members.
NodesWhole == \A a \in DOMAIN heap: heap[a] = [data |-> heap[a].data, next |-> heap[a].next]

\* The heap holds the nodes of one chain, or nothing if there is no list.
ListInv ==
  /\ NodesWhole
  /\ IF list = Null THEN DOMAIN heap = {} ELSE \E c: Chain(c)

\* What get_node_index comes to, step by step, in a chain.
ChainNodes(c) == [i \in Nat |-> IF i < Len(c) THEN c[i + 1] ELSE Null]

\* The definition of get_node_index, for a function from the index.
Follows(node, first) ==
  node = [i \in Nat |-> IF i = 0 THEN first
                        ELSE IF node[i - 1] = Null THEN Null ELSE heap[node[i - 1]].next]

\* What a chain of the list says of its addresses and of the head of the list.
LEMMA ChainFacts ==
  ASSUME NEW c, Chain(c)
  PROVE  /\ Len(c) \in Nat \ {0} /\ DOMAIN c = 1 .. Len(c) /\ 1 \in DOMAIN c
         /\ \A i \in DOMAIN c: c[i] \in Addresses /\ c[i] # Null /\ c[i] \in DOMAIN heap
         /\ list # Null /\ list.first = c[1] /\ list.num_of_entries = Len(c)
<1>1. Len(c) \in Nat \ {0} /\ DOMAIN c = 1 .. Len(c) /\ 1 \in DOMAIN c
  BY DEF Chain
<1>2. \A i \in DOMAIN c: c[i] \in Addresses /\ c[i] # Null /\ c[i] \in DOMAIN heap
  BY ListAssumption DEF Chain
<1>3. list \in [first: Addresses, num_of_entries: Nat]
  BY <1>1, <1>2 DEF Chain
<1> QED BY <1>1, <1>2, <1>3, ListAssumption DEF Chain

\* The nodes of a chain are those that follow its first address.
LEMMA ChainFollows ==
  ASSUME NEW c, Chain(c)
  PROVE  Follows(ChainNodes(c), c[1])
<1> DEFINE W == ChainNodes(c)
<1>1. ASSUME NEW i \in Nat
      PROVE  W[i] = IF i = 0 THEN c[1] ELSE IF W[i - 1] = Null THEN Null ELSE heap[W[i - 1]].next
  <2>1. CASE i = 0
    BY <2>1, ChainFacts DEF ChainNodes
  <2>2. CASE i # 0 /\ i - 1 < Len(c)
    <3>1. i \in DOMAIN c /\ W[i - 1] = c[i] /\ c[i] # Null
      BY <2>2, ChainFacts DEF ChainNodes
    <3>2. heap[c[i]].next = IF i < Len(c) THEN c[i + 1] ELSE Null
      BY <3>1 DEF Chain
    <3> QED BY <2>2, <3>1, <3>2 DEF ChainNodes
  <2>3. CASE i # 0 /\ ~(i - 1 < Len(c))
    BY <2>3, ChainFacts DEF ChainNodes
  <2> QED BY <2>1, <2>2, <2>3
<1> QED BY <1>1 DEF Follows, ChainNodes

\* get_node_index follows the chain, and comes to NULL behind its end.
LEMMA NodeOfChain ==
  ASSUME NEW c, Chain(c), NEW n \in Nat
  PROVE  get_node_index(list.first, n) = IF n < Len(c) THEN c[n + 1] ELSE Null
<1> DEFINE W == ChainNodes(c)
           node == CHOOSE f: Follows(f, c[1])
<1>1. Follows(W, c[1])
  BY ChainFollows
<1>2. Follows(node, c[1])
  BY <1>1
<1>3. get_node_index(c[1], n) = node[n]
  BY DEF get_node_index, Follows
<1> DEFINE S == {i \in Nat : node[i] = W[i]}
<1> HIDE DEF W, node
<1>4. 0 \in S
  BY <1>1, <1>2 DEF Follows
<1>5. \A i \in Nat: i \in S => i + 1 \in S
  <2> SUFFICES ASSUME NEW i \in Nat, node[i] = W[i] PROVE node[i + 1] = W[i + 1]
    OBVIOUS
  <2>1. i + 1 \in Nat /\ i + 1 # 0 /\ (i + 1) - 1 = i
    OBVIOUS
  <2> QED BY <1>1, <1>2, <2>1 DEF Follows
<1> HIDE DEF S
<1>6. \A i \in Nat: i \in S
  BY <1>4, <1>5, NaturalInduction
<1>7. node[n] = W[n]
  BY <1>6 DEF S
<1> QED BY <1>3, <1>7, ChainFacts DEF W, ChainNodes
\* A chain has as many nodes as the heap.
LEMMA ChainCounts ==
  ASSUME NEW c, Chain(c)
  PROVE  IsFiniteSet(DOMAIN heap) /\ Cardinality(DOMAIN heap) = Len(c)
<1>1. Len(c) \in Nat /\ DOMAIN c = 1 .. Len(c)
  BY ChainFacts
<1>2. c \in Bijection(1 .. Len(c), DOMAIN heap)
  <2>1. c \in [1 .. Len(c) -> DOMAIN heap]
    BY <1>1 DEF Chain
  <2>2. IsInjective(c)
    BY <1>1 DEF Chain, IsInjective
  <2>3. \A a \in DOMAIN heap: \E i \in 1 .. Len(c): c[i] = a
    BY <1>1 DEF Chain
  <2> QED BY <2>1, <2>2, <2>3 DEF Bijection, Injection, Surjection
<1>3. ExistsBijection(1 .. Len(c), DOMAIN heap)
  BY <1>2 DEF ExistsBijection
<1> QED BY <1>1, <1>3, FS_NatBijection, FS_CountingElements

\* cclog_llist_clean goes through every node of a chain.
LEMMA ReachableIsHeap ==
  ASSUME NEW c, Chain(c)
  PROVE  Reachable = DOMAIN heap
<1> DEFINE N == Cardinality(DOMAIN heap)
           node(i) == get_node_index(list.first, i)
<1>1. N = Len(c) /\ N \in Nat /\ DOMAIN c = 1 .. N
  BY ChainCounts, ChainFacts
<1>2. \A i \in 0 .. N: node(i) = IF i < N THEN c[i + 1] ELSE Null
  BY <1>1, NodeOfChain
<1>3. DOMAIN heap = {c[i] : i \in 1 .. N} /\ \A i \in 1 .. N: c[i] # Null
  BY <1>1, ChainFacts DEF Chain
<1>4. Reachable = {node(i) : i \in 0 .. N} \ {Null}
  BY ChainFacts DEF Reachable
<1> HIDE DEF N, node
<1>5. ASSUME NEW a \in DOMAIN heap PROVE a \in Reachable
  <2>1. PICK i \in 1 .. N: a = c[i]
    BY <1>3
  <2>2. i - 1 \in 0 .. N /\ i - 1 < N /\ (i - 1) + 1 = i
    BY <1>1
  <2>3. node(i - 1) = a
    BY <1>2, <2>1, <2>2
  <2> QED BY <1>3, <1>4, <2>1, <2>2, <2>3
<1>6. ASSUME NEW a \in Reachable PROVE a \in DOMAIN heap
  <2>1. PICK i \in 0 .. N: a = node(i) /\ a # Null
    BY <1>4
  <2>2. i < N /\ a = c[i + 1] /\ i + 1 \in 1 .. N
    BY <1>1, <1>2, <2>1
  <2> QED BY <1>3, <2>2
<1> QED BY <1>5, <1>6

\* What cclog_llist_foreach hands out is what the nodes hold, along the chain.
LEMMA LevelsOfChain ==
  ASSUME NEW c, Chain(c)
  PROVE  levels = [i \in 1 .. Len(c) |-> heap[c[i]].data]
<1>1. /\ list # Null /\ list.num_of_entries = Len(c) /\ Len(c) \in Nat
      /\ DOMAIN c = 1 .. Len(c)
  BY ChainFacts
<1>2. levels = [i \in 1 .. Len(c) |-> heap[get_node_index(list.first, i - 1)].data]
  BY <1>1 DEF levels, cclog_llist_foreach
<1>3. ASSUME NEW i \in 1 .. Len(c)
      PROVE  get_node_index(list.first, i - 1) = c[i]
  <2>1. i - 1 \in Nat /\ i - 1 < Len(c) /\ (i - 1) + 1 = i
    BY <1>1
  <2> QED BY <2>1, NodeOfChain
<1> QED BY <1>2, <1>3

-----------------------------------------------------------------------------
(* The operations of the list.                                             *)

\* calloc gives an address that is free.
LEMMA CallocIsFree ==
  ASSUME DOMAIN heap \subseteq Addresses, DOMAIN heap # Addresses
  PROVE  Calloc \in Addresses /\ Calloc \notin DOMAIN heap
BY DEF Calloc

\* cclog_llist_init makes a chain of one node.
LEMMA InitChain ==
  ASSUME NEW level, ListInv, list = Null, DOMAIN heap # Addresses, cclog_llist_init(level)
  PROVE  \E n: Chain(<<n>>)' /\ NodesWhole' /\ heap'[n].data = level
<1>1. PICK n \in Addresses: n = Calloc
  BY CallocIsFree DEF ListInv
<1>2. heap' = [a \in {n} |-> [data |-> level, next |-> Null]]
  BY <1>1 DEF ListInv, cclog_llist_init, WithNode, Node
<1>3. list' = [first |-> n, num_of_entries |-> 1]
  BY <1>1 DEF cclog_llist_init
<1>4. Chain(<<n>>)'
  BY <1>2, <1>3 DEF Chain
<1>5. NodesWhole'
  BY <1>2 DEF NodesWhole
<1> QED BY <1>2, <1>4, <1>5

\* A sequence with one element more.
LEMMA AppendFacts ==
  ASSUME NEW T, NEW c \in Seq(T), NEW n \in T
  PROVE  /\ Append(c, n) \in Seq(T) /\ Append(c, n) # <<>> /\ Len(Append(c, n)) = Len(c) + 1
         /\ Len(c) \in Nat /\ DOMAIN c = 1 .. Len(c)
         /\ DOMAIN Append(c, n) = 1 .. Len(c) + 1
         /\ \A i \in 1 .. Len(c): Append(c, n)[i] = c[i]
         /\ Append(c, n)[Len(c) + 1] = n
<1>1. /\ Append(c, n) \in Seq(T) /\ Len(Append(c, n)) = Len(c) + 1
      /\ Len(c) \in Nat /\ DOMAIN c = 1 .. Len(c)
  OBVIOUS
<1>2. DOMAIN Append(c, n) = 1 .. Len(c) + 1
  BY <1>1
<1> QED BY <1>1, <1>2

\* cclog_llist_add puts a node behind the last one, and leaves the others.
LEMMA AddChain ==
  ASSUME NEW level, NEW c, Chain(c), NodesWhole, DOMAIN heap # Addresses,
         cclog_llist_add(level)
  PROVE  \E n \in Addresses:
           /\ Chain(Append(c, n))' /\ NodesWhole' /\ heap'[n].data = level
           /\ n \notin DOMAIN heap /\ \A a \in DOMAIN heap: heap'[a].data = heap[a].data
<1> DEFINE len == Len(c)
<1>1. /\ len \in Nat \ {0} /\ DOMAIN c = 1 .. len
      /\ \A i \in 1 .. len: c[i] \in Addresses /\ c[i] # Null /\ c[i] \in DOMAIN heap
      /\ DOMAIN heap = {c[i] : i \in 1 .. len} /\ c \in Seq(Addresses)
      /\ list = [first |-> c[1], num_of_entries |-> len]
      /\ \A i \in 1 .. len: heap[c[i]].next = IF i < len THEN c[i + 1] ELSE Null
      /\ \A i, j \in 1 .. len: c[i] = c[j] => i = j
  BY ChainFacts DEF Chain
<1>2. PICK n \in Addresses: n = Calloc /\ n \notin DOMAIN heap
  BY <1>1, CallocIsFree
<1>3. get_node_index(list.first, len - 1) = c[len]
  <2>1. len - 1 \in Nat /\ len - 1 < len /\ (len - 1) + 1 = len
    BY <1>1
  <2> QED BY <2>1, NodeOfChain
<1>4. heap' = [[a \in DOMAIN heap \cup {n} |-> IF a = n THEN Node(level) ELSE heap[a]]
                 EXCEPT ![c[len]].next = n]
  BY <1>1, <1>2, <1>3 DEF cclog_llist_add, WithNode
<1>5. c[len] \in DOMAIN heap /\ c[len] # n
  BY <1>1, <1>2
<1>6. /\ DOMAIN heap' = DOMAIN heap \cup {n}
      /\ heap'[n] = [data |-> level, next |-> Null]
      /\ heap'[c[len]] = [heap[c[len]] EXCEPT !.next = n]
      /\ \A a \in DOMAIN heap: a # c[len] => heap'[a] = heap[a]
  BY <1>2, <1>4, <1>5 DEF Node
<1>7. heap'[c[len]] = [data |-> heap[c[len]].data, next |-> n]
  <2>1. heap[c[len]] = [data |-> heap[c[len]].data, next |-> heap[c[len]].next]
    BY <1>5 DEF NodesWhole
  <2> DEFINE d == heap[c[len]].data
             x == heap[c[len]].next
  <2>2. [[data |-> d, next |-> x] EXCEPT !.next = n] = [data |-> d, next |-> n]
    OBVIOUS
  <2> QED BY <1>6, <2>1, <2>2
<1>8. list' = [first |-> c[1], num_of_entries |-> len + 1]
  BY <1>1 DEF cclog_llist_add
<1>9. \A a \in DOMAIN heap: heap'[a].data = heap[a].data
  BY <1>6, <1>7
<1>10. NodesWhole'
  BY <1>6, <1>7 DEF NodesWhole
<1>11. PICK e \in Seq(Addresses): e = Append(c, n)
  BY <1>1, <1>2, AppendFacts
<1>12. /\ e # <<>> /\ Len(e) = len + 1 /\ DOMAIN e = 1 .. len + 1
       /\ \A i \in 1 .. len: e[i] = c[i]
       /\ e[len + 1] = n
  BY <1>1, <1>2, <1>11, AppendFacts
<1> HIDE DEF len
<1>13. ASSUME NEW i \in DOMAIN e
       PROVE  heap'[e[i]].next = IF i < Len(e) THEN e[i + 1] ELSE Null
  <2>1. CASE i = len + 1
    BY <1>1, <1>6, <1>12, <2>1
  <2>2. CASE i = len
    BY <1>1, <1>7, <1>12, <2>2
  <2>3. CASE i < len
    <3>1. i \in 1 .. len /\ i + 1 \in 1 .. len /\ e[i] = c[i] /\ e[i + 1] = c[i + 1]
      BY <1>1, <1>12, <2>3
    <3>2. c[i] # c[len]
      BY <1>1, <2>3, <3>1
    <3>3. heap'[c[i]] = heap[c[i]]
      BY <1>1, <1>6, <3>1, <3>2
    <3>4. heap[c[i]].next = c[i + 1]
      BY <1>1, <2>3, <3>1
    <3>5. i < Len(e)
      BY <1>1, <1>12, <2>3
    <3>6. heap'[e[i]].next = c[i + 1] /\ e[i + 1] = c[i + 1]
      BY <3>1, <3>3, <3>4
    <3> QED BY <3>5, <3>6
  <2> QED BY <1>1, <1>12, <2>1, <2>2, <2>3
<1>14. \A i, j \in DOMAIN e: e[i] = e[j] => i = j
  BY <1>1, <1>2, <1>12
<1>15. DOMAIN heap' = {e[i] : i \in DOMAIN e}
  BY <1>1, <1>6, <1>12
<1>16. list' = [first |-> e[1], num_of_entries |-> Len(e)]
  BY <1>1, <1>8, <1>12
<1>17. Chain(e)'
  BY <1>12, <1>13, <1>14, <1>15, <1>16 DEF Chain
<1>18. Chain(Append(c, n))'
  BY <1>11, <1>17
<1> QED BY <1>2, <1>6, <1>9, <1>10, <1>18
\* A list that is not there has no levels.
LEMMA NoLevels == list = Null => levels = <<>>
BY DEF levels, cclog_llist_foreach

\* A chain is a list, and has its levels.
LEMMA ChainShows ==
  \A c: Chain(c) => list # Null /\ levels = [i \in 1 .. Len(c) |-> heap[c[i]].data]
BY ChainFacts, LevelsOfChain

\* Both hold after a step, too.
LEMMA ShownAfterStep ==
  /\ list' = Null => levels' = <<>>
  /\ \A c: Chain(c)' => list' # Null /\ levels' = [i \in 1 .. Len(c) |-> heap'[c[i]].data]
<1>1. (list = Null => levels = <<>>)'
  BY NoLevels, PTL
<1>2. (\A c: Chain(c) => list # Null /\ levels = [i \in 1 .. Len(c) |-> heap[c[i]].data])'
  BY ChainShows, PTL
<1> QED BY <1>1, <1>2

\* A level that is added comes last, and the levels before it stay.
LEMMA AddLevelStep ==
  ASSUME NEW level, ListInv, AddLevel(level)
  PROVE  ListInv' /\ levels' = Append(levels, level)
<1>1. CASE list = Null
  <2>1. PICK n: Chain(<<n>>)' /\ NodesWhole' /\ heap'[n].data = level
    BY <1>1, InitChain DEF AddLevel
  <2>2. list' # Null
    BY <2>1, ShownAfterStep
  <2>3. levels' = [i \in 1 .. Len(<<n>>) |-> heap'[<<n>>[i]].data]
    BY <2>1, ShownAfterStep
  <2>4. levels' = <<level>>
    BY <2>1, <2>3
  <2> QED BY <1>1, <2>1, <2>2, <2>4, NoLevels DEF ListInv
<1>2. CASE list # Null
  <2>1. PICK c: Chain(c)
    BY <1>2 DEF ListInv
  <2>2. PICK n \in Addresses:
          /\ Chain(Append(c, n))' /\ NodesWhole' /\ heap'[n].data = level
          /\ n \notin DOMAIN heap /\ \A a \in DOMAIN heap: heap'[a].data = heap[a].data
    BY <1>2, <2>1, AddChain DEF AddLevel, ListInv
  <2>3. PICK e: e = Append(c, n)
    OBVIOUS
  <2>4. /\ Len(e) = Len(c) + 1 /\ Len(c) \in Nat /\ DOMAIN c = 1 .. Len(c)
        /\ \A i \in 1 .. Len(c): e[i] = c[i]
        /\ e[Len(c) + 1] = n
    BY <2>1, <2>3, AppendFacts DEF Chain
  <2>5. Chain(e)'
    BY <2>2, <2>3
  <2>6. list' # Null
    BY <2>5, ShownAfterStep
  <2>7. levels' = [i \in 1 .. Len(e) |-> heap'[e[i]].data]
    BY <2>5, ShownAfterStep
  <2>8. levels = [i \in 1 .. Len(c) |-> heap[c[i]].data]
    BY <2>1, LevelsOfChain
  <2>9. \A i \in 1 .. Len(c): c[i] \in DOMAIN heap
    BY <2>1, <2>4, ChainFacts
  <2> DEFINE L == [i \in 1 .. Len(c) |-> heap[c[i]].data]
  <2>10. Append(L, level) = [i \in 1 .. Len(c) + 1 |-> IF i <= Len(c) THEN L[i] ELSE level]
    BY <2>4
  <2>11. levels' = Append(levels, level)
    BY <2>2, <2>4, <2>7, <2>8, <2>9, <2>10
  <2> QED BY <2>2, <2>5, <2>6, <2>11 DEF ListInv
<1> QED BY <1>1, <1>2

\* A reset frees every node: the heap is empty.
LEMMA ResetStep ==
  ASSUME ListInv, cclogger_reset_log_levels
  PROVE  ListInv' /\ levels' = <<>>
<1>1. CASE list = Null
  <2>1. UNCHANGED <<heap, list>>
    BY <1>1 DEF cclogger_reset_log_levels, listVars
  <2> QED BY <1>1, <2>1, ShownAfterStep DEF ListInv, NodesWhole
<1>2. CASE list # Null
  <2>1. PICK c: Chain(c)
    BY <1>2 DEF ListInv
  <2>2. DOMAIN heap' = {} /\ list' = Null
    BY <1>2, <2>1, ReachableIsHeap DEF cclogger_reset_log_levels, cclog_llist_clean
  <2> QED BY <2>2, ShownAfterStep DEF ListInv, NodesWhole
<1> QED BY <1>1, <1>2

\* The list does not change.
LEMMA ListStays ==
  ASSUME ListInv, UNCHANGED listVars
  PROVE  ListInv' /\ levels' = levels
<1>1. heap' = heap /\ list' = list
  BY DEF listVars
<1>2. CASE list = Null
  BY <1>1, <1>2, NoLevels, ShownAfterStep DEF ListInv, NodesWhole
<1>3. CASE list # Null
  <2>1. PICK c: Chain(c)
    BY <1>3 DEF ListInv
  <2>2. Chain(c)'
    BY <1>1, <2>1 DEF Chain
  <2> QED BY <1>1, <1>3, <2>1, <2>2, ChainShows, ShownAfterStep DEF ListInv, NodesWhole
<1> QED BY <1>2, <1>3

\* What a step of the program does to the list: it adds a level, frees all, or
\* leaves it alone.
LEMMA ListSteps ==
  ASSUME [Next]_vars
  PROVE  \/ \E level: AddLevel(level)
         \/ cclogger_reset_log_levels
         \/ DOMAIN heap' = {} /\ list' = Null
         \/ UNCHANGED listVars
<1>1. CASE AppAddsLevel
  BY <1>1 DEF AppAddsLevel
<1>2. CASE LoadLevel
  BY <1>2 DEF LoadLevel
<1>3. CASE LoadArray
  BY <1>3 DEF LoadArray
<1>4. CASE Restart
  BY <1>4 DEF Restart
<1>5. CASE cclogger_export_config_json
  BY <1>5 DEF cclogger_export_config_json
<1>6. CASE BeginLoad \/ LoadFormat \/ LoadVerbosity
  BY <1>6 DEF BeginLoad, LoadFormat, LoadVerbosity
<1>7. CASE LevelsEnd
  BY <1>7 DEF LevelsEnd
<1>8. CASE LoadServer
  BY <1>8 DEF LoadServer
<1>9. CASE UNCHANGED vars
  BY <1>9 DEF vars
<1> QED BY <1>1, <1>2, <1>3, <1>4, <1>5, <1>6, <1>7, <1>8, <1>9 DEF Next

\* Every step keeps the chain, and is a step of LevelList or none.
LEMMA ListStep ==
  ASSUME ListInv, [Next]_vars
  PROVE  ListInv' /\ [Levels!Add \/ Levels!Reset]_levels
<1>1. ASSUME NEW level, AddLevel(level)
      PROVE  ListInv' /\ Levels!Add
  <2>1. ListInv' /\ levels' = Append(levels, level)
    BY <1>1, AddLevelStep
  <2>2. levels \in Seq({levels[i] : i \in DOMAIN levels}) /\ Len(levels) \in Nat
    <3>1. CASE list = Null
      BY <3>1, NoLevels
    <3>2. CASE list # Null
      <4>1. PICK c: Chain(c)
        BY <3>2 DEF ListInv
      <4> QED BY <4>1, ChainFacts, LevelsOfChain
    <3> QED BY <3>1, <3>2
  <2>3. levels' # <<>> /\ levels'[Len(levels')] = level
    <3> DEFINE T == {levels[i] : i \in DOMAIN levels} \cup {level}
    <3>1. levels \in Seq(T) /\ level \in T
      BY <2>2
    <3> HIDE DEF T
    <3> QED BY <2>1, <3>1, AppendFacts
  <2> QED BY <2>1, <2>3 DEF Levels!Add
<1>2. CASE cclogger_reset_log_levels
  BY <1>2, ResetStep DEF Levels!Reset
<1>3. CASE DOMAIN heap' = {} /\ list' = Null
  BY <1>3, ShownAfterStep DEF Levels!Reset, ListInv, NodesWhole
<1>4. CASE UNCHANGED listVars
  BY <1>4, ListStays
<1> QED BY <1>1, <1>2, <1>3, <1>4, ListSteps

\* The nodes of the list are a chain in every reachable state.
LEMMA ListInvariant == Spec => []ListInv
<1>1. Init => ListInv
  BY DEF Init, ListInit, ListInv, NodesWhole
<1>2. ListInv /\ [Next]_vars => ListInv'
  BY ListStep
<1> QED BY <1>1, <1>2, PTL DEF Spec

\* No node is lost, and none is on the heap that the list does not reach, however
\* often levels are added and freed: cclog_llist_clean frees them all.
THEOREM NodesAreKept == Spec => []NoNodeLost
<1>1. ListInv => NoNodeLost
  <2>1. ASSUME ListInv, list = Null PROVE NoNodeLost
    BY <2>1 DEF ListInv, NoNodeLost, Reachable
  <2>2. ASSUME ListInv, list # Null PROVE NoNodeLost
    <3>1. PICK c: Chain(c)
      BY <2>2 DEF ListInv
    <3> QED BY <3>1, ReachableIsHeap, ChainCounts, ChainFacts DEF NoNodeLost
  <2> QED BY <2>1, <2>2
<1> QED BY <1>1, ListInvariant, PTL

\* The linked list implements a sequence of levels to which levels are added at
\* the end, and which is emptied at once.
THEOREM ListImplementsLevels == Spec => ImplementsLevelList
<1>1. Init => Levels!Init
  BY NoLevels DEF Init, ListInit, Levels!Init
<1>2. ListInv /\ [Next]_vars => [Levels!Add \/ Levels!Reset]_levels
  BY ListStep
<1> QED BY <1>1, <1>2, ListInvariant, PTL DEF Spec, ImplementsLevelList, Levels!Spec

-----------------------------------------------------------------------------
(* The buffers of a load.                                                  *)

\* What is allocated at each point of a load.
BufferInv ==
  /\ pc \in {"format", "verbosity", "array", "server"} => allocated = {"file"}
  /\ pc = "levels" => allocated = {"file", "log_levels"}
  /\ BuffersFreed

\* Every exit of a load frees the file buffer; what is lost is the text of the
\* levels or that of the server.
THEOREM LoadFreesBuffers == Spec => []BuffersFreed
<1>1. Init => BufferInv
  BY DEF Init, BufferInv, BuffersFreed
<1>2. BufferInv /\ [Next]_vars => BufferInv'
  <2> SUFFICES ASSUME BufferInv, [Next]_vars PROVE BufferInv'
    OBVIOUS
  <2> USE DEF BufferInv, BuffersFreed, Fails, Ends
  <2>1. CASE AppAddsLevel
    BY <2>1 DEF AppAddsLevel, loadVars
  <2>2. CASE cclogger_export_config_json
    BY <2>2 DEF cclogger_export_config_json, loadVars
  <2>3. CASE Restart
    BY <2>3 DEF Restart
  <2>4. CASE BeginLoad
    BY <2>4 DEF BeginLoad
  <2>5. CASE LoadFormat
    BY <2>5 DEF LoadFormat
  <2>6. CASE LoadVerbosity
    BY <2>6 DEF LoadVerbosity
  <2>7. CASE LoadArray
    BY <2>7 DEF LoadArray
  <2>8. CASE LoadLevel
    BY <2>8 DEF LoadLevel, LevelFails
  <2>9. CASE LevelsEnd
    BY <2>9 DEF LevelsEnd
  <2>10. CASE LoadServer
    BY <2>10 DEF LoadServer
  <2>11. CASE UNCHANGED vars
    BY <2>11 DEF vars, loadVars
  <2> QED BY <2>1, <2>2, <2>3, <2>4, <2>5, <2>6, <2>7, <2>8, <2>9, <2>10, <2>11 DEF Next
<1>3. BufferInv => BuffersFreed
  BY DEF BufferInv
<1> QED BY <1>1, <1>2, <1>3, PTL DEF Spec

-----------------------------------------------------------------------------
(* What can stand in a text, and what the reader finds in one.             *)

\* The symbols of the texts are no keys.
LEMMA NoKeys ==
  /\ Quote \notin Keys /\ Newline \notin Keys /\ Comma \notin Keys /\ "0" \notin Keys
  /\ BraceOpen \notin Keys /\ BraceClose \notin Keys
  /\ BracketOpen \notin Keys /\ BracketClose \notin Keys
  /\ Numbers \cap Keys = {} /\ Booleans \cap Keys = {} /\ Letters \cap Keys = {}
<1>1. Quote \notin Keys /\ Newline \notin Keys /\ Comma \notin Keys /\ "0" \notin Keys
  BY Zenon DEF Keys, Quote, Newline, Comma
<1>2. BraceOpen \notin Keys /\ BraceClose \notin Keys
  BY Zenon DEF Keys, BraceOpen, BraceClose
<1>3. BracketOpen \notin Keys /\ BracketClose \notin Keys
  BY Zenon DEF Keys, BracketOpen, BracketClose
<1>4. Booleans \cap Keys = {}
  BY Zenon DEF Keys, Booleans
<1> QED BY <1>1, <1>2, <1>3, <1>4, SymbolAssumption

\* What begins a structure or is no string is no quote.
LEMMA NoQuotes ==
  /\ BraceOpen # Quote /\ BracketOpen # Quote /\ Quote \notin Numbers /\ Quote \notin Booleans
  /\ "0" # Quote
<1>1. BraceOpen # Quote /\ BracketOpen # Quote
  BY Zenon DEF BraceOpen, BracketOpen, Quote
<1> QED BY <1>1, SymbolAssumption DEF Booleans, Quote

\* Found gives the first of some places.
LEMMA FoundFirst ==
  ASSUME NEW places, places \subseteq Nat, places # {}
  PROVE  Found(places) \in places /\ \A j \in places: Found(places) <= j
<1>1. \E k \in places: \A j \in places: k <= j
  BY SmallestExists
<1> QED BY <1>1 DEF Found

\* A part of a sequence.
LEMMA PartFacts ==
  ASSUME NEW T, NEW t \in Seq(T), NEW m \in Nat \ {0}, NEW n \in Nat, n <= Len(t)
  PROVE  /\ SubSeq(t, m, n) \in Seq(T)
         /\ Len(SubSeq(t, m, n)) = IF m <= n THEN n - m + 1 ELSE 0
         /\ \A i \in 1 .. Len(SubSeq(t, m, n)):
              SubSeq(t, m, n)[i] = t[m + i - 1] /\ m + i - 1 \in m .. n
OBVIOUS

\* UpTo gives a part that ends before one of the symbols, or with the text.
LEMMA UpToFacts ==
  ASSUME NEW T, NEW t \in Seq(T), NEW k \in Nat \ {0}, NEW symbols
  PROVE  \E e \in Nat: /\ k <= Len(t) => k <= e + 1
                       /\ e <= Len(t)
                       /\ UpTo(t, k, symbols) = SubSeq(t, k, e)
                       /\ \A m \in k .. e: t[m] \notin symbols
<1> DEFINE places == {j \in k .. Len(t) : t[j] \in symbols} \cup {Len(t) + 1}
<1>1. Len(t) \in Nat /\ places \subseteq Nat /\ places # {}
  OBVIOUS
<1>2. PICK f \in places: f = Found(places) /\ \A j \in places: f <= j
  <2> HIDE DEF places
  <2> QED BY <1>1, FoundFirst
<1>3. f - 1 \in Nat /\ f - 1 <= Len(t) /\ (k <= Len(t) => k <= (f - 1) + 1)
  BY <1>1, <1>2
<1>4. \A m \in k .. f - 1: t[m] \notin symbols
  BY <1>1, <1>2
<1>5. UpTo(t, k, symbols) = SubSeq(t, k, f - 1)
  BY <1>2 DEF UpTo
<1> QED BY <1>3, <1>4, <1>5

\* A part of a text is one, wherever it is cut.
LEMMA TextPart ==
  ASSUME NEW t \in Text, NEW m \in Nat \ {0}, NEW n \in Nat, n <= Len(t)
  PROVE  SubSeq(t, m, n) \in Text
BY PartFacts DEF Text

\* A line without its comma is a beginning of it.
LEMMA WithoutCommaFacts ==
  ASSUME NEW line \in Seq(Symbols)
  PROVE  /\ WithoutComma(line) \in Seq(Symbols) /\ Len(WithoutComma(line)) <= Len(line)
         /\ \A i \in 1 .. Len(WithoutComma(line)): WithoutComma(line)[i] = line[i]
<1>1. \/ WithoutComma(line) = line
      \/ WithoutComma(line) = SubSeq(line, 1, Len(line) - 1) /\ line # <<>>
  BY DEF WithoutComma
<1>2. CASE WithoutComma(line) = line
  BY <1>2
<1>3. ASSUME WithoutComma(line) = SubSeq(line, 1, Len(line) - 1), line # <<>>
      PROVE  /\ WithoutComma(line) \in Seq(Symbols) /\ Len(WithoutComma(line)) <= Len(line)
             /\ \A i \in 1 .. Len(WithoutComma(line)): WithoutComma(line)[i] = line[i]
  <2>1. PICK n \in Nat: n = Len(line) - 1
    BY <1>3
  <2>2. /\ SubSeq(line, 1, n) \in Seq(Symbols)
        /\ Len(SubSeq(line, 1, n)) = IF 1 <= n THEN n - 1 + 1 ELSE 0
        /\ \A i \in 1 .. Len(SubSeq(line, 1, n)): SubSeq(line, 1, n)[i] = line[1 + i - 1]
    BY <2>1, PartFacts
  <2> QED BY <1>3, <2>1, <2>2
<1> QED BY <1>1, <1>2, <1>3

\* What is quoted ends before the next quote, or key.
LEMMA QuotedFacts ==
  ASSUME NEW scan \in Text
  PROVE  \E d \in Nat: /\ d <= Len(scan) /\ Quoted(scan) = SubSeq(scan, 2, d)
                       /\ \A m \in 2 .. d: scan[m] \notin {Quote} \cup Keys
<1>1. PICK k \in Nat \ {0}: k = 2
  OBVIOUS
<1>2. PICK symbols: symbols = {Quote} \cup Keys
  OBVIOUS
<1>3. PICK e \in Nat: /\ e <= Len(scan)
                      /\ UpTo(scan, k, symbols) = SubSeq(scan, k, e)
                      /\ \A m \in k .. e: scan[m] \notin symbols
  BY UpToFacts DEF Text
<1> QED BY <1>1, <1>2, <1>3 DEF Quoted

\* A parameter that a text gives is of its type, if the static one is.
LEMMA ParamTyped ==
  ASSUME NEW json \in Text, NEW key, NEW before \in Params
  PROVE  LET param == cclog_json_get_param(json, key, before)
         IN param = Missing \/ param \in Params
<1> DEFINE places == {k \in DOMAIN json : json[k] = key}
           place == Found(places)
<1>1. json \in Seq(Symbols) /\ Len(json) \in Nat /\ DOMAIN json = 1 .. Len(json)
  BY DEF Text
<1>2. CASE place = Missing \/ place = Len(json)
  BY <1>2 DEF cclog_json_get_param
<1>3. CASE ~(place = Missing \/ place = Len(json))
  <2> DEFINE line == UpTo(json, place + 1, {Newline})
             scan == WithoutComma(line)
  <2>1. places # {} /\ places \subseteq Nat
    BY <1>1, <1>3 DEF Found
  <2>2. place \in 1 .. Len(json) - 1
    <3>1. place \in places
      BY <2>1, FoundFirst
    <3> QED BY <1>1, <1>3, <3>1
  <2> HIDE DEF place
  <2>3. PICK k \in Nat \ {0}: k = place + 1
    <3>1. place + 1 \in Nat \ {0}
      BY <2>2
    <3> QED BY <3>1
  <2>4. line \in Text
    <3>1. PICK e \in Nat: e <= Len(json) /\ UpTo(json, k, {Newline}) = SubSeq(json, k, e)
      BY <1>1, UpToFacts
    <3> QED BY <2>3, <3>1, TextPart
  <2> HIDE DEF line
  <2>5. scan \in Text
    BY <2>4, WithoutCommaFacts DEF Text
  <2> HIDE DEF scan
  <2>6. Quoted(scan) \in Text
    <3>1. PICK d \in Nat: d <= Len(scan) /\ Quoted(scan) = SubSeq(scan, 2, d)
      BY <2>5, QuotedFacts
    <3>2. PICK second \in Nat \ {0}: second = 2
      OBVIOUS
    <3> QED BY <2>5, <3>1, <3>2, TextPart
  <2>7. ParamOf(scan, before) \in Params
    BY <2>6 DEF ParamOf, Param, Params
  <2>8. cclog_json_get_param(json, key, before) = ParamOf(scan, before)
    BY <1>3 DEF cclog_json_get_param, scan, line, place
  <2> QED BY <2>7, <2>8
<1> QED BY <1>2, <1>3

-----------------------------------------------------------------------------
(* The builder.                                                            *)

\* One sequence behind another.
LEMMA JoinFacts ==
  ASSUME NEW T, NEW s \in Seq(T), NEW t \in Seq(T)
  PROVE  /\ s \o t \in Seq(T) /\ Len(s \o t) = Len(s) + Len(t)
         /\ Len(s) \in Nat /\ Len(t) \in Nat
         /\ \A i \in 1 .. Len(s): (s \o t)[i] = s[i]
         /\ \A i \in 1 .. Len(t): (s \o t)[Len(s) + i] = t[i]
OBVIOUS

\* A text that is built, and what was lost of it.
Builders == [text: Text, lost: Nat]

\* What fits of a line is a beginning of it.
LEMMA FittingFacts ==
  ASSUME NEW line \in Text
  PROVE  Fitting(line) \in Text /\ Len(Fitting(line)) <= Len(line) /\ Len(Fitting(line)) \in Nat
<1>1. PICK l \in Nat: l = Len(line)
  BY DEF Text
<1>2. CASE ~(line[1] \in StringKeys /\ Longest[line[1]] + 5 < Len(line))
  BY <1>1, <1>2 DEF Fitting
<1>3. CASE line[1] \in StringKeys /\ Longest[line[1]] + 5 < Len(line)
  <2>1. PICK n \in Nat: n = Longest[line[1]] + 5 /\ n < l
    BY <1>1, <1>3, SizeAssumption
  <2>2. PICK m \in Nat \ {0}: m = 1
    OBVIOUS
  <2>3. SubSeq(line, m, n) \in Text /\ Len(SubSeq(line, m, n)) = n
    BY <1>1, <2>1, <2>2, PartFacts DEF Text
  <2>4. Fitting(line) = SubSeq(line, m, n)
    BY <1>3, <2>1, <2>2 DEF Fitting
  <2> QED BY <1>1, <2>1, <2>3, <2>4
<1> QED BY <1>2, <1>3

\* A line is written behind a text.
LEMMA WriteTyped ==
  ASSUME NEW b \in Builders, NEW line \in Text
  PROVE  Write(b, line) \in Builders
<1> DEFINE before == IF b.text # <<>> /\ b.text[Len(b.text)] # Newline
                     THEN Append(b.text, Blank) ELSE b.text
<1>1. b.text \in Text /\ b.lost \in Nat
  BY DEF Builders
<1>2. before \in Text
  BY <1>1 DEF Text, Symbols
<1> HIDE DEF before
<1>3. /\ Fitting(line) \in Text /\ Len(Fitting(line)) <= Len(line)
      /\ Len(Fitting(line)) \in Nat /\ Len(line) \in Nat
  BY FittingFacts DEF Text
<1>4. before \o Fitting(line) \in Text /\ b.lost + Len(line) - Len(Fitting(line)) \in Nat
  BY <1>1, <1>2, <1>3 DEF Text
<1>5. Write(b, line) = [text |-> before \o Fitting(line),
                        lost |-> b.lost + Len(line) - Len(Fitting(line))]
  BY DEF Write, before
<1> QED BY <1>4, <1>5 DEF Builders

\* What is left without a comma is a text.
LEMMA RemoveTyped ==
  ASSUME NEW b \in Builders
  PROVE  RemoveLastComa(b) \in Builders
<1> DEFINE place == Len(b.text) + b.lost - 1
<1>1. /\ b.text \in Text /\ b.lost \in Nat /\ Len(b.text) \in Nat
      /\ DOMAIN b.text = 1 .. Len(b.text)
  BY DEF Builders, Text
<1>2. CASE place \in DOMAIN b.text /\ b.text[place] = Comma
  <2>1. PICK n \in Nat, m \in Nat \ {0}: n = place - 1 /\ m = 1 /\ n <= Len(b.text)
    <3>1. place - 1 \in Nat /\ place - 1 <= Len(b.text) /\ 1 \in Nat \ {0}
      BY <1>1, <1>2
    <3> QED BY <3>1
  <2>2. SubSeq(b.text, m, n) \in Text
    BY <1>1, <2>1, TextPart
  <2>3. Append(SubSeq(b.text, m, n), Newline) \in Text
    BY <2>2 DEF Text, Symbols
  <2>4. RemoveLastComa(b) = [text |-> Append(SubSeq(b.text, m, n), Newline), lost |-> 0]
    BY <1>2, <2>1 DEF RemoveLastComa
  <2> QED BY <2>3, <2>4 DEF Builders
<1>3. CASE ~(place \in DOMAIN b.text /\ b.text[place] = Comma)
  BY <1>3 DEF RemoveLastComa
<1> QED BY <1>2, <1>3

\* The lines of brackets, and those of parameters.
LEMMA LineTyped ==
  /\ \A x, y \in Symbols: <<x, y>> \in Text
  /\ \A x, y, z \in Symbols: <<x, y, z>> \in Text
  /\ \A s, t \in Text: s \o t \in Text
  /\ {Newline, Comma, Quote, "0", BraceOpen, BraceClose, BracketOpen, BracketClose} \subseteq Symbols
  /\ Keys \cup Numbers \cup Booleans \subseteq Symbols
BY DEF Text, Symbols

\* The steps of AddParameters.
LEMMA ParametersSteps ==
  ASSUME NEW b \in Builders, NEW params, Len(params) \in Nat,
         \A n \in 1 .. Len(params): params[n] \in Text
  PROVE  \E after \in [0 .. Len(params) -> Builders]:
           /\ after[0] = b
           /\ \A n \in 1 .. Len(params):
                after[n] = Write(after[n - 1], params[n] \o << Comma, Newline >>)
           /\ AddParameters(b, params) = after[Len(params)]
<1> DEFINE N == Len(params)
           IsAfter(f) == f = [n \in 0 .. Len(params) |->
             IF n = 0 THEN b ELSE Write(f[n - 1], params[n] \o << Comma, Newline >>)]
           after == CHOOSE f: IsAfter(f)
           step == [n \in 1 .. N |-> [v \in Builders |->
                      Write(v, params[n] \o << Comma, Newline >>)]]
<1>1. AddParameters(b, params) = after[N]
  BY DEF AddParameters
<1> HIDE DEF after
<1>2. ASSUME NEW n \in 1 .. N, NEW v \in Builders
      PROVE  Write(v, params[n] \o << Comma, Newline >>) \in Builders
  <2>1. params[n] \o << Comma, Newline >> \in Text
    BY LineTyped
  <2> QED BY <2>1, WriteTyped
<1>3. step \in [1 .. N -> [Builders -> Builders]]
  BY <1>2
<1>4. PICK f \in [0 .. N -> Builders]: Counted(f, N, b, step)
  <2>1. N \in Nat
    OBVIOUS
  <2> HIDE DEF step, N
  <2> QED BY <1>3, <2>1, CountedExists
<1>5. ASSUME NEW n \in 0 .. N
      PROVE  f[n] = IF n = 0 THEN b ELSE Write(f[n - 1], params[n] \o << Comma, Newline >>)
  <2>1. CASE n = 0
    BY <1>4, <2>1 DEF Counted
  <2>2. CASE n # 0
    <3>1. n \in 1 .. N /\ n - 1 \in 0 .. N
      BY <2>2
    <3> QED BY <1>4, <2>2, <3>1 DEF Counted
  <2> QED BY <2>1, <2>2
<1>6. IsAfter(after)
  <2>1. IsAfter(f)
    BY <1>5
  <2> HIDE DEF IsAfter
  <2> QED BY <2>1 DEF after
<1>7. /\ after[0] = b
      /\ \A n \in 1 .. N: after[n] = Write(after[n - 1], params[n] \o << Comma, Newline >>)
  <2>1. \A n \in 0 .. N: after[n] = IF n = 0 THEN b ELSE
                             Write(after[n - 1], params[n] \o << Comma, Newline >>)
    BY <1>6
  <2>2. 0 \in 0 .. N /\ \A n \in 1 .. N: n \in 0 .. N /\ n # 0
    OBVIOUS
  <2> HIDE DEF IsAfter
  <2> QED BY <2>1, <2>2
<1>8. after \in [0 .. N -> Builders]
  <2>1. \A n \in 1 .. N: after[n - 1] \in Builders => after[n] \in Builders
    BY <1>2, <1>7
  <2>2. \A n \in 0 .. N: after[n] \in Builders
    BY <1>7, <2>1, CountedStays
  <2>3. after = [n \in 0 .. N |-> after[n]]
    BY <1>6
  <2> HIDE DEF IsAfter
  <2> QED BY <2>2, <2>3
<1> QED BY <1>1, <1>7, <1>8

\* A parameter that is a string.
LEMMA StringParam ==
  ASSUME NEW key \in Keys, NEW s \in String
  PROVE  << key >> \o QuotedText(s) \in Text /\ Len(<< key >> \o QuotedText(s)) = Len(s) + 3
<1>1. key \in Symbols /\ Quote \in Symbols /\ s \in Seq(Symbols)
  BY DEF String, Symbols
<1> QED BY <1>1 DEF QuotedText, Text

\* The parameters of a level are in a set, if each of them is.
LEMMA LevelParamsIn ==
  ASSUME NEW level \in Level, NEW V,
         \A n \in 1 .. 4: << Required[n].key, level.required[n] >> \in V,
         level.msg_format # Null => << "msg_format" >> \o QuotedText(level.msg_format) \in V,
         level.callback # Null => << "callback" >> \o QuotedText(level.callback.name) \in V
  PROVE  LevelParams(level) \in Seq(V) /\ Len(LevelParams(level)) > 0
<1> DEFINE required == [n \in DOMAIN Required |-> << Required[n].key, level.required[n] >>]
           format == IF level.msg_format = Null THEN <<>>
                     ELSE << << "msg_format" >> \o QuotedText(level.msg_format) >>
           callback == IF level.callback = Null THEN <<>>
                       ELSE << << "callback" >> \o QuotedText(level.callback.name) >>
<1>1. required \in Seq(V) /\ Len(required) = 4
  <2>1. DOMAIN Required = 1 .. 4
    BY DEF Required
  <2> HIDE DEF Required
  <2> QED BY <2>1
<1>2. format \in Seq(V) /\ callback \in Seq(V)
  OBVIOUS
<1> HIDE DEF required, format, callback
<1>3. required \o format \o callback \in Seq(V) /\ Len(required \o format \o callback) > 0
  BY <1>1, <1>2
<1> QED BY <1>3 DEF LevelParams, required, format, callback

\* What the parameters of a level hold.
LEMMA LevelParts ==
  ASSUME NEW level \in Level
  PROVE  /\ \A n \in 1 .. 4: /\ << Required[n].key, level.required[n] >> \in Text
                             /\ Required[n].key \in Keys \ StringKeys
         /\ level.msg_format # Null => level.msg_format \in String
         /\ level.callback # Null => level.callback.name \in String
         /\ "msg_format" \in Keys /\ "callback" \in Keys
<1>1. ASSUME NEW n \in 1 .. 4
      PROVE  /\ << Required[n].key, level.required[n] >> \in Text
             /\ Required[n].key \in Keys \ StringKeys
  <2>1. Required[n].key \in Keys \ StringKeys
    BY DEF Keys, StringKeys, Required
  <2>2. level.required[n] \in Booleans \cup Numbers
    BY DEF Level, LevelOf
  <2> QED BY <2>1, <2>2, LineTyped
<1>2. level.msg_format # Null => level.msg_format \in String
  BY DEF Level, LevelOf
<1>3. level.callback # Null => level.callback.name \in String
  BY ApplicationAssumption DEF Level, LevelOf
<1> QED BY <1>1, <1>2, <1>3 DEF Keys

\* The parameters of a level are texts.
LEMMA LevelParamsTyped ==
  ASSUME NEW level \in Level
  PROVE  LevelParams(level) \in Seq(Text)
<1>1. level.msg_format # Null => << "msg_format" >> \o QuotedText(level.msg_format) \in Text
  BY LevelParts, StringParam
<1>2. level.callback # Null => << "callback" >> \o QuotedText(level.callback.name) \in Text
  BY LevelParts, StringParam
<1> QED BY <1>1, <1>2, LevelParts, LevelParamsIn

\* The parameters of the options are texts.
LEMMA OptionParamsTyped ==
  ASSUME NEW options \in Options
  PROVE  OptionParams(options) \in Seq(Text) /\ Len(OptionParams(options)) = 4
<1> DEFINE path == << "log_file_path" >> \o QuotedText(<<>>)
           method == << "log_method", "0" >>
           format == << "def_msg_format" >> \o QuotedText(options.format)
           verbosity == << "logger_verbosity", options.verbosity >>
<1>1. /\ options.format \in String /\ options.verbosity \in Numbers /\ <<>> \in String
      /\ {"log_file_path", "log_method", "def_msg_format", "logger_verbosity"} \subseteq Keys
  BY DEF Options, OptionsOf, String, Keys
<1>2. path \in Text /\ format \in Text
  BY <1>1, StringParam
<1>3. method \in Text /\ verbosity \in Text
  BY <1>1, LineTyped
<1>4. OptionParams(options) = << path, method, format, verbosity >>
  BY DEF OptionParams
<1> HIDE DEF path, method, format, verbosity
<1> QED BY <1>2, <1>3, <1>4

\* Parameters that are texts are added to a text.
LEMMA ParametersTyped ==
  ASSUME NEW b \in Builders, NEW params \in Seq(Text)
  PROVE  AddParameters(b, params) \in Builders
<1>1. Len(params) \in Nat /\ \A n \in 1 .. Len(params): params[n] \in Text
  OBVIOUS
<1>2. PICK after \in [0 .. Len(params) -> Builders]: AddParameters(b, params) = after[Len(params)]
  BY <1>1, ParametersSteps
<1> QED BY <1>1, <1>2

\* An object or an array is ended in a text.
LEMMA EndTyped ==
  ASSUME NEW b \in Builders, NEW bracket \in {BraceClose, BracketClose}
  PROVE  End(b, bracket) \in Builders
<1>1. << bracket, Comma, Newline >> \in Text
  BY LineTyped
<1> QED BY <1>1, RemoveTyped, WriteTyped DEF End

\* A level is added to a text.
LEMMA LevelTyped ==
  ASSUME NEW b \in Builders, NEW level \in Level
  PROVE  export_log_level(b, level) \in Builders
<1>1. Write(b, << BraceOpen, Newline >>) \in Builders
  BY LineTyped, WriteTyped
<1>2. AddParameters(Write(b, << BraceOpen, Newline >>), LevelParams(level)) \in Builders
  BY <1>1, LevelParamsTyped, ParametersTyped
<1> QED BY <1>2, EndTyped DEF export_log_level

\* The steps of AddLevels.
LEMMA LevelsSteps ==
  ASSUME NEW b \in Builders, NEW exported \in Seq(Level)
  PROVE  \E after \in [0 .. Len(exported) -> Builders]:
           /\ after[0] = b
           /\ \A n \in 1 .. Len(exported): after[n] = export_log_level(after[n - 1], exported[n])
           /\ AddLevels(b, exported) = after[Len(exported)]
<1> DEFINE N == Len(exported)
           IsAfter(f) == f = [n \in 0 .. Len(exported) |->
             IF n = 0 THEN b ELSE export_log_level(f[n - 1], exported[n])]
           after == CHOOSE f: IsAfter(f)
           step == [n \in 1 .. N |-> [v \in Builders |-> export_log_level(v, exported[n])]]
<1>1. AddLevels(b, exported) = after[N]
  BY DEF AddLevels
<1> HIDE DEF after
<1>2. N \in Nat /\ \A n \in 1 .. N: exported[n] \in Level
  OBVIOUS
<1>3. ASSUME NEW n \in 1 .. N, NEW v \in Builders PROVE export_log_level(v, exported[n]) \in Builders
  BY <1>2, LevelTyped
<1>4. step \in [1 .. N -> [Builders -> Builders]]
  BY <1>3
<1>5. PICK f \in [0 .. N -> Builders]: Counted(f, N, b, step)
  <2> HIDE DEF step, N
  <2> QED BY <1>2, <1>4, CountedExists
<1>6. ASSUME NEW n \in 0 .. N
      PROVE  f[n] = IF n = 0 THEN b ELSE export_log_level(f[n - 1], exported[n])
  <2>1. CASE n = 0
    BY <1>5, <2>1 DEF Counted
  <2>2. CASE n # 0
    <3>1. n \in 1 .. N /\ n - 1 \in 0 .. N
      BY <1>2, <2>2
    <3> QED BY <1>5, <2>2, <3>1 DEF Counted
  <2> QED BY <2>1, <2>2
<1>7. IsAfter(after)
  <2>1. IsAfter(f)
    BY <1>6
  <2> HIDE DEF IsAfter
  <2> QED BY <2>1 DEF after
<1>8. /\ after[0] = b
      /\ \A n \in 1 .. N: after[n] = export_log_level(after[n - 1], exported[n])
  <2>1. \A n \in 0 .. N: after[n] = IF n = 0 THEN b ELSE export_log_level(after[n - 1], exported[n])
    BY <1>7
  <2>2. 0 \in 0 .. N /\ \A n \in 1 .. N: n \in 0 .. N /\ n # 0
    BY <1>2
  <2> HIDE DEF IsAfter, N
  <2> QED BY <2>1, <2>2
<1>9. after \in [0 .. N -> Builders]
  <2>1. \A n \in 1 .. N: after[n - 1] \in Builders => after[n] \in Builders
    BY <1>3, <1>8
  <2>2. \A n \in 0 .. N: after[n] \in Builders
    <3> HIDE DEF N
    <3> QED BY <1>2, <1>8, <2>1, CountedStays
  <2>3. after = [n \in 0 .. N |-> after[n]]
    BY <1>7
  <2> HIDE DEF IsAfter
  <2> QED BY <2>2, <2>3
<1> QED BY <1>1, <1>8, <1>9

\* Levels are added to a text.
LEMMA LevelsTyped ==
  ASSUME NEW b \in Builders, NEW exported \in Seq(Level)
  PROVE  AddLevels(b, exported) \in Builders
<1>1. PICK after \in [0 .. Len(exported) -> Builders]:
        AddLevels(b, exported) = after[Len(exported)]
  BY LevelsSteps
<1> QED BY <1>1

\* A server is added to a text.
LEMMA ServerTyped ==
  ASSUME NEW b \in Builders, NEW port \in Numbers \cup {Null}
  PROVE  AddServer(b, port) \in Builders
<1>1. CASE port = Null
  BY <1>1 DEF AddServer
<1>2. CASE port # Null
  <2>1. << "server", BraceOpen, Newline >> \in Text /\ << "port", port >> \in Text
    BY <1>2, LineTyped DEF Keys
  <2>2. PICK param \in Text: param = << "port", port >>
    BY <2>1
  <2>3. Write(b, << "server", BraceOpen, Newline >>) \in Builders
    BY <2>1, WriteTyped
  <2>4. PICK params \in Seq(Text): params = << param >>
    <3>1. << param >> \in Seq(Text)
      <4> HIDE DEF Text
      <4> QED OBVIOUS
    <3> QED BY <3>1
  <2>5. AddParameters(Write(b, << "server", BraceOpen, Newline >>), params) \in Builders
    BY <2>3, ParametersTyped
  <2> QED BY <1>2, <2>2, <2>4, <2>5, EndTyped DEF AddServer
<1> QED BY <1>1, <1>2

\* What is exported is a text, whatever strings and levels there are.
LEMMA ExportTyped ==
  ASSUME NEW options \in Options, NEW exported \in Seq(Level)
  PROVE  Exported(options, exported) \in Text
<1> DEFINE start == Write([text |-> <<>>, lost |-> 0], << BraceOpen, Newline >>)
           params == AddParameters(start, OptionParams(options))
           array_ == AddLevels(Write(params, << "log_levels", BracketOpen, Newline >>), exported)
           server == AddServer(End(array_, BracketClose), options.port)
<1>1. << BraceOpen, Newline >> \in Text /\ << BraceClose, Newline >> \in Text
      /\ << "log_levels", BracketOpen, Newline >> \in Text
  BY LineTyped DEF Keys
<1>2. start \in Builders
  <2>1. [text |-> <<>>, lost |-> 0] \in Builders
    BY DEF Builders, Text
  <2> QED BY <1>1, <2>1, WriteTyped
<1> HIDE DEF start
<1>3. params \in Builders
  BY <1>2, OptionParamsTyped, ParametersTyped
<1> HIDE DEF params
<1>4. array_ \in Builders
  BY <1>1, <1>3, WriteTyped, LevelsTyped
<1> HIDE DEF array_
<1>5. server \in Builders
  <2>1. options.port \in Numbers \cup {Null}
    BY DEF Options, OptionsOf
  <2> QED BY <1>4, <2>1, EndTyped, ServerTyped
<1> HIDE DEF server
<1>6. Write(RemoveLastComa(server), << BraceClose, Newline >>) \in Builders
  BY <1>1, <1>5, RemoveTyped, WriteTyped
<1>7. Exported(options, exported) = Write(RemoveLastComa(server), << BraceClose, Newline >>).text
  BY DEF Exported, server, array_, params, start
<1> QED BY <1>6, <1>7 DEF Builders

-----------------------------------------------------------------------------
(* The members of an object, by recursion.                                 *)

\* What Members makes of the members up to one, with what separates it from the
\* next.
WithText(t, texts, n) ==
  t \o texts[n] \o (IF n < Len(texts) THEN << Comma, Newline >> ELSE << Newline >>)

MembersFrom(first, texts) ==
  first = [n \in 0 .. Len(texts) |->
             IF n = 0 THEN <<>>
             ELSE WithText(first[n - 1], texts, n)]

\* Texts of which no join leaves the set, with what stands between members.
Separated(V) ==
  /\ V \subseteq Seq(Symbols)
  /\ {<<>>, << Newline >>, << Comma, Newline >>} \subseteq V
  /\ \A s, t \in V: s \o t \in V

\* A text with one more member stays in such a set.
LEMMA WithTextIn ==
  ASSUME NEW V, Separated(V), NEW t \in V, NEW texts, NEW n, texts[n] \in V
  PROVE  WithText(t, texts, n) \in V
<1>1. t \o texts[n] \in V
  BY DEF Separated
<1> DEFINE u == t \o texts[n]
<1> HIDE DEF u
<1>2. u \o << Newline >> \in V /\ u \o << Comma, Newline >> \in V
  BY <1>1 DEF Separated, u
<1> QED BY <1>2 DEF WithText, u

\* All texts are such a set.
LEMMA TextsSeparated == Separated(Seq(Symbols))
<1>1. Newline \in Symbols /\ Comma \in Symbols
  BY DEF Symbols
<1> QED BY <1>1 DEF Separated

\* The function by which Members is defined exists, and gives it.
LEMMA MembersExist ==
  ASSUME NEW texts, Len(texts) \in Nat, \A n \in 1 .. Len(texts): texts[n] \in Seq(Symbols)
  PROVE  \E first \in [0 .. Len(texts) -> Seq(Symbols)]:
           MembersFrom(first, texts) /\ Members(texts) = first[Len(texts)]
<1> DEFINE L == Len(texts)
           V == Seq(Symbols)
           step == [n \in Nat |-> [t \in V |-> IF n < L THEN WithText(t, texts, n + 1) ELSE t]]
           chosen == CHOOSE f: MembersFrom(f, texts)
<1>1. Separated(V)
  BY TextsSeparated
<1>2. ASSUME NEW n \in Nat PROVE step[n] \in [V -> V]
  <2>1. ASSUME NEW t \in V, n < L PROVE WithText(t, texts, n + 1) \in V
    <3>1. n + 1 \in 1 .. L
      BY <2>1
    <3> QED BY <1>1, <3>1, WithTextIn
  <2> QED BY <2>1
<1>3. step \in [Nat -> [V -> V]]
  BY <1>2
<1>4. <<>> \in V
  OBVIOUS
<1> HIDE DEF V
<1>5. PICK f \in [Nat -> V]: Recursive(f, <<>>, step)
  <2> HIDE DEF step
  <2> QED BY <1>3, <1>4, RecursionExists
<1>6. f[0] = <<>> /\ \A n \in Nat: n < L => f[n + 1] = WithText(f[n], texts, n + 1)
  <2>1. \A n \in Nat: f[n] \in V /\ f[n + 1] = step[n][f[n]]
    BY <1>5 DEF Recursive
  <2>2. ASSUME NEW n \in Nat, n < L PROVE f[n + 1] = WithText(f[n], texts, n + 1)
    BY <2>1, <2>2
  <2> QED BY <1>5, <2>2 DEF Recursive
<1> HIDE DEF step
<1> DEFINE g == [n \in 0 .. L |-> f[n]]
<1>7. ASSUME NEW n \in 0 .. L
      PROVE  g[n] = IF n = 0 THEN <<>> ELSE WithText(g[n - 1], texts, n)
  <2>1. CASE n = 0
    BY <1>6, <2>1
  <2>2. CASE n # 0
    <3>1. PICK m \in Nat: n = m + 1 /\ n - 1 = m /\ m < L /\ m \in 0 .. L
      <4>1. n - 1 \in Nat /\ n = (n - 1) + 1 /\ n - 1 < L /\ n - 1 \in 0 .. L
        BY <2>2
      <4> QED BY <4>1
    <3>2. f[m + 1] = WithText(f[m], texts, m + 1)
      BY <1>6, <3>1
    <3>3. g[n] = f[n] /\ g[n - 1] = f[m] /\ n # 0
      BY <2>2, <3>1
    <3> HIDE DEF g
    <3> QED BY <3>1, <3>2, <3>3
  <2> QED BY <2>1, <2>2
<1>8. MembersFrom(g, texts)
  BY <1>7 DEF MembersFrom
<1> HIDE DEF g
<1>9. MembersFrom(chosen, texts)
  BY <1>8
<1> HIDE DEF chosen
<1>10. chosen \in [0 .. L -> V]
  <2> DEFINE S == {n \in Nat : chosen[n] \in V}
  <2>1. 0 \in S
    BY <1>4, <1>9 DEF MembersFrom
  <2>2. ASSUME NEW n \in 0 .. L, n < L, n \in S PROVE n + 1 \in S
    <3>1. n + 1 \in 1 .. L /\ (n + 1) - 1 = n
      BY <2>2
    <3>2. chosen[n + 1] = WithText(chosen[n], texts, n + 1)
      BY <1>9, <3>1 DEF MembersFrom
    <3>3. texts[n + 1] \in V /\ chosen[n] \in V
      BY <2>2, <3>1 DEF V
    <3> QED BY <1>1, <3>2, <3>3, WithTextIn
  <2> HIDE DEF S
  <2>3. \A n \in 0 .. L: n \in S
    BY <2>1, <2>2, BoundedInduction
  <2>4. \A n \in 0 .. L: chosen[n] \in V
    BY <2>3 DEF S
  <2>5. chosen = [n \in 0 .. L |-> chosen[n]]
    BY <1>9 DEF MembersFrom
  <2> QED BY <2>4, <2>5
<1>11. Members(texts) = chosen[L]
  BY DEF Members, MembersFrom, WithText, chosen
<1> QED BY <1>9, <1>10, <1>11 DEF V

\* The steps of that function.
LEMMA MembersSteps ==
  ASSUME NEW texts, Len(texts) \in Nat, NEW first, MembersFrom(first, texts)
  PROVE  /\ first[0] = <<>>
         /\ \A n \in 0 .. Len(texts): n < Len(texts) =>
              first[n + 1] = WithText(first[n], texts, n + 1)
<1>1. 0 \in 0 .. Len(texts)
  OBVIOUS
<1>2. ASSUME NEW n \in 0 .. Len(texts), n < Len(texts)
      PROVE  first[n + 1] = WithText(first[n], texts, n + 1)
  <2>1. n + 1 \in 0 .. Len(texts) /\ n + 1 # 0 /\ (n + 1) - 1 = n
    BY <1>2
  <2> QED BY <2>1 DEF MembersFrom
<1> QED BY <1>1, <1>2 DEF MembersFrom

\* The members of an object or an array are in such a set, if each is.
LEMMA MembersIn ==
  ASSUME NEW V, Separated(V), NEW texts, Len(texts) \in Nat,
         \A n \in 1 .. Len(texts): texts[n] \in V
  PROVE  Members(texts) \in V
<1>1. PICK first: MembersFrom(first, texts) /\ Members(texts) = first[Len(texts)]
  BY MembersExist DEF Separated
<1> DEFINE S == {n \in Nat : first[n] \in V}
<1>2. 0 \in S
  BY <1>1, MembersSteps DEF Separated
<1>3. ASSUME NEW n \in 0 .. Len(texts), n < Len(texts), n \in S PROVE n + 1 \in S
  <2>1. first[n] \in V /\ n + 1 \in 1 .. Len(texts) /\ n + 1 \in Nat
    BY <1>3
  <2>2. first[n + 1] = WithText(first[n], texts, n + 1)
    BY <1>1, <1>3, MembersSteps
  <2> QED BY <2>1, <2>2, WithTextIn
<1> HIDE DEF S
<1>4. \A n \in 0 .. Len(texts): n \in S
  BY <1>2, <1>3, BoundedInduction
<1> QED BY <1>1, <1>4 DEF S

-----------------------------------------------------------------------------
(* An export of which every line is whole.                                 *)

\* Texts that are joined, in any order.
LEMMA TextsAssociate ==
  ASSUME NEW s \in Text, NEW t \in Text, NEW u \in Text PROVE (s \o t) \o u = s \o (t \o u)
BY ConcatAssociative DEF Text

\* Two texts that are joined, and a text with nothing.
LEMMA TextsJoin ==
  ASSUME NEW s \in Text, NEW t \in Text
  PROVE  s \o t \in Text /\ s \o <<>> = s /\ <<>> \o s = s
<1>1. s \in Seq(Symbols) /\ t \in Seq(Symbols)
  BY DEF Text
<1>2. s \o t \in Seq(Symbols)
  BY <1>1
<1>3. s \o <<>> = s /\ <<>> \o s = s
  BY <1>1, ConcatEmptySeq
<1> QED BY <1>2, <1>3 DEF Text

\* What is built when nothing is lost.
Built(t) == [text |-> t, lost |-> 0]

\* A text of whole lines, and a line that is written whole.
Lines(t) == t \in Text /\ (t # <<>> => t[Len(t)] = Newline)
WholeLine(line) ==
  line \in Text /\ line # <<>> /\ line[Len(line)] = Newline /\ Fitting(line) = line

Separator == << Comma, Newline >>

\* A whole line is written as it is.
LEMMA LineWritten ==
  ASSUME NEW t, Lines(t), NEW line, WholeLine(line)
  PROVE  Write(Built(t), line) = Built(t \o line) /\ Lines(t \o line)
<1>1. PICK k \in Nat, l \in Nat \ {0}: k = Len(t) /\ l = Len(line)
  BY DEF Lines, WholeLine, Text
<1>2. Write(Built(t), line) = Built(t \o line)
  <2>1. Write(Built(t), line) = [text |-> t \o line, lost |-> 0 + Len(line) - Len(line)]
    BY DEF Write, Built, Lines, WholeLine
  <2> QED BY <1>1, <2>1 DEF Built
<1>3. /\ t \o line \in Text /\ Len(t \o line) = k + l
      /\ \A i \in 1 .. l: (t \o line)[k + i] = line[i]
  BY <1>1, JoinFacts DEF Lines, WholeLine, Text
<1>4. l \in 1 .. l
  BY <1>1
<1> QED BY <1>1, <1>2, <1>3, <1>4 DEF Lines, WholeLine

\* Parameters whose lines are whole.
Fit == {p \in Text : p # <<>> /\ (p[1] \in StringKeys => Len(p) <= Longest[p[1]] + 3)}

\* The line of such a parameter is whole.
LEMMA FitLine == ASSUME NEW p \in Fit PROVE WholeLine(p \o Separator)
<1>1. PICK l \in Nat \ {0}: l = Len(p)
  BY DEF Fit, Text
<1>2. PICK q \in Seq(Symbols), sep \in Seq(Symbols): /\ q = p /\ sep = Separator
                                                     /\ Len(sep) = 2 /\ sep[2] = Newline
  <2>1. p \in Seq(Symbols) /\ Separator \in Seq(Symbols)
    BY LineTyped DEF Fit, Separator, Text
  <2>2. Len(Separator) = 2 /\ Separator[2] = Newline
    BY DEF Separator
  <2> QED BY <2>1, <2>2
<1> DEFINE line == q \o sep
<1>3. /\ line \in Text /\ Len(line) = l + 2
      /\ \A i \in 1 .. l: line[i] = q[i]
      /\ \A i \in 1 .. 2: line[l + i] = sep[i]
  <2>1. /\ line \in Seq(Symbols) /\ Len(line) = Len(q) + Len(sep)
        /\ \A i \in 1 .. Len(q): line[i] = q[i]
        /\ \A i \in 1 .. Len(sep): line[Len(q) + i] = sep[i]
    BY JoinFacts
  <2> QED BY <1>1, <1>2, <2>1 DEF Text
<1> HIDE DEF line
<1>4. line[1] = p[1] /\ line[Len(line)] = Newline /\ line # <<>>
  <2>1. 1 \in 1 .. l /\ 2 \in 1 .. 2
    BY <1>1
  <2> QED BY <1>2, <1>3, <2>1
<1>5. line[1] \in StringKeys => ~(Longest[line[1]] + 5 < Len(line))
  <2> HAVE line[1] \in StringKeys
  <2>1. PICK n \in Nat: n = Longest[line[1]]
    BY SizeAssumption
  <2>2. l <= n + 3
    BY <1>1, <1>4, <2>1 DEF Fit
  <2> QED BY <1>3, <2>1, <2>2
<1>6. Fitting(line) = line
  BY <1>5 DEF Fitting
<1> QED BY <1>2, <1>3, <1>4, <1>6 DEF WholeLine, line

\* The comma of the last line is taken away.
LEMMA CommaRemoved ==
  ASSUME NEW u \in Text
  PROVE  RemoveLastComa(Built(u \o Separator)) = Built(u \o << Newline >>)
<1>1. PICK k \in Nat: k = Len(u)
  BY DEF Text
<1>2. PICK sep \in Text: sep = Separator /\ Len(sep) = 2 /\ sep[1] = Comma
  BY LineTyped DEF Separator
<1> DEFINE t == u \o sep
<1>3. /\ t \in Text /\ Len(t) = k + 2 /\ DOMAIN t = 1 .. k + 2
      /\ \A i \in 1 .. k: t[i] = u[i]
      /\ \A i \in 1 .. 2: t[k + i] = sep[i]
  BY <1>1, <1>2, JoinFacts DEF Text
<1> HIDE DEF t
<1>4. t[k + 1] = Comma
  BY <1>2, <1>3
<1>5. SubSeq(t, 1, k) = u
  <2>1. PICK one \in Nat \ {0}: one = 1
    OBVIOUS
  <2> DEFINE part == SubSeq(t, one, k)
  <2>2. /\ part \in Seq(Symbols) /\ Len(part) = IF one <= k THEN k - one + 1 ELSE 0
        /\ \A i \in 1 .. Len(part): part[i] = t[one + i - 1]
    BY <1>1, <1>3, PartFacts, SMTT(30) DEF Text
  <2> HIDE DEF part
  <2>3. Len(part) = Len(u) /\ \A i \in 1 .. Len(u): part[i] = u[i]
    BY <1>1, <1>3, <2>1, <2>2
  <2>4. part = u
    BY <2>2, <2>3 DEF Text
  <2> QED BY <2>1, <2>4 DEF part
<1>6. RemoveLastComa(Built(t)) = Built(Append(SubSeq(t, 1, k), Newline))
  <2>1. Len(t) + 0 - 1 = k + 1 /\ k + 1 \in DOMAIN t /\ (k + 1) - 1 = k
    BY <1>3
  <2>2. Built(t).text = t /\ Built(t).lost = 0
    BY DEF Built
  <2> QED BY <1>4, <2>1, <2>2 DEF RemoveLastComa, Built
<1>7. Append(u, Newline) = u \o << Newline >>
  BY AppendIsConcat, LineTyped DEF Text
<1> QED BY <1>2, <1>5, <1>6, <1>7 DEF t

\* A text with a line end behind it is one of whole lines.
LEMMA LinesEnd ==
  ASSUME NEW u \in Text
  PROVE  Lines(u \o << Newline >>) /\ Lines(u \o << Comma, Newline >>)
<1>1. ASSUME NEW last \in Text, last # <<>>, last[Len(last)] = Newline PROVE Lines(u \o last)
  <2>1. PICK k \in Nat, l \in Nat \ {0}: k = Len(u) /\ l = Len(last)
    BY <1>1 DEF Text
  <2>2. /\ u \o last \in Text /\ Len(u \o last) = k + l
        /\ \A i \in 1 .. l: (u \o last)[k + i] = last[i]
    BY <2>1, JoinFacts DEF Text
  <2>3. l \in 1 .. l
    BY <2>1
  <2> QED BY <1>1, <2>1, <2>2, <2>3 DEF Lines
<1>2. << Newline >> \in Text /\ << Comma, Newline >> \in Text
  BY LineTyped DEF Text
<1>3. /\ << Newline >> # <<>> /\ << Newline >>[Len(<< Newline >>)] = Newline
      /\ << Comma, Newline >> # <<>> /\ << Comma, Newline >>[Len(<< Comma, Newline >>)] = Newline
  OBVIOUS
<1> QED BY <1>1, <1>2, <1>3

\* What is built behind a text when members are written one after another.
Writes(after, t, texts) ==
  /\ after[0] = Built(t)
  /\ \A n \in 1 .. Len(texts): \A u:
       Lines(u) /\ after[n - 1] = Built(u) => after[n] = Built(u \o (texts[n] \o Separator))

\* They are the members of a structure when the last comma is gone.
LEMMA MembersWritten ==
  ASSUME NEW t, Lines(t), NEW texts, Len(texts) \in Nat,
         \A n \in 1 .. Len(texts): texts[n] \in Text,
         NEW after, Writes(after, t, texts),
         Len(texts) = 0 => Len(t) > 1 /\ t[Len(t) - 1] # Comma
  PROVE  /\ \E u: Lines(u) /\ after[Len(texts)] = Built(u)
         /\ RemoveLastComa(after[Len(texts)]) = Built(t \o Members(texts))
         /\ Lines(t \o Members(texts))
<1>1. PICK N \in Nat: N = Len(texts)
  OBVIOUS
<1>2. PICK first \in [0 .. N -> Text]: MembersFrom(first, texts) /\ Members(texts) = first[N]
  BY <1>1, MembersExist DEF Text
<1>3. /\ first[0] = <<>>
      /\ \A n \in 0 .. N: n < N => first[n + 1] = WithText(first[n], texts, n + 1)
  BY <1>1, <1>2, MembersSteps
<1>4. t \in Text /\ Separator \in Text /\ << Newline >> \in Text
  BY LineTyped DEF Lines, Separator, Text
<1> DEFINE S == {n \in 0 .. N : n < N => /\ after[n] = Built(t \o first[n])
                                         /\ Lines(t \o first[n])}
<1>5. ASSUME N > 0 PROVE 0 \in S
  <2>1. t \o first[0] = t
    BY <1>3, <1>4, TextsJoin
  <2>2. after[0] = Built(t \o first[0]) /\ Lines(t \o first[0])
    BY <2>1 DEF Writes
  <2> QED BY <2>2
<1>6. ASSUME NEW n \in 0 .. N, n < N, n \in S
      PROVE  after[n + 1] = Built((t \o (first[n] \o texts[n + 1])) \o Separator)
  <2>1. /\ n + 1 \in 1 .. Len(texts) /\ (n + 1) - 1 = n
        /\ after[n] = Built(t \o first[n]) /\ Lines(t \o first[n])
    BY <1>1, <1>6
  <2>2. after[n + 1] = Built((t \o first[n]) \o (texts[n + 1] \o Separator))
    BY <2>1 DEF Writes
  <2>3. PICK f \in Text, x \in Text: f = first[n] /\ x = texts[n + 1]
    BY <1>2, <2>1
  <2>4. /\ (t \o f) \o (x \o Separator) = ((t \o f) \o x) \o Separator
        /\ (t \o f) \o x = t \o (f \o x)
    <3>1. t \o f \in Text
      BY <1>4, <2>3, TextsJoin
    <3>2. (t \o f) \o (x \o Separator) = ((t \o f) \o x) \o Separator
      BY <1>4, <2>3, <3>1, TextsAssociate, ZenonT(40)
    <3>3. (t \o f) \o x = t \o (f \o x)
      <4>1. t \in Text /\ f \in Text /\ x \in Text
        BY <1>4, <2>3
      <4> QED BY ONLY <4>1, TextsAssociate
    <3> QED BY <3>2, <3>3
  <2> QED BY <2>2, <2>3, <2>4
<1>7. ASSUME NEW n \in 0 .. N, n < N, n \in S PROVE n + 1 \in S
  <2> SUFFICES ASSUME n + 1 < N
               PROVE  /\ after[n + 1] = Built(t \o first[n + 1])
                      /\ Lines(t \o first[n + 1])
    BY <1>7
  <2>1. PICK x \in Text: x = first[n] \o texts[n + 1]
    <3>1. first[n] \in Text /\ texts[n + 1] \in Text
      BY <1>1, <1>2
    <3> QED BY <3>1, LineTyped
  <2>2. first[n + 1] = x \o Separator
    BY <1>1, <1>3, <1>7, <2>1 DEF WithText, Separator
  <2>3. (t \o x) \o Separator = t \o (x \o Separator) /\ t \o x \in Text
    <3>1. (t \o x) \o Separator = t \o (x \o Separator)
      BY <1>4, <2>1, TextsAssociate, ZenonT(40)
    <3> QED BY <1>4, <2>1, <3>1, TextsJoin
  <2>4. Lines(t \o (x \o Separator))
    <3>1. Lines((t \o x) \o << Comma, Newline >>)
      BY <2>3, LinesEnd
    <3> QED BY <2>3, <3>1 DEF Separator
  <2> QED BY <1>6, <1>7, <2>1, <2>2, <2>3, <2>4
<1> HIDE DEF S
<1>8. CASE N = 0
  <2>1. t \o Members(texts) = t
    BY <1>2, <1>3, <1>4, <1>8, ConcatEmptySeq DEF Text
  <2>2. after[N] = Built(t)
    BY <1>8 DEF Writes
  <2>3. RemoveLastComa(Built(t)) = Built(t)
    <3>1. Len(t) \in Nat /\ t[Len(t) - 1] # Comma
      BY <1>1, <1>4, <1>8 DEF Text
    <3>2. Built(t).text = t /\ Built(t).lost = 0 /\ Len(t) + 0 - 1 = Len(t) - 1
      BY <3>1 DEF Built
    <3> QED BY <3>1, <3>2 DEF RemoveLastComa
  <2> QED BY <1>1, <2>1, <2>2, <2>3
<1>9. CASE N > 0
  <2>1. \A n \in 0 .. N: n \in S
    BY <1>5, <1>7, <1>9, BoundedInduction
  <2>2. PICK m \in 0 .. N: m < N /\ m + 1 = N
    <3>1. N - 1 \in 0 .. N /\ N - 1 < N /\ (N - 1) + 1 = N
      BY <1>9
    <3> QED BY <3>1
  <2>3. PICK x \in Text: x = first[m] \o texts[N]
    <3>1. first[m] \in Text /\ texts[N] \in Text
      BY <1>1, <1>2, <1>9
    <3> QED BY <3>1, LineTyped
  <2>4. after[N] = Built((t \o x) \o Separator)
    BY <1>6, <2>1, <2>2, <2>3
  <2>5. Members(texts) = x \o << Newline >>
    <3>1. first[m + 1] = WithText(first[m], texts, m + 1) /\ ~(N < Len(texts))
      BY <1>1, <1>3, <2>2
    <3> QED BY <1>2, <2>2, <2>3, <3>1 DEF WithText
  <2>6. (t \o x) \o << Newline >> = t \o Members(texts) /\ t \o x \in Text
    <3>1. (t \o x) \o << Newline >> = t \o (x \o << Newline >>)
      BY <1>4, <2>3, TextsAssociate, ZenonT(40)
    <3> QED BY <1>4, <2>3, <2>5, <3>1, TextsJoin
  <2>7. Lines((t \o x) \o Separator) /\ Lines(t \o Members(texts))
    BY <2>6, LinesEnd DEF Separator
  <2> QED BY <1>1, <2>4, <2>6, <2>7, CommaRemoved
<1> QED BY <1>8, <1>9

\* The parameters of an object are written, one after another.
LEMMA ParametersWrites ==
  ASSUME NEW t, Lines(t), NEW params \in Seq(Fit)
  PROVE  \E after: Writes(after, t, params) /\ AddParameters(Built(t), params) = after[Len(params)]
<1>1. /\ Len(params) \in Nat
      /\ \A n \in 1 .. Len(params): params[n] \in Fit /\ params[n] \in Text
  BY DEF Fit
<1>2. Built(t) \in Builders
  BY DEF Built, Builders, Lines
<1>3. PICK after \in [0 .. Len(params) -> Builders]:
        /\ after[0] = Built(t)
        /\ \A n \in 1 .. Len(params):
             after[n] = Write(after[n - 1], params[n] \o << Comma, Newline >>)
        /\ AddParameters(Built(t), params) = after[Len(params)]
  BY <1>1, <1>2, ParametersSteps
<1>4. ASSUME NEW n \in 1 .. Len(params), NEW u, Lines(u), after[n - 1] = Built(u)
      PROVE  after[n] = Built(u \o (params[n] \o Separator))
  <2>1. WholeLine(params[n] \o Separator)
    BY <1>1, FitLine
  <2>2. after[n] = Write(Built(u), params[n] \o Separator)
    BY <1>3, <1>4 DEF Separator
  <2> QED BY <1>4, <2>1, <2>2, LineWritten
<1> QED BY <1>3, <1>4 DEF Writes

\* Lines of brackets are whole, and so are those of structures with their keys.
LEMMA BracketLines ==
  /\ WholeLine(<< BraceOpen, Newline >>) /\ WholeLine(<< BraceClose, Newline >>)
  /\ \A close \in {BraceClose, BracketClose}: WholeLine(<< close, Comma, Newline >>)
  /\ WholeLine(<< "log_levels", BracketOpen, Newline >>)
  /\ WholeLine(<< "server", BraceOpen, Newline >>)
<1>1. ASSUME NEW line \in Text, line # <<>>, line[Len(line)] = Newline, line[1] \notin StringKeys
      PROVE  WholeLine(line)
  BY <1>1 DEF WholeLine, Fitting
<1>2. /\ BraceOpen \notin StringKeys /\ BraceClose \notin StringKeys
      /\ BracketClose \notin StringKeys
  <2>1. StringKeys \subseteq Keys
    BY DEF StringKeys, Keys
  <2> QED BY <2>1, NoKeys
<1>3. "log_levels" \notin StringKeys /\ "server" \notin StringKeys
  BY DEF StringKeys
<1>4. \A x \in Symbols: /\ << x, Newline >> \in Text /\ << x, Comma, Newline >> \in Text
                        /\ << x, Newline >> # <<>> /\ << x, Comma, Newline >> # <<>>
                        /\ << x, Newline >>[Len(<< x, Newline >>)] = Newline
                        /\ << x, Comma, Newline >>[Len(<< x, Comma, Newline >>)] = Newline
                        /\ << x, Newline >>[1] = x /\ << x, Comma, Newline >>[1] = x
  BY LineTyped
<1>5. \A x \in Keys: \A y \in Symbols:
        LET line == << x, y, Newline >>
        IN line \in Text /\ line # <<>> /\ line[Len(line)] = Newline /\ line[1] = x
  BY LineTyped
<1>6. "log_levels" \in Keys /\ "server" \in Keys
  BY DEF Keys
<1>7. WholeLine(<< BraceOpen, Newline >>) /\ WholeLine(<< BraceClose, Newline >>)
  BY <1>1, <1>2, <1>4, LineTyped
<1>8. ASSUME NEW close \in {BraceClose, BracketClose} PROVE WholeLine(<< close, Comma, Newline >>)
  <2>1. close \in Symbols /\ close \notin StringKeys
    BY <1>2, LineTyped
  <2> QED BY <1>1, <1>4, <2>1
<1>9. ASSUME NEW key \in Keys \ StringKeys, NEW open \in Symbols
      PROVE  WholeLine(<< key, open, Newline >>)
  BY <1>1, <1>5
<1> QED BY <1>3, <1>6, <1>7, <1>8, <1>9, LineTyped

\* Two symbols, joined.
LEMMA PairJoined == ASSUME NEW x \in Symbols, NEW y \in Symbols PROVE << x >> \o << y >> = << x, y >>
<1>1. /\ << x >> \in Seq(Symbols) /\ Len(<< x >>) = 1 /\ << x >>[1] = x
      /\ << y >> \in Seq(Symbols) /\ Len(<< y >>) = 1 /\ << y >>[1] = y
      /\ << x, y >> \in Seq(Symbols) /\ Len(<< x, y >>) = 2
      /\ << x, y >>[1] = x /\ << x, y >>[2] = y
  OBVIOUS
<1> PICK s \in Seq(Symbols), t \in Seq(Symbols), u \in Seq(Symbols):
      s = << x >> /\ t = << y >> /\ u = << x, y >>
  BY <1>1
<1>2. /\ s \o t \in Seq(Symbols) /\ Len(s \o t) = 2 /\ (s \o t)[1] = x /\ (s \o t)[2] = y
  <2>1. 1 \in 1 .. Len(s) /\ 1 \in 1 .. Len(t) /\ Len(s) + 1 = 2
    BY <1>1
  <2> QED BY <1>1, <2>1, JoinFacts
<1> DEFINE v == s \o t
<1> HIDE DEF v
<1>3. v = u
  <2>1. v \in Seq(Symbols) /\ Len(v) = Len(u) /\ \A i \in 1 .. Len(v): v[i] = u[i]
    BY <1>1, <1>2 DEF v
  <2> QED BY <2>1
<1> QED BY <1>3 DEF v

\* One symbol joined with two.
LEMMA TripleJoined ==
  ASSUME NEW x \in Symbols, NEW y \in Symbols, NEW z \in Symbols
  PROVE  << x >> \o << y, z >> = << x, y, z >>
<1>1. PICK s \in Seq(Symbols), t \in Seq(Symbols), u \in Seq(Symbols):
        /\ s = << x >> /\ Len(s) = 1 /\ s[1] = x
        /\ t = << y, z >> /\ Len(t) = 2 /\ t[1] = y /\ t[2] = z
        /\ u = << x, y, z >> /\ Len(u) = 3 /\ u[1] = x /\ u[2] = y /\ u[3] = z
  <2>1. << x >> \in Seq(Symbols) /\ << y, z >> \in Seq(Symbols) /\ << x, y, z >> \in Seq(Symbols)
    OBVIOUS
  <2>2. /\ Len(<< x >>) = 1 /\ << x >>[1] = x
        /\ Len(<< y, z >>) = 2 /\ << y, z >>[1] = y /\ << y, z >>[2] = z
        /\ Len(<< x, y, z >>) = 3
        /\ << x, y, z >>[1] = x /\ << x, y, z >>[2] = y /\ << x, y, z >>[3] = z
    OBVIOUS
  <2> QED BY <2>1, <2>2
<1>2. /\ s \o t \in Seq(Symbols) /\ Len(s \o t) = 3 /\ (s \o t)[1] = x
      /\ (s \o t)[2] = y /\ (s \o t)[3] = z
  <2>1. /\ s \o t \in Seq(Symbols) /\ Len(s \o t) = Len(s) + Len(t)
        /\ \A i \in 1 .. Len(s): (s \o t)[i] = s[i]
        /\ \A i \in 1 .. Len(t): (s \o t)[Len(s) + i] = t[i]
    BY JoinFacts
  <2> QED BY <1>1, <2>1
<1> DEFINE v == s \o t
<1>3. v = u
  <2>1. v \in Seq(Symbols) /\ Len(v) = Len(u) /\ \A i \in 1 .. Len(v): v[i] = u[i]
    BY <1>1, <1>2
  <2> HIDE DEF v
  <2> QED BY <2>1
<1> QED BY <1>1, <1>3

\* A structure is ended behind its members.
LEMMA StructureWritten ==
  ASSUME NEW t \in Text, NEW head \in Text, NEW open \in Symbols,
         NEW close \in {BraceClose, BracketClose}, NEW members \in Text, NEW c,
         RemoveLastComa(c) = Built((t \o (head \o << open, Newline >>)) \o members),
         Lines((t \o (head \o << open, Newline >>)) \o members)
  PROVE  LET text == t \o ((head \o (<< open, Newline >> \o members \o << close >>)) \o Separator)
         IN End(c, close) = Built(text) /\ Lines(text)
<1> DEFINE x == (t \o (head \o << open, Newline >>)) \o members
<1>1. PICK first \in Text, last \in Text, sep \in Text:
        /\ first = << open, Newline >> /\ last = << close >> /\ sep = << Comma, Newline >>
        /\ last \o sep = << close, Comma, Newline >>
  <2>1. << open, Newline >> \in Text /\ << close >> \in Text /\ << Comma, Newline >> \in Text
    BY LineTyped DEF Text
  <2>2. << close >> \o << Comma, Newline >> = << close, Comma, Newline >>
    BY LineTyped, TripleJoined
  <2> QED BY <2>1, <2>2
<1>2. last \o sep = << close, Comma, Newline >> /\ sep = Separator
  BY <1>1 DEF Separator
<1>3. WholeLine(last \o sep)
  BY <1>2, BracketLines
<1>4. End(c, close) = Write(Built(x), last \o sep)
  BY <1>2 DEF End
<1>5. End(c, close) = Built(x \o (last \o sep)) /\ Lines(x \o (last \o sep))
  <2> HIDE DEF x
  <2>1. Lines(x)
    BY DEF x
  <2> QED BY <1>3, <1>4, <2>1, LineWritten
<1>6. x \o (last \o sep) = t \o ((head \o ((first \o members) \o last)) \o sep)
  <2>1. x = (t \o (head \o first)) \o members
    BY <1>1
  <2> HIDE DEF x
  <2> DEFINE J(a, b) == a \o b
  <2>2. \A a, b \in Text: J(a, b) \in Text
    BY TextsJoin
  <2>3. \A a, b, d \in Text: J(J(a, b), d) = J(a, J(b, d))
    BY TextsAssociate
  <2> HIDE DEF J
  <2>4. /\ J(J(first, members), last) = J(first, J(members, last))
        /\ J(head, J(first, J(members, last))) = J(J(head, first), J(members, last))
    BY <2>2, <2>3
  <2>5. J(J(J(head, first), J(members, last)), sep) = J(J(head, first), J(members, J(last, sep)))
    BY <2>2, <2>3, SMTT(30)
  <2>6. J(t, J(J(head, first), J(members, J(last, sep))))
          = J(J(J(t, J(head, first)), members), J(last, sep))
    BY <2>2, <2>3, SMTT(30)
  <2>7. J(x, J(last, sep)) = J(t, J(J(head, J(J(first, members), last)), sep))
    <3>1. x = J(J(t, J(head, first)), members)
      BY <2>1 DEF J
    <3> QED BY <3>1, <2>4, <2>5, <2>6
  <2> QED BY <2>7 DEF J
<1> HIDE DEF x
<1> QED BY <1>1, <1>2, <1>5, <1>6

\* The members of a structure are a text, and so is an object.
LEMMA MembersTyped ==
  ASSUME NEW texts, Len(texts) \in Nat, \A n \in 1 .. Len(texts): texts[n] \in Text
  PROVE  Members(texts) \in Text /\ Object(texts) \in Text /\ Array(texts) \in Text
<1>1. PICK members \in Text: members = Members(texts)
  BY TextsSeparated, MembersIn DEF Text
<1>2. << BraceOpen, Newline >> \in Text /\ << BracketOpen, Newline >> \in Text
      /\ << BraceClose >> \in Text /\ << BracketClose >> \in Text
  BY LineTyped DEF Text
<1>3. /\ << BraceOpen, Newline >> \o members \o << BraceClose >> \in Text
      /\ << BracketOpen, Newline >> \o members \o << BracketClose >> \in Text
  BY <1>2, LineTyped
<1> QED BY <1>1, <1>3 DEF Object, Array

\* An object with some parameters that fit is written whole.
LEMMA ObjectWritten ==
  ASSUME NEW t \in Text, NEW head \in Text, Lines(t \o (head \o << BraceOpen, Newline >>)),
         NEW params \in Seq(Fit), Len(params) > 0
  PROVE  LET text == t \o ((head \o Object(params)) \o Separator)
         IN /\ End(AddParameters(Built(t \o (head \o << BraceOpen, Newline >>)), params), BraceClose)
                 = Built(text)
            /\ Lines(text)
<1> DEFINE start == t \o (head \o << BraceOpen, Newline >>)
<1>1. /\ Len(params) \in Nat /\ \A n \in 1 .. Len(params): params[n] \in Text
  BY DEF Fit
<1>2. PICK after: /\ Writes(after, start, params)
                  /\ AddParameters(Built(start), params) = after[Len(params)]
  <2> HIDE DEF start
  <2>1. Lines(start)
    BY DEF start
  <2> QED BY <2>1, ParametersWrites
<1>3. /\ RemoveLastComa(after[Len(params)]) = Built(start \o Members(params))
      /\ Lines(start \o Members(params))
  <2> HIDE DEF start
  <2>1. Lines(start)
    BY DEF start
  <2> QED BY <1>1, <1>2, <2>1, MembersWritten
<1>4. Members(params) \in Text /\ BraceOpen \in Symbols
  BY <1>1, MembersTyped, LineTyped
<1>5. LET text == t \o ((head \o (<< BraceOpen, Newline >> \o Members(params) \o << BraceClose >>))
                          \o Separator)
      IN End(after[Len(params)], BraceClose) = Built(text) /\ Lines(text)
  BY <1>3, <1>4, StructureWritten
<1> QED BY <1>2, <1>5 DEF Object

\* Parameters that fit, and a string that fits its line.
LEMMA FitParams ==
  /\ \A key \in Keys \ StringKeys: \A x \in Symbols: << key, x >> \in Fit
  /\ \A key \in Keys, s \in String:
       (key \in StringKeys => Len(s) <= Longest[key]) => << key >> \o QuotedText(s) \in Fit
<1>1. ASSUME NEW key \in Keys \ StringKeys, NEW x \in Symbols PROVE << key, x >> \in Fit
  <2>1. << key, x >> \in Text /\ << key, x >> # <<>> /\ << key, x >>[1] = key
    BY LineTyped
  <2> QED BY <2>1 DEF Fit
<1>2. ASSUME NEW key \in Keys, NEW s \in String, key \in StringKeys => Len(s) <= Longest[key]
      PROVE  << key >> \o QuotedText(s) \in Fit
  <2>1. PICK head \in Seq(Symbols), quoted \in Seq(Symbols):
          head = << key >> /\ Len(head) = 1 /\ head[1] = key /\ quoted = QuotedText(s)
    <3>1. << key >> \in Seq(Symbols) /\ Len(<< key >>) = 1 /\ << key >>[1] = key
      BY LineTyped
    <3>2. QuotedText(s) \in Seq(Symbols)
      BY DEF QuotedText, String, Symbols
    <3> QED BY <3>1, <3>2
  <2> DEFINE p == head \o quoted
  <2>2. p[1] = key
    <3>1. 1 \in 1 .. Len(head) /\ \A i \in 1 .. Len(head): (head \o quoted)[i] = head[i]
      BY <2>1, JoinFacts
    <3> QED BY <2>1, <3>1
  <2>3. p \in Text /\ Len(p) = Len(s) + 3 /\ Len(s) \in Nat
    BY <2>1, StringParam DEF String
  <2> HIDE DEF p
  <2>4. p # <<>>
    BY <2>3
  <2>5. key \in StringKeys => Len(p) <= Longest[key] + 3
    <3> HAVE key \in StringKeys
    <3>1. PICK n \in Nat: n = Longest[key]
      BY SizeAssumption
    <3> QED BY <1>2, <2>3, <3>1
  <2> QED BY <2>1, <2>2, <2>3, <2>4, <2>5 DEF Fit, p
<1> QED BY <1>1, <1>2

\* The strings of a level fit their lines.
FitLevel(level) ==
  /\ level.msg_format # Null => Len(level.msg_format) <= Longest["msg_format"]
  /\ level.callback # Null => Len(level.callback.name) <= Longest["callback"]

\* The parameters of such a level fit, and its object is written whole.
LEMMA LevelWritten ==
  ASSUME NEW level \in Level, FitLevel(level), NEW t, Lines(t)
  PROVE  /\ export_log_level(Built(t), level) = Built(t \o (LevelText(level) \o Separator))
         /\ LevelText(level) \in Text
<1>1. LevelParams(level) \in Seq(Fit) /\ Len(LevelParams(level)) > 0
  <2>1. \A n \in 1 .. 4: << Required[n].key, level.required[n] >> \in Fit
    <3> SUFFICES ASSUME NEW n \in 1 .. 4
                 PROVE  << Required[n].key, level.required[n] >> \in Fit
      OBVIOUS
    <3>1. Required[n].key \in Keys \ StringKeys /\ level.required[n] \in Symbols
      <4>1. level.required \in Booleans \X Booleans \X Numbers \X Numbers
        BY DEF Level, LevelOf
      <4>2. level.required[n] \in Booleans \cup Numbers
        BY <4>1
      <4> QED BY <4>2, LevelParts, LineTyped
    <3> QED BY <3>1, FitParams
  <2>2. level.msg_format # Null => << "msg_format" >> \o QuotedText(level.msg_format) \in Fit
    BY LevelParts, FitParams DEF FitLevel
  <2>3. level.callback # Null => << "callback" >> \o QuotedText(level.callback.name) \in Fit
    BY LevelParts, FitParams DEF FitLevel
  <2> QED BY <2>1, <2>2, <2>3, LevelParamsIn
<1>2. PICK params \in Seq(Fit): params = LevelParams(level) /\ Len(params) > 0
  BY <1>1
<1>3. t \in Text /\ <<>> \in Text /\ <<>> \o << BraceOpen, Newline >> = << BraceOpen, Newline >>
  <2>1. << BraceOpen, Newline >> \in Text
    BY LineTyped
  <2> QED BY <2>1, TextsJoin DEF Lines, Text
<1>4. /\ Write(Built(t), << BraceOpen, Newline >>) = Built(t \o << BraceOpen, Newline >>)
      /\ Lines(t \o << BraceOpen, Newline >>)
  BY BracketLines, LineWritten
<1>5. Object(params) \in Text
  <2>1. Len(params) \in Nat /\ \A n \in 1 .. Len(params): params[n] \in Text
    BY DEF Fit
  <2> QED BY <2>1, MembersTyped
<1>6. <<>> \o Object(params) = Object(params)
  BY <1>5, TextsJoin
<1>7. Lines(t \o (<<>> \o << BraceOpen, Newline >>))
  BY <1>3, <1>4
<1>8. End(AddParameters(Built(t \o (<<>> \o << BraceOpen, Newline >>)), params), BraceClose)
        = Built(t \o ((<<>> \o Object(params)) \o Separator))
  BY <1>2, <1>3, <1>7, ObjectWritten
<1>9. export_log_level(Built(t), level)
        = End(AddParameters(Built(t \o << BraceOpen, Newline >>), params), BraceClose)
  BY <1>2, <1>4 DEF export_log_level
<1>10. End(AddParameters(Built(t \o << BraceOpen, Newline >>), params), BraceClose)
         = Built(t \o (Object(params) \o Separator))
  BY <1>3, <1>6, <1>8
<1> QED BY <1>2, <1>5, <1>9, <1>10 DEF LevelText

\* The array of the levels is written whole.
LEMMA ArrayWritten ==
  ASSUME NEW exported \in Seq(Level), \A k \in 1 .. Len(exported): FitLevel(exported[k]),
         NEW t, Lines(t)
  PROVE  LET objects == [k \in DOMAIN exported |-> LevelText(exported[k])]
             text == t \o ((<< "log_levels" >> \o Array(objects)) \o Separator)
         IN /\ End(AddLevels(Write(Built(t), << "log_levels", BracketOpen, Newline >>), exported),
                   BracketClose) = Built(text)
            /\ Lines(text) /\ << "log_levels" >> \o Array(objects) \in Text
<1> DEFINE N == Len(exported)
           objects == [k \in DOMAIN exported |-> LevelText(exported[k])]
           line == << "log_levels", BracketOpen, Newline >>
           start == t \o line
<1>1. N \in Nat /\ \A k \in 1 .. N: exported[k] \in Level /\ FitLevel(exported[k])
  OBVIOUS
<1>2. /\ Len(objects) = N
      /\ \A k \in 1 .. N: objects[k] = LevelText(exported[k])
  OBVIOUS
<1>3. Lines(<<>>)
  BY DEF Lines, Text
<1>4. \A k \in 1 .. N: objects[k] \in Text
  BY <1>1, <1>2, <1>3, LevelWritten
<1>5. /\ Write(Built(t), line) = Built(start) /\ Lines(start)
  BY BracketLines, LineWritten
<1>6. Len(start) > 1 /\ start[Len(start) - 1] # Comma
  <2>1. PICK k \in Nat, l \in Seq(Symbols): k = Len(t) /\ l = line /\ Len(l) = 3 /\ l[2] = BracketOpen
    <3>1. line \in Text /\ Len(line) = 3 /\ line[2] = BracketOpen /\ Len(t) \in Nat
      BY LineTyped DEF Keys, Lines, Text
    <3> QED BY <3>1 DEF Text
  <2>2. Len(t \o l) = k + 3 /\ (t \o l)[k + 2] = BracketOpen
    <3>1. t \in Seq(Symbols) /\ 2 \in 1 .. 3
      BY DEF Lines, Text
    <3> QED BY <2>1, <3>1, JoinFacts
  <2>3. (k + 3) - 1 = k + 2 /\ k + 3 > 1
    OBVIOUS
  <2>4. BracketOpen # Comma
    BY DEF BracketOpen, Comma
  <2> QED BY <2>1, <2>2, <2>3, <2>4
<1>7. PICK after \in [0 .. N -> Builders]:
        /\ after[0] = Built(start)
        /\ \A n \in 1 .. N: after[n] = export_log_level(after[n - 1], exported[n])
        /\ AddLevels(Built(start), exported) = after[N]
  <2>1. Built(start) \in Builders
    BY <1>5 DEF Built, Builders, Lines
  <2> HIDE DEF start
  <2> QED BY <2>1, LevelsSteps
<1> HIDE DEF objects, start, line, N
<1>8. Writes(after, start, objects)
  <2> SUFFICES ASSUME NEW n \in 1 .. N, NEW u, Lines(u), after[n - 1] = Built(u)
               PROVE  after[n] = Built(u \o (objects[n] \o Separator))
    BY <1>2, <1>7 DEF Writes
  <2>1. after[n] = export_log_level(Built(u), exported[n])
    BY <1>7
  <2> QED BY <1>1, <1>2, <2>1, LevelWritten
<1>9. /\ RemoveLastComa(after[N]) = Built(start \o Members(objects))
      /\ Lines(start \o Members(objects))
  BY <1>1, <1>2, <1>4, <1>5, <1>6, <1>8, MembersWritten
<1>10. Members(objects) \in Text /\ Array(objects) \in Text
  BY <1>1, <1>2, <1>4, MembersTyped
<1>11. << "log_levels" >> \in Text /\ << "log_levels" >> \o << BracketOpen, Newline >> = line
  BY LineTyped, TripleJoined DEF Keys, Text, line
<1>12. t \in Text /\ BracketOpen \in Symbols /\ start = t \o (<< "log_levels" >> \o << BracketOpen, Newline >>)
  BY <1>11, LineTyped DEF Lines, start
<1>13. LET text == t \o ((<< "log_levels" >> \o
                          (<< BracketOpen, Newline >> \o Members(objects) \o << BracketClose >>))
                           \o Separator)
       IN End(after[N], BracketClose) = Built(text) /\ Lines(text)
  BY <1>9, <1>10, <1>11, <1>12, StructureWritten
<1>14. << "log_levels" >> \o Array(objects) \in Text
  BY <1>10, <1>11, TextsJoin
<1> QED BY <1>5, <1>7, <1>13, <1>14 DEF Array, objects, line

\* The object of the server is written whole.
LEMMA ServerWritten ==
  ASSUME NEW port \in Numbers, port # Null, NEW t, Lines(t)
  PROVE  LET text == t \o ((<< "server" >> \o Object(<< << "port", port >> >>)) \o Separator)
         IN /\ AddServer(Built(t), port) = Built(text)
            /\ << "server" >> \o Object(<< << "port", port >> >>) \in Text
<1> DEFINE line == << "server", BraceOpen, Newline >>
<1>1. PICK params \in Seq(Fit): params = << << "port", port >> >> /\ Len(params) > 0
  <2>1. << "port", port >> \in Fit
    BY FitParams, LineTyped DEF Keys, StringKeys
  <2>2. PICK param \in Fit: param = << "port", port >>
    BY <2>1
  <2>3. << param >> \in Seq(Fit) /\ Len(<< param >>) > 0
    OBVIOUS
  <2> QED BY <2>2, <2>3
<1>2. Write(Built(t), line) = Built(t \o line) /\ Lines(t \o line)
  BY BracketLines, LineWritten
<1>3. << "server" >> \in Text /\ << "server" >> \o << BraceOpen, Newline >> = line
  BY LineTyped, TripleJoined DEF Keys, Text
<1>4. t \in Text
  BY DEF Lines
<1> HIDE DEF line
<1>5. End(AddParameters(Built(t \o line), params), BraceClose)
        = Built(t \o ((<< "server" >> \o Object(params)) \o Separator))
  BY <1>1, <1>2, <1>3, <1>4, ObjectWritten
<1>6. Object(params) \in Text
  <2>1. Len(params) \in Nat /\ \A n \in 1 .. Len(params): params[n] \in Text
    BY DEF Fit
  <2> QED BY <2>1, MembersTyped
<1> QED BY <1>1, <1>2, <1>3, <1>5, <1>6, TextsJoin DEF AddServer, line

\* The parameters of the options fit, and are four.
LEMMA OptionsFit ==
  ASSUME NEW options \in Options, Len(options.format) <= Longest["def_msg_format"]
  PROVE  OptionParams(options) \in Seq(Fit) /\ Len(OptionParams(options)) = 4
<1> DEFINE path == << "log_file_path" >> \o QuotedText(<<>>)
           method == << "log_method", "0" >>
           format == << "def_msg_format" >> \o QuotedText(options.format)
           verbosity == << "logger_verbosity", options.verbosity >>
<1>1. /\ options.format \in String /\ options.verbosity \in Symbols /\ <<>> \in String
      /\ "0" \in Symbols
  BY LineTyped DEF Options, OptionsOf, String
<1>2. /\ {"log_file_path", "log_method", "logger_verbosity"} \subseteq Keys \ StringKeys
      /\ "def_msg_format" \in Keys
  BY DEF Keys, StringKeys
<1>3. path \in Fit /\ format \in Fit
  BY <1>1, <1>2, FitParams
<1>4. method \in Fit /\ verbosity \in Fit
  BY <1>1, <1>2, FitParams
<1>5. OptionParams(options) = << path, method, format, verbosity >>
  BY DEF OptionParams
<1> HIDE DEF path, method, format, verbosity
<1> QED BY <1>3, <1>4, <1>5

\* The members of an export, which are five without a server.
ExportMembersOf(options, exported) ==
  OptionParams(options)
    \o << << "log_levels" >> \o Array([k \in DOMAIN exported |-> LevelText(exported[k])]) >>
    \o (IF options.port = Null THEN <<>>
        ELSE << << "server" >> \o Object(<< << "port", options.port >> >>) >>)

\* An export has every line whole, if its strings fit their lines.
LEMMA ExportWhole ==
  ASSUME NEW options \in Options, NEW exported \in Seq(Level), Within(Longest, options, exported)
  PROVE  Exported(options, exported) = Document(options, exported)
<1> DEFINE open == << BraceOpen, Newline >>
           last == << BraceClose, Newline >>
           params == OptionParams(options)
           levels_ == << "log_levels" >> \o Array([k \in DOMAIN exported |-> LevelText(exported[k])])
           server == << "server" >> \o Object(<< << "port", options.port >> >>)
           texts == ExportMembersOf(options, exported)
           array_ == End(AddLevels(Write(AddParameters(Built(open), params),
                                         << "log_levels", BracketOpen, Newline >>), exported),
                         BracketClose)
           whole == AddServer(array_, options.port)
<1>1. params \in Seq(Fit) /\ Len(params) = 4
  BY OptionsFit DEF Within
<1>2. \A k \in 1 .. Len(exported): FitLevel(exported[k])
  BY DEF Within, FitLevel
<1>3. options.port \in Numbers \cup {Null}
  BY DEF Options, OptionsOf
<1>4. Lines(<<>>) /\ <<>> \o open = open /\ <<>> \in Text
  <2>1. open \in Text
    BY LineTyped
  <2> QED BY <2>1, TextsJoin DEF Lines, Text
<1>5. Write(Built(<<>>), open) = Built(open) /\ Lines(open)
  BY <1>4, BracketLines, LineWritten
<1>6. PICK first: Writes(first, open, params) /\ AddParameters(Built(open), params) = first[4]
  BY <1>1, <1>5, ParametersWrites
<1>7. \A u: Lines(u) => levels_ \in Text
                        /\ End(AddLevels(Write(Built(u), << "log_levels", BracketOpen, Newline >>),
                                         exported), BracketClose)
                             = Built(u \o (levels_ \o Separator))
  BY <1>2, ArrayWritten
<1>8. levels_ \in Text
  BY <1>4, <1>7
<1>9. options.port # Null => /\ server \in Text
                             /\ \A u: Lines(u) => AddServer(Built(u), options.port)
                                                    = Built(u \o (server \o Separator))
  BY <1>3, <1>4, ServerWritten
<1>10. /\ \A n \in 1 .. 4: params[n] \in Text /\ texts[n] = params[n]
       /\ texts[5] = levels_ /\ Len(texts) = (IF options.port = Null THEN 5 ELSE 6)
       /\ options.port # Null => texts[6] = server
  <2>1. texts = (params \o << levels_ >>) \o (IF options.port = Null THEN <<>> ELSE << server >>)
    BY DEF ExportMembersOf
  <2>2. params \in Seq(Text)
    BY <1>1 DEF Fit
  <2> HIDE DEF texts, params, levels_, server
  <2>3. PICK p \in Seq(Text), l \in Seq(Text), s \in Seq(Text):
          /\ p = params /\ Len(p) = 4 /\ l = << levels_ >> /\ Len(l) = 1 /\ l[1] = levels_
          /\ s = IF options.port = Null THEN <<>> ELSE << server >>
    <3>1. << levels_ >> \in Seq(Text) /\ Len(<< levels_ >>) = 1 /\ << levels_ >>[1] = levels_
      <4> HIDE DEF Text
      <4> QED BY <1>8
    <3>2. (IF options.port = Null THEN <<>> ELSE << server >>) \in Seq(Text)
      <4> HIDE DEF Text
      <4> QED BY <1>9
    <3> QED BY <1>1, <2>2, <3>1, <3>2
  <2>4. Len(s) = (IF options.port = Null THEN 0 ELSE 1) /\ (options.port # Null => s[1] = server)
    BY <2>3
  <2> DEFINE pl == p \o l
  <2>5. /\ pl \in Seq(Text) /\ Len(pl) = 5 /\ pl[5] = levels_
        /\ \A n \in 1 .. 4: pl[n] = params[n] /\ params[n] \in Text
    <3>1. /\ pl \in Seq(Text) /\ Len(pl) = Len(p) + Len(l)
          /\ \A i \in 1 .. Len(p): pl[i] = p[i]
          /\ \A i \in 1 .. Len(l): pl[Len(p) + i] = l[i]
      BY JoinFacts
    <3> QED BY <2>3, <3>1
  <2> HIDE DEF pl
  <2>6. /\ Len(pl \o s) = Len(pl) + Len(s)
        /\ \A i \in 1 .. Len(pl): (pl \o s)[i] = pl[i]
        /\ \A i \in 1 .. Len(s): (pl \o s)[Len(pl) + i] = s[i]
    <3>1. PICK q \in Seq(Text): q = pl
      BY <2>5
    <3>2. /\ Len(q \o s) = Len(q) + Len(s)
          /\ \A i \in 1 .. Len(q): (q \o s)[i] = q[i]
          /\ \A i \in 1 .. Len(s): (q \o s)[Len(q) + i] = s[i]
      BY <3>1, JoinFacts
    <3> QED BY <3>1, <3>2
  <2>7. texts = pl \o s
    BY <2>1, <2>3 DEF pl
  <2>8. 5 \in 1 .. 5 /\ \A n \in 1 .. 4: n \in 1 .. 5
    OBVIOUS
  <2>9. options.port # Null => 1 \in 1 .. Len(s)
    BY <2>4
  <2> QED BY <2>4, <2>5, <2>6, <2>7, <2>8, <2>9
<1> HIDE DEF params, levels_, server, texts
<1> DEFINE after == [n \in 0 .. 6 |-> IF n <= 4 THEN first[n] ELSE IF n = 5 THEN array_ ELSE whole]
<1>11. Writes(after, open, texts)
  <2>5. after[0] = Built(open)
    BY <1>6 DEF Writes
  <2> SUFFICES ASSUME NEW n \in 1 .. Len(texts), NEW u, Lines(u), after[n - 1] = Built(u)
               PROVE  after[n] = Built(u \o (texts[n] \o Separator))
    <3> HIDE DEF after
    <3> QED BY <2>5 DEF Writes
  <2>1. n \in 1 .. 4 \/ n = 5 \/ (n = 6 /\ options.port # Null)
    BY <1>10
  <2>2. CASE n \in 1 .. 4
    <3>1. after[n] = first[n] /\ after[n - 1] = first[n - 1]
      BY <2>2
    <3> QED BY <1>1, <1>6, <1>10, <2>2, <3>1 DEF Writes
  <2>3. CASE n = 5
    <3>1. after[n] = array_ /\ after[n - 1] = first[4]
      BY <2>3
    <3> QED BY <1>6, <1>7, <1>10, <2>3, <3>1
  <2>4. CASE n = 6 /\ options.port # Null
    <3>1. after[n] = whole /\ after[n - 1] = array_
      BY <2>4
    <3> QED BY <1>9, <1>10, <2>4, <3>1
  <2> QED BY <2>1, <2>2, <2>3, <2>4
<1>12. after[Len(texts)] = whole
  <2>1. CASE options.port = Null
    <3>1. after[5] = array_ /\ whole = array_
      BY <2>1 DEF AddServer
    <3> QED BY <1>10, <2>1, <3>1
  <2>2. CASE options.port # Null
    BY <1>10, <2>2
  <2> QED BY <2>1, <2>2
<1> HIDE DEF after, whole, array_
<1>13. Len(texts) \in Nat /\ Len(texts) # 0 /\ \A n \in 1 .. Len(texts): texts[n] \in Text
  <2>1. \A n \in 1 .. Len(texts): n \in 1 .. 4 \/ n = 5 \/ (n = 6 /\ options.port # Null)
    BY <1>10
  <2> QED BY <1>8, <1>9, <1>10, <2>1
<1>14. RemoveLastComa(whole) = Built(open \o Members(texts)) /\ Lines(open \o Members(texts))
  BY <1>5, <1>11, <1>12, <1>13, MembersWritten
<1>15. Write(RemoveLastComa(whole), last) = Built((open \o Members(texts)) \o last)
  BY <1>14, BracketLines, LineWritten
<1>16. Exported(options, exported) = (open \o Members(texts)) \o last
  <2>1. Exported(options, exported) = Write(RemoveLastComa(whole), last).text
    BY <1>4, <1>5 DEF Exported, Built, whole, array_, params
  <2>2. \A x: Built(x).text = x
    BY DEF Built
  <2>3. Write(RemoveLastComa(whole), last).text = Built((open \o Members(texts)) \o last).text
    BY <1>15
  <2> QED BY <2>1, <2>2, <2>3
<1>17. Document(options, exported) = ((open \o Members(texts)) \o << BraceClose >>) \o << Newline >>
  BY DEF Document, Object, texts, ExportMembersOf
<1>18. << BraceClose >> \o << Newline >> = last /\ << BraceClose >> \in Text /\ << Newline >> \in Text
  BY LineTyped, PairJoined DEF Text
<1>19. open \o Members(texts) \in Text
  BY <1>14 DEF Lines
<1> QED
  <2> DEFINE x == open \o Members(texts)
  <2>1. (x \o << BraceClose >>) \o << Newline >> = x \o (<< BraceClose >> \o << Newline >>)
    <3> HIDE DEF x
    <3>1. x \in Text
      BY <1>19 DEF x
    <3> QED BY <1>18, <3>1, TextsAssociate, Zenon
  <2> QED BY <1>16, <1>17, <1>18, <2>1

-----------------------------------------------------------------------------
(* The loops of the reader.                                                *)

\* The steps of a loop over a text, and how many there can be.
Steps(text, open, close) == [s \in Loop |-> After(text, s, open, close)]
SymbolsLeft(text) == [s \in Loop |-> IF s.at <= Len(text) THEN Len(text) + 1 - s.at ELSE 0]

\* A loop over a text goes on by one place, and ends with the text.
LEMMA LoopSteps ==
  ASSUME NEW text, Len(text) \in Nat, NEW open, NEW close
  PROVE  /\ Steps(text, open, close) \in [Loop -> Loop]
         /\ SymbolsLeft(text) \in [Loop -> Nat]
         /\ \A s \in Loop: s.at \in Nat /\ Steps(text, open, close)[s].at = s.at + 1
         /\ \A s \in Loop: s.at <= Len(text) =>
              SymbolsLeft(text)[Steps(text, open, close)[s]] < SymbolsLeft(text)[s]
<1>1. ASSUME NEW s \in Loop
      PROVE  After(text, s, open, close) \in Loop /\ After(text, s, open, close).at = s.at + 1
  <2>1. s.at \in Nat /\ s.nested_level \in Int /\ s.in_string \in BOOLEAN
    BY DEF Loop
  <2>2. \A x: Nested(x, s.in_string, open, close) \in Int
    BY DEF Nested
  <2>3. \A x: Toggled(x, s.in_string) \in BOOLEAN
    BY <2>1 DEF Toggled
  <2> QED BY <2>1, <2>2, <2>3 DEF After, Loop
<1>2. \A s \in Loop: s.at \in Nat
  BY DEF Loop
<1> HIDE DEF Loop
<1>3. Steps(text, open, close) \in [Loop -> Loop] /\ SymbolsLeft(text) \in [Loop -> Nat]
  BY <1>1, <1>2 DEF Steps, SymbolsLeft
<1>4. \A s \in Loop: Steps(text, open, close)[s].at = s.at + 1
  BY <1>1 DEF Steps
<1>5. ASSUME NEW s \in Loop, s.at <= Len(text)
      PROVE  SymbolsLeft(text)[Steps(text, open, close)[s]] < SymbolsLeft(text)[s]
  <2>1. PICK n \in Loop: n = Steps(text, open, close)[s] /\ n.at = s.at + 1
    BY <1>3, <1>4
  <2> QED BY <1>2, <1>5, <2>1 DEF SymbolsLeft
<1> QED BY <1>2, <1>3, <1>4, <1>5

\* Where a loop begins.
LEMMA BeginFacts ==
  ASSUME NEW k \in Nat, NEW level \in Int
  PROVE  Begin(k, level) \in Loop /\ Begin(k, level).at = k
BY DEF Begin, Loop

\* Where the loop of json_get_nested_structure stops, for a structure that starts at
\* a place.
StructureStops(json, start, close, s) ==
  \/ s.at > Len(json) \/ Full(s.at - start)
  \/ json[s.at] = close /\ ~s.in_string /\ s.nested_level <= 0

StructurePlaces(json, key, open) == {k \in 2 .. Len(json) : json[k - 1] = key /\ json[k] = open}

\* States that the loop keeps, with the one where it begins.
StructureKeeps(I, json, start, open, close) ==
  /\ I \subseteq Loop /\ Begin(start, -1) \in I
  /\ \A s \in I: ~StructureStops(json, start, close, s) => After(json, s, open, close) \in I

\* What is copied, when the loop stops at a place.
CopyUpTo(json, start, k, close) == Append(SubSeq(json, start, k - 1), close)

\* A copy of a structure goes up to a state that the loop keeps.
LEMMA StructureBy ==
  ASSUME NEW json, Len(json) \in Nat, NEW key, NEW open, NEW close,
         NEW start \in Nat, start = Found(StructurePlaces(json, key, open)),
         NEW I, StructureKeeps(I, json, start, open, close)
  PROVE  \E y \in I: /\ StructureStops(json, start, close, y)
                     /\ json_get_nested_structure(json, key, open, close) =
                          CopyUpTo(json, start, y.at, close)
<1> DEFINE found == Found(StructurePlaces(json, key, open))
           IsEnd(f) == f = [s \in Loop |-> IF StructureStops(json, found, close, s) THEN s.at
                                           ELSE f[After(json, s, open, close)]]
           end == CHOOSE f: IsEnd(f)
           stop == {s \in Loop : StructureStops(json, start, close, s)}
           result == [s \in Loop |-> s.at]
           next == Steps(json, open, close)
           left == SymbolsLeft(json)
<1>1. json_get_nested_structure(json, key, open, close) =
        IF found = Missing THEN Missing
        ELSE Append(SubSeq(json, found, end[Begin(found, -1)] - 1), close)
  BY DEF json_get_nested_structure, StructureStops, StructurePlaces
<1> HIDE DEF found, end
<1>2. found = start /\ start # Missing
  BY ReaderAssumption DEF found
<1>3. /\ next \in [Loop -> Loop] /\ left \in [Loop -> Nat]
      /\ \A s \in Loop: s.at \in Nat /\ next[s] = After(json, s, open, close)
      /\ \A s \in Loop: s.at <= Len(json) => left[next[s]] < left[s]
  <2>1. \A s \in Loop: next[s] = After(json, s, open, close)
    BY DEF Steps
  <2> HIDE DEF next, left
  <2>2. /\ next \in [Loop -> Loop] /\ left \in [Loop -> Nat]
        /\ \A s \in Loop: s.at \in Nat
        /\ \A s \in Loop: s.at <= Len(json) => left[next[s]] < left[s]
    BY LoopSteps DEF next, left
  <2> QED BY <2>1, <2>2
<1> HIDE DEF next, left
<1>4. CountsDown(Loop, stop, next, left)
  <2>1. \A s \in Loop: s \notin stop => s.at <= Len(json)
    BY <1>3 DEF StructureStops
  <2> HIDE DEF stop
  <2> QED BY <1>3, <2>1 DEF CountsDown
<1>5. result \in [Loop -> Nat]
  BY <1>3
<1>6. IsEnd(end)
  <2>1. PICK e \in [Loop -> Nat]: LoopResult(e, Loop, stop, result, next)
    <3> HIDE DEF stop, result
    <3> QED BY <1>4, <1>5, LoopExists
  <2>2. ASSUME NEW s \in Loop
        PROVE  e[s] = IF StructureStops(json, found, close, s) THEN s.at
                      ELSE e[After(json, s, open, close)]
    <3>1. e[s] = IF s \in stop THEN result[s] ELSE e[next[s]]
      BY <2>1 DEF LoopResult
    <3> QED BY <1>2, <1>3, <3>1
  <2>3. IsEnd(e)
    BY <2>2
  <2> HIDE DEF IsEnd
  <2> QED BY <2>3 DEF end
<1>7. LoopResult(end, Loop, stop, result, next)
  <2> SUFFICES ASSUME NEW s \in Loop
               PROVE  end[s] = IF s \in stop THEN result[s] ELSE end[next[s]]
    BY DEF LoopResult
  <2> QED BY <1>2, <1>3, <1>6
<1> HIDE DEF IsEnd
<1>8. KeptByLoop(I, Loop, stop, next)
  BY <1>3 DEF KeptByLoop, StructureKeeps
<1>9. PICK y \in I: y \in stop /\ end[Begin(start, -1)] = result[y]
  <2> HIDE DEF stop, result
  <2> QED BY <1>4, <1>7, <1>8, LoopInvariant DEF StructureKeeps
<1> QED BY <1>1, <1>2, <1>9 DEF CopyUpTo

\* A copy of a structure is a text, and fits the buffer with the end symbol.
LEMMA StructureTyped ==
  ASSUME NEW json \in Text, NEW key, NEW open, NEW close \in {BraceClose, BracketClose}
  PROVE  LET copy == json_get_nested_structure(json, key, open, close)
         IN copy = Missing \/ (copy \in Text /\ Len(copy) <= Capacity + 1)
<1> DEFINE places == StructurePlaces(json, key, open)
           copy == json_get_nested_structure(json, key, open, close)
<1>1. PICK len \in Nat: len = Len(json) /\ json \in Seq(Symbols)
  BY DEF Text
<1>2. places = {} => copy = Missing
  BY DEF json_get_nested_structure, StructurePlaces, Found
<1>3. SUFFICES ASSUME places # {}
               PROVE  copy \in Text /\ Len(copy) <= Capacity + 1
  BY <1>2
<1>4. PICK first \in 2 .. len: first = Found(places)
  <2>1. places \subseteq 2 .. len /\ places \subseteq Nat
    BY <1>1 DEF StructurePlaces
  <2> HIDE DEF places
  <2> QED BY <1>3, <2>1, FoundFirst
<1> DEFINE I == {s \in Loop : first <= s.at /\ s.at <= first + Capacity /\ s.at <= len + 1}
<1>5. \A s \in Loop: /\ s.at \in Nat /\ After(json, s, open, close).at = s.at + 1
                     /\ After(json, s, open, close) \in Loop
  BY <1>1, LoopSteps DEF Steps
<1>6. Capacity \in Nat /\ \A s \in Loop: ~StructureStops(json, first, close, s) =>
                            s.at <= len /\ s.at < first + Capacity
  BY <1>1, <1>4, <1>5, ReaderAssumption DEF Full, StructureStops
<1>7. StructureKeeps(I, json, first, open, close)
  BY <1>4, <1>5, <1>6, BeginFacts DEF StructureKeeps
<1>8. PICK y \in I: copy = CopyUpTo(json, first, y.at, close)
  <2>1. /\ Len(json) \in Nat /\ first \in Nat
        /\ first = Found(StructurePlaces(json, key, open))
    BY <1>1, <1>4
  <2> HIDE DEF I
  <2>2. \E y \in I: json_get_nested_structure(json, key, open, close)
                     = CopyUpTo(json, first, y.at, close)
    BY <2>1, <1>7, StructureBy
  <2> QED BY <2>2
<1>9. PICK last \in Nat: /\ last = y.at
                         /\ first <= last /\ last <= first + Capacity /\ last <= len + 1
  BY <1>5
<1>10. PICK m \in Nat: m = last - 1 /\ m <= len
  BY <1>4, <1>9
<1> HIDE DEF copy
<1>11. copy = Append(SubSeq(json, first, m), close)
  BY <1>8, <1>9, <1>10 DEF CopyUpTo
<1>12. /\ SubSeq(json, first, m) \in Text
       /\ Len(SubSeq(json, first, m)) = IF first <= m THEN m - first + 1 ELSE 0
  <2>1. first \in Nat \ {0}
    BY <1>4
  <2> QED BY <1>1, <1>10, <2>1, TextPart, PartFacts
<1> DEFINE part == SubSeq(json, first, m)
<1> HIDE DEF part
<1>13. Append(part, close) \in Text /\ Len(Append(part, close)) = Len(part) + 1
  <2>1. part \in Text /\ close \in Symbols
    BY <1>12, LineTyped DEF part
  <2> QED BY <2>1 DEF Text
<1>14. Len(part) <= Capacity
  BY <1>4, <1>6, <1>9, <1>10, <1>12 DEF part
<1>15. Len(part) \in Nat
  BY <1>12 DEF part, Text
<1> QED BY <1>6, <1>11, <1>13, <1>14, <1>15 DEF part

\* Where the loop of ObjectEnd stops, and where it stops behind a symbol.
ObjectStops(text, ends, s) ==
  \/ s.at > Len(text)
  \/ text[s.at] \in ends /\ ~s.in_string /\ s.nested_level <= 0

ObjectCloses(text, s) ==
  /\ text[s.at] = BraceClose /\ ~s.in_string
  /\ After(text, s, BraceOpen, BraceClose).nested_level = 0

\* States that the loop keeps, with the one where it begins.
ObjectKeeps(I, text, k, ends) ==
  /\ I \subseteq Loop /\ Begin(k, 0) \in I
  /\ \A s \in I: ~ObjectStops(text, ends, s) /\ ~ObjectCloses(text, s) =>
                   After(text, s, BraceOpen, BraceClose) \in I

\* An object ends at a state that the loop keeps, or behind it.
LEMMA ObjectEndBy ==
  ASSUME NEW text, Len(text) \in Nat, NEW k \in Nat, NEW ends,
         NEW I, ObjectKeeps(I, text, k, ends)
  PROVE  \E y \in I: \/ ObjectStops(text, ends, y) /\ ObjectEnd(text, k, ends) = y.at
                     \/ /\ ~ObjectStops(text, ends, y) /\ ObjectCloses(text, y)
                        /\ ObjectEnd(text, k, ends) = y.at + 1
<1> DEFINE Stops(s) == ObjectStops(text, ends, s)
           Closes(s) == ObjectCloses(text, s)
           IsEnd(f) == f = [s \in Loop |->
                              IF Stops(s) THEN s.at
                              ELSE IF Closes(s) THEN s.at + 1
                              ELSE f[After(text, s, BraceOpen, BraceClose)]]
           end == CHOOSE f: IsEnd(f)
           stop == {s \in Loop : Stops(s) \/ Closes(s)}
           result == [s \in Loop |-> IF Stops(s) THEN s.at ELSE s.at + 1]
           next == Steps(text, BraceOpen, BraceClose)
           left == SymbolsLeft(text)
<1>1. ObjectEnd(text, k, ends) = end[Begin(k, 0)]
  BY DEF ObjectEnd, ObjectStops, ObjectCloses
<1> HIDE DEF end
<1>2. /\ next \in [Loop -> Loop] /\ left \in [Loop -> Nat]
      /\ \A s \in Loop: next[s] = After(text, s, BraceOpen, BraceClose) /\ s.at \in Nat
      /\ \A s \in Loop: s.at <= Len(text) => left[next[s]] < left[s]
  <2>1. \A s \in Loop: next[s] = After(text, s, BraceOpen, BraceClose)
    BY DEF Steps
  <2> HIDE DEF next, left
  <2>2. /\ next \in [Loop -> Loop] /\ left \in [Loop -> Nat]
        /\ \A s \in Loop: s.at \in Nat
        /\ \A s \in Loop: s.at <= Len(text) => left[next[s]] < left[s]
    BY LoopSteps DEF next, left
  <2> QED BY <2>1, <2>2
<1> HIDE DEF next, left
<1>3. result \in [Loop -> Nat]
  BY <1>2
<1>4. CountsDown(Loop, stop, next, left)
  <2>1. \A s \in Loop: s \notin stop => s.at <= Len(text)
    BY <1>2 DEF ObjectStops
  <2> HIDE DEF stop
  <2> QED BY <1>2, <2>1 DEF CountsDown
<1> HIDE DEF Stops, Closes
<1>5. IsEnd(end)
  <2>1. PICK e \in [Loop -> Nat]: LoopResult(e, Loop, stop, result, next)
    <3> HIDE DEF stop, result
    <3> QED BY <1>3, <1>4, LoopExists
  <2>2. ASSUME NEW s \in Loop
        PROVE  e[s] = IF Stops(s) THEN s.at ELSE IF Closes(s) THEN s.at + 1
                      ELSE e[After(text, s, BraceOpen, BraceClose)]
    <3>1. e[s] = IF s \in stop THEN result[s] ELSE e[next[s]]
      BY <2>1 DEF LoopResult
    <3> QED BY <1>2, <3>1
  <2>3. IsEnd(e)
    BY <2>2
  <2> HIDE DEF IsEnd
  <2> QED BY <2>3 DEF end
<1>6. LoopResult(end, Loop, stop, result, next)
  <2> SUFFICES ASSUME NEW s \in Loop
               PROVE  end[s] = IF s \in stop THEN result[s] ELSE end[next[s]]
    BY DEF LoopResult
  <2> QED BY <1>2, <1>5
<1> HIDE DEF IsEnd
<1>7. KeptByLoop(I, Loop, stop, next)
  BY <1>2 DEF KeptByLoop, ObjectKeeps, Stops, Closes
<1>8. PICK y \in I: y \in stop /\ end[Begin(k, 0)] = result[y]
  <2> HIDE DEF stop, result
  <2> QED BY <1>4, <1>6, <1>7, LoopInvariant DEF ObjectKeeps
<1> QED BY <1>1, <1>8 DEF Stops, Closes

\* An object ends behind its first symbol, and not behind the text.
LEMMA ObjectEnds ==
  ASSUME NEW text, Len(text) \in Nat, NEW k \in Nat, NEW ends
  PROVE  /\ ObjectEnd(text, k, ends) \in Nat
         /\ k <= Len(text) + 1 => /\ k <= ObjectEnd(text, k, ends)
                                  /\ ObjectEnd(text, k, ends) <= Len(text) + 1
<1> DEFINE I == {s \in Loop : k <= Len(text) + 1 => k <= s.at /\ s.at <= Len(text) + 1}
<1>1. \A s \in Loop: /\ s.at \in Nat /\ After(text, s, BraceOpen, BraceClose).at = s.at + 1
                     /\ After(text, s, BraceOpen, BraceClose) \in Loop
  BY LoopSteps DEF Steps
<1>2. \A s \in Loop: ~ObjectStops(text, ends, s) => s.at <= Len(text)
  BY <1>1 DEF ObjectStops
<1>3. PICK y \in I: \/ ObjectStops(text, ends, y) /\ ObjectEnd(text, k, ends) = y.at
                    \/ /\ ~ObjectStops(text, ends, y) /\ ObjectCloses(text, y)
                       /\ ObjectEnd(text, k, ends) = y.at + 1
  <2>1. ObjectKeeps(I, text, k, ends)
    BY <1>1, <1>2, BeginFacts DEF ObjectKeeps
  <2> HIDE DEF I
  <2> QED BY <2>1, ObjectEndBy
<1> QED BY <1>1, <1>2, <1>3

\* Where the objects of an array are looked for, one behind the other.
ObjectFrom(text, first) ==
  LET start == Found({k \in first + 1 .. Len(text) : text[k] # Newline} \cup {Len(text) + 1})
  IN IF first > Len(text) THEN Missing
     ELSE SubSeq(text, start, ObjectEnd(text, start, {BracketClose}) - 1)

Skips(skipped, text) ==
  /\ skipped[0] = 1
  /\ \A i \in Nat: /\ skipped[i] \in Nat
                    /\ skipped[i + 1] = ObjectEnd(text, skipped[i], {})

\* The object at an index is the one behind those that are skipped.
LEMMA ObjectsSkipped ==
  ASSUME NEW text, Len(text) \in Nat
  PROVE  \E skipped: /\ Skips(skipped, text)
                     /\ \A n \in Nat: cclog_json_get_object_from_array(text, n)
                                        = ObjectFrom(text, skipped[n])
<1> DEFINE IsSkipped(f) ==
             f = [i \in Nat |-> IF i = 0 THEN 1 ELSE ObjectEnd(text, f[i - 1], {})]
           skipped == CHOOSE f: IsSkipped(f)
<1>1. ASSUME NEW n \in Nat
      PROVE  cclog_json_get_object_from_array(text, n) = ObjectFrom(text, skipped[n])
  BY DEF cclog_json_get_object_from_array, ObjectFrom
<1> HIDE DEF skipped
<1>2. \A k \in Nat: ObjectEnd(text, k, {}) \in Nat
  BY ObjectEnds
<1>3. IsSkipped(skipped)
  <2> DEFINE step == [i \in Nat |-> [k \in Nat |-> ObjectEnd(text, k, {})]]
  <2>1. step \in [Nat -> [Nat -> Nat]]
    BY <1>2
  <2>2. PICK f \in [Nat -> Nat]: Recursive(f, 1, step)
    <3> HIDE DEF step
    <3> QED BY <2>1, RecursionExists
  <2>3. ASSUME NEW i \in Nat
        PROVE  f[i] = IF i = 0 THEN 1 ELSE ObjectEnd(text, f[i - 1], {})
    <3>1. CASE i = 0
      BY <2>2, <3>1 DEF Recursive
    <3>2. CASE i # 0
      <4>1. PICK j \in Nat: i = j + 1 /\ j = i - 1
        BY <3>2
      <4>2. f[j + 1] = step[j][f[j]] /\ f[j] \in Nat
        BY <2>2 DEF Recursive
      <4>3. step[j][f[j]] = ObjectEnd(text, f[j], {})
        BY <4>2
      <4> HIDE DEF step
      <4> QED BY <3>2, <4>1, <4>2, <4>3
    <3> QED BY <3>1, <3>2
  <2>4. IsSkipped(f)
    BY <2>3
  <2> HIDE DEF IsSkipped
  <2> QED BY <2>4 DEF skipped
<1>4. skipped[0] = 1 /\ \A i \in Nat: skipped[i + 1] = ObjectEnd(text, skipped[i], {})
  <2>1. \A i \in Nat: skipped[i] = IF i = 0 THEN 1 ELSE ObjectEnd(text, skipped[i - 1], {})
    BY <1>3
  <2>2. ASSUME NEW i \in Nat PROVE skipped[i + 1] = ObjectEnd(text, skipped[i], {})
    <3>1. PICK j \in Nat: j = i + 1 /\ j # 0 /\ j - 1 = i
      OBVIOUS
    <3> HIDE DEF IsSkipped
    <3> QED BY <2>1, <3>1
  <2> QED BY <2>1, <2>2
<1> HIDE DEF IsSkipped
<1> DEFINE S == {i \in Nat : skipped[i] \in Nat}
<1>5. 0 \in S /\ \A i \in Nat: i \in S => i + 1 \in S
  <2>1. \A i \in Nat: skipped[i] \in Nat => skipped[i + 1] \in Nat
    BY <1>2, <1>4
  <2>2. skipped[0] \in Nat /\ \A i \in Nat: i + 1 \in Nat
    BY <1>4
  <2> QED BY <2>1, <2>2
<1> HIDE DEF S
<1>6. \A i \in Nat: i \in S
  BY <1>5, NaturalInduction
<1>7. Skips(skipped, text)
  BY <1>4, <1>6 DEF S, Skips
<1> QED BY <1>1, <1>7

\* An object of a text is a text.
LEMMA ObjectTyped ==
  ASSUME NEW text \in Text, NEW n \in Nat
  PROVE  LET object == cclog_json_get_object_from_array(text, n)
         IN object = Missing \/ object \in Text
<1>1. Len(text) \in Nat /\ text \in Seq(Symbols)
  BY DEF Text
<1>2. PICK skipped: /\ Skips(skipped, text)
                    /\ \A i \in Nat: cclog_json_get_object_from_array(text, i)
                                       = ObjectFrom(text, skipped[i])
  BY <1>1, ObjectsSkipped
<1> DEFINE object == cclog_json_get_object_from_array(text, n)
<1>3. PICK first \in Nat: object = ObjectFrom(text, first)
  BY <1>2 DEF Skips
<1> DEFINE start == Found({k \in first + 1 .. Len(text) : text[k] # Newline} \cup {Len(text) + 1})
<1>4. object = IF first > Len(text) THEN Missing
               ELSE SubSeq(text, start, ObjectEnd(text, start, {BracketClose}) - 1)
  BY <1>3 DEF ObjectFrom
<1> HIDE DEF object
<1>5. SUFFICES ASSUME ~(first > Len(text)) PROVE object \in Text
  BY <1>4 DEF object
<1>6. PICK k \in Nat \ {0}: k = start /\ k <= Len(text) + 1
  <2> DEFINE places == {j \in first + 1 .. Len(text) : text[j] # Newline} \cup {Len(text) + 1}
  <2>1. places \subseteq Nat \ {0} /\ places # {} /\ \A j \in places: j <= Len(text) + 1
    BY <1>1
  <2> HIDE DEF places
  <2>2. Found(places) \in places
    BY <2>1, FoundFirst
  <2> QED BY <2>1, <2>2 DEF places
<1> HIDE DEF start
<1>7. PICK e \in Nat: e = ObjectEnd(text, k, {BracketClose}) /\ k <= e /\ e <= Len(text) + 1
  BY <1>1, <1>6, ObjectEnds
<1>8. PICK m \in Nat: m = e - 1 /\ m <= Len(text)
  BY <1>1, <1>6, <1>7
<1>9. object = SubSeq(text, k, m)
  BY <1>4, <1>5, <1>6, <1>7, <1>8
<1>10. SubSeq(text, k, m) \in Text
  BY <1>8, TextPart
<1> QED BY <1>9, <1>10

-----------------------------------------------------------------------------
(* The load.                                                               *)

\* The callback of a name is one of the application's, or none.
LEMMA MappingTyped ==
  ASSUME NEW name
  PROVE  get_mapping_from_name(name) \in {cb_mappings[i] : i \in DOMAIN cb_mappings} \cup {Null}
<1> DEFINE T == {i \in DOMAIN cb_mappings : cb_mappings[i].name = name}
<1>1. CASE T = {}
  BY <1>1 DEF get_mapping_from_name
<1>2. CASE T # {}
  <2>1. PICK n \in Nat: DOMAIN cb_mappings = 1 .. n
    BY ApplicationAssumption
  <2>2. PICK x \in T: \A y \in T: x <= y
    <3>1. T \subseteq Nat
      BY <2>1
    <3> HIDE DEF T
    <3> QED BY <1>2, <3>1, SmallestExists
  <2>3. \A j \in 1 .. x - 1: cb_mappings[j].name # name
    <3>1. \A j \in 1 .. x - 1: j \in DOMAIN cb_mappings /\ ~(x <= j)
      BY <2>1
    <3> QED BY <2>2, <3>1
  <2>4. \E i \in DOMAIN cb_mappings: /\ cb_mappings[i].name = name
                                     /\ \A j \in 1 .. i - 1: cb_mappings[j].name # name
    BY <2>3
  <2> QED BY <1>2, <2>4 DEF get_mapping_from_name
<1> QED BY <1>1, <1>2

\* A required parameter, given the one before it.
NextParam(object, p, n) ==
  IF p = Missing THEN Missing
  ELSE LET found == cclog_json_get_param(object, Required[n].key, p)
       IN IF HasType(found, Required[n].type) THEN found ELSE Missing

RequiredInOrder(object, param) ==
  /\ param[0] = rv
  /\ param[1] = NextParam(object, param[0], 1) /\ param[2] = NextParam(object, param[1], 2)
  /\ param[3] = NextParam(object, param[2], 3) /\ param[4] = NextParam(object, param[3], 4)

\* The required parameters of an object are read one after another.
LEMMA RequiredSteps ==
  ASSUME NEW object \in Text, rv \in Params
  PROVE  /\ RequiredInOrder(object, RequiredParams(object))
         /\ \A p \in Params \cup {Missing}, n \in 1 .. 4:
              NextParam(object, p, n) # Missing =>
                /\ p # Missing /\ NextParam(object, p, n) \in Params
                /\ NextParam(object, p, n).type = Required[n].type
<1> DEFINE IsParam(f) == f = [n \in 0 .. Len(Required) |->
                                IF n = 0 THEN rv ELSE NextParam(object, f[n - 1], n)]
           param == CHOOSE f: IsParam(f)
           V == Params \cup {Missing}
           step == [n \in Nat |-> [p \in V |-> IF n < 4 THEN NextParam(object, p, n + 1) ELSE p]]
<1>1. RequiredParams(object) = param
  BY DEF RequiredParams, NextParam
<1> HIDE DEF param
<1>2. /\ Len(Required) = 4 /\ DOMAIN Required = 1 .. 4
      /\ Required[1].type = "boolean" /\ Required[2].type = "boolean"
      /\ Required[3].type = "number" /\ Required[4].type = "number"
  BY DEF Required
<1>3. \A n \in 1 .. 4: Required[n].key \in Keys
  BY <1>2 DEF Keys, Required
<1>4. ASSUME NEW p \in V, NEW n \in 1 .. 4
      PROVE  NextParam(object, p, n) \in V /\ (NextParam(object, p, n) # Missing =>
               p # Missing /\ NextParam(object, p, n) \in Params
                 /\ NextParam(object, p, n).type = Required[n].type)
  <2>1. p # Missing => LET found == cclog_json_get_param(object, Required[n].key, p)
                       IN found = Missing \/ found \in Params
    BY <1>3, ParamTyped
  <2> QED BY <2>1 DEF HasType, NextParam
<1> HIDE DEF V
<1>5. step \in [Nat -> [V -> V]]
  <2>1. \A n \in Nat: n < 4 => n + 1 \in 1 .. 4
    OBVIOUS
  <2> QED BY <1>4, <2>1
<1>6. PICK g \in [Nat -> V]: Recursive(g, rv, step)
  <2> HIDE DEF step
  <2>1. rv \in V
    BY DEF V
  <2> QED BY <1>5, <2>1, RecursionExists
<1>7. g[0] = rv /\ \A n \in Nat: n < 4 => g[n + 1] = NextParam(object, g[n], n + 1)
  <2>1. \A n \in Nat: g[n] \in V /\ g[n + 1] = step[n][g[n]]
    BY <1>6 DEF Recursive
  <2> QED BY <1>6, <2>1 DEF Recursive
<1> HIDE DEF step
<1>8. IsParam(param)
  <2> DEFINE h == [n \in 0 .. Len(Required) |-> g[n]]
  <2>1. ASSUME NEW n \in 0 .. Len(Required)
        PROVE  h[n] = IF n = 0 THEN rv ELSE NextParam(object, h[n - 1], n)
    <3>1. CASE n = 0
      BY <1>7, <3>1
    <3>2. CASE n # 0
      <4>1. PICK m \in Nat: m + 1 = n /\ m = n - 1 /\ m < 4 /\ m \in 0 .. Len(Required)
        <5>1. n - 1 \in Nat /\ (n - 1) + 1 = n /\ n - 1 < 4 /\ n - 1 \in 0 .. Len(Required)
          BY <1>2, <3>2
        <5> QED BY <5>1
      <4>2. g[m + 1] = NextParam(object, g[m], m + 1)
        BY <1>7, <4>1
      <4>3. h[n] = g[n] /\ h[n - 1] = g[m]
        BY <4>1
      <4> HIDE DEF h
      <4> QED BY <3>2, <4>1, <4>2, <4>3
    <3> QED BY <3>1, <3>2
  <2>2. IsParam(h)
    BY <2>1
  <2> HIDE DEF IsParam
  <2> QED BY <2>2 DEF param
<1>9. /\ param[0] = rv
      /\ param[1] = NextParam(object, param[0], 1) /\ param[2] = NextParam(object, param[1], 2)
      /\ param[3] = NextParam(object, param[2], 3) /\ param[4] = NextParam(object, param[3], 4)
  <2>1. \A n \in 0 .. 4: param[n] = IF n = 0 THEN rv ELSE NextParam(object, param[n - 1], n)
    BY <1>2, <1>8
  <2> HIDE DEF IsParam
  <2> QED BY <2>1
<1> HIDE DEF IsParam
<1>10. RequiredInOrder(object, param)
  BY <1>9 DEF RequiredInOrder
<1> QED BY <1>1, <1>4, <1>10 DEF V

\* Where the required parameters are all there, they have their types.
LEMMA RequiredTyped ==
  ASSUME NEW object \in Text, rv \in Params,
         RequiredParams(object)[Len(Required)] # Missing
  PROVE  /\ RequiredParams(object)[Len(Required)] \in Params
         /\ [n \in DOMAIN Required |-> RequiredParams(object)[n].value]
              \in Booleans \X Booleans \X Numbers \X Numbers
<1> DEFINE param == RequiredParams(object)
           V == Params \cup {Missing}
<1>1. /\ Len(Required) = 4 /\ DOMAIN Required = 1 .. 4
      /\ Required[1].type = "boolean" /\ Required[2].type = "boolean"
      /\ Required[3].type = "number" /\ Required[4].type = "number"
  BY DEF Required
<1>2. RequiredInOrder(object, param)
  BY RequiredSteps
<1>3. ASSUME NEW p \in V, NEW n \in 1 .. 4
      PROVE  /\ NextParam(object, p, n) \in V
             /\ NextParam(object, p, n) # Missing =>
                  /\ p # Missing /\ NextParam(object, p, n) \in Params
                  /\ NextParam(object, p, n).type = Required[n].type
  BY RequiredSteps
<1> HIDE DEF V
<1>4. param[4] # Missing
  BY <1>1
<1> HIDE DEF param
<1>5. /\ param[0] \in V /\ param[1] \in V /\ param[2] \in V /\ param[3] \in V
      /\ param[4] \in V
  <2>1. param[0] \in V
    BY <1>2 DEF V, RequiredInOrder
  <2>2. param[1] \in V
    BY <1>2, <1>3, <2>1 DEF RequiredInOrder
  <2>3. param[2] \in V
    BY <1>2, <1>3, <2>2 DEF RequiredInOrder
  <2>4. param[3] \in V
    BY <1>2, <1>3, <2>3 DEF RequiredInOrder
  <2>5. param[4] \in V
    BY <1>2, <1>3, <2>4 DEF RequiredInOrder
  <2> QED BY <2>1, <2>2, <2>3, <2>4, <2>5
<1>6. /\ param[4] \in Params /\ param[4].type = "number"
      /\ param[3] \in Params /\ param[3].type = "number"
      /\ param[2] \in Params /\ param[2].type = "boolean"
      /\ param[1] \in Params /\ param[1].type = "boolean"
  <2>1. param[3] # Missing /\ param[4] \in Params /\ param[4].type = "number"
    BY <1>1, <1>2, <1>3, <1>4, <1>5 DEF RequiredInOrder
  <2>2. param[2] # Missing /\ param[3] \in Params /\ param[3].type = "number"
    BY <1>1, <1>2, <1>3, <1>5, <2>1 DEF RequiredInOrder
  <2>3. param[1] # Missing /\ param[2] \in Params /\ param[2].type = "boolean"
    BY <1>1, <1>2, <1>3, <1>5, <2>2 DEF RequiredInOrder
  <2>4. param[1] \in Params /\ param[1].type = "boolean"
    BY <1>1, <1>2, <1>3, <1>5, <2>3 DEF RequiredInOrder
  <2> QED BY <2>1, <2>2, <2>3, <2>4
<1>7. /\ param[1].value \in Booleans /\ param[2].value \in Booleans
      /\ param[3].value \in Numbers /\ param[4].value \in Numbers
  BY <1>6 DEF Params
<1>8. [n \in DOMAIN Required |-> param[n].value] =
        <<param[1].value, param[2].value, param[3].value, param[4].value>>
  BY <1>1
<1> QED BY <1>1, <1>6, <1>7, <1>8 DEF param

\* What the texts of a load are at each point, and what the static parameter holds.
\* What is exported is what the application has set.
ReaderInv ==
  /\ TypeOK
  /\ rv \in Params
  /\ file = Null => config \in Options /\ levels \in Seq(Level)
  /\ file # Null => file \in Text
  /\ pc \in {"format", "verbosity", "array", "levels", "server"} => file \in Text
  /\ pc = "levels" => array \in Text

\* What the application sets may be loaded.
LEMMA SetsLoaded == Options \subseteq OptionsOf(Text) /\ Level \subseteq LevelOf(Text)
<1>1. Letters \subseteq Symbols
  BY DEF Symbols
<1>2. String \subseteq Text
  BY <1>1 DEF String, Text
<1> QED BY <1>2 DEF Options, OptionsOf, Level, LevelOf

\* A level that is added is one of the levels.
LEMMA AddTyped ==
  ASSUME ListInv, NEW T, levels \in Seq(T), NEW level \in T, AddLevel(level)
  PROVE  levels' \in Seq(T)
<1>1. levels' = Append(levels, level)
  BY AddLevelStep
<1> QED BY <1>1

\* The file holds a beginning of a text.
LEMMA ExportStep ==
  ASSUME ReaderInv, cclogger_export_config_json, ListInv PROVE ReaderInv'
<1>1. UNCHANGED <<listVars, config>> /\ pc = "idle" /\ file = Null
  BY DEF cclogger_export_config_json
<1>2. levels' = levels
  BY <1>1, ListStays
<1>3. CASE pc' = "overrun" /\ UNCHANGED <<file, saved, rv, array, index, dangling, allocated, outcome>>
  BY <1>1, <1>2, <1>3 DEF ReaderInv, TypeOK
<1>4. CASE /\ UNCHANGED loadVars
           /\ \E n \in 0 .. Len(Exported(config, levels)):
                file' = SubSeq(Exported(config, levels), 1, n)
  <2>1. PICK n \in 0 .. Len(Exported(config, levels)):
          file' = SubSeq(Exported(config, levels), 1, n)
    BY <1>4
  <2>2. Exported(config, levels) \in Text
    BY <1>1, ExportTyped DEF ReaderInv
  <2> DEFINE text == Exported(config, levels)
  <2> HIDE DEF text
  <2>3. Len(text) \in Nat
    BY <2>2 DEF Text, text
  <2>4. SubSeq(text, 1, n) \in Text
    <3>1. PICK m \in Nat \ {0}: m = 1
      OBVIOUS
    <3>2. n \in Nat /\ n <= Len(text) /\ text \in Text
      BY <2>1, <2>2, <2>3 DEF text
    <3> QED BY <3>1, <3>2, TextPart
  <2>5. file' \in Text /\ file' # Null
    BY <2>1, <2>4, ReaderAssumption DEF text, Text
  <2> QED BY <1>1, <1>2, <1>4, <2>5 DEF ReaderInv, TypeOK, loadVars
<1> QED BY <1>3, <1>4 DEF cclogger_export_config_json, levels

\* A load reads what was exported.
LEMMA FileThere ==
  ASSUME ReaderInv, pc \in {"format", "verbosity", "array", "levels", "server"}
  PROVE  file # Null
BY ReaderAssumption DEF ReaderInv, Text

\* A level that is read has its type.
LEMMA LoadLevelStep ==
  ASSUME ReaderInv, ListInv, LoadLevel PROVE ReaderInv'
<1> DEFINE object == cclog_json_get_object_from_array(array, index)
           required == RequiredParams(object)
           last == required[Len(Required)]
           format == cclog_json_get_param(object, "msg_format", last)
           before == IF format = Missing THEN last ELSE format
           callback == cclog_json_get_param(object, "callback", before)
           level == [required |-> [n \in DOMAIN Required |-> required[n].value],
                     msg_format |-> StringOf(format),
                     callback |-> get_mapping_from_name(StringOf(callback))]
<1>1. object \in Text
  <2>1. pc = "levels" /\ object # Missing /\ index \in Nat /\ array \in Text
    BY DEF LoadLevel, ReaderInv, TypeOK
  <2> QED BY <2>1, ObjectTyped
<1> HIDE DEF object
<1>2. /\ pc = "levels" /\ UNCHANGED <<config, file, saved, array>>
      /\ \/ /\ UNCHANGED listVars /\ rv' \in Leftovers /\ UNCHANGED index
            /\ \/ Fails
               \/ pc' = "double_free" /\ UNCHANGED <<allocated, outcome>>
         \/ /\ last # Missing
            /\ format # Missing => format.type = "string"
            /\ callback # Missing => callback.type = "string"
            /\ AddLevel(level)
            /\ index' = index + 1
            /\ rv' = IF callback # Missing THEN callback
                     ELSE IF format # Missing THEN format ELSE last
            /\ UNCHANGED <<pc, allocated, outcome>>
  BY DEF LoadLevel, LevelFails, object
<1>3. CASE /\ UNCHANGED listVars /\ rv' \in Leftovers /\ UNCHANGED index
           /\ \/ Fails
              \/ pc' = "double_free" /\ UNCHANGED <<allocated, outcome>>
  <2>1. levels' = levels
    BY <1>3, ListStays
  <2>2. rv' \in Params
    BY <1>3, ApplicationAssumption
  <2> QED BY <1>2, <1>3, <2>1, <2>2, FileThere DEF ReaderInv, TypeOK, Fails, Ends
<1>4. CASE /\ last # Missing
           /\ format # Missing => format.type = "string"
           /\ callback # Missing => callback.type = "string"
           /\ AddLevel(level)
           /\ index' = index + 1
           /\ rv' = IF callback # Missing THEN callback
                    ELSE IF format # Missing THEN format ELSE last
           /\ UNCHANGED <<pc, allocated, outcome>>
  <2>1. /\ last \in Params
        /\ [n \in DOMAIN Required |-> required[n].value]
             \in Booleans \X Booleans \X Numbers \X Numbers
    BY <1>1, <1>4, RequiredTyped DEF ReaderInv
  <2> HIDE DEF last, required
  <2>2. format = Missing \/ format \in Params
    BY <1>1, <2>1, ParamTyped
  <2> HIDE DEF format
  <2>3. before \in Params
    BY <2>1, <2>2
  <2> HIDE DEF before
  <2>4. callback = Missing \/ callback \in Params
    BY <1>1, <2>3, ParamTyped
  <2> HIDE DEF callback
  <2>5. StringOf(format) \in Text \cup {Null}
    BY <1>4, <2>2 DEF StringOf, Params
  <2>6. level \in LevelOf(Text)
    BY <2>1, <2>5, MappingTyped DEF LevelOf
  <2>7. levels' \in Seq(LevelOf(Text))
    <3> HIDE DEF level
    <3> QED BY <1>4, <2>6, AddTyped DEF ReaderInv, TypeOK
  <2>8. rv' \in Params
    BY <1>4, <2>1, <2>2, <2>4
  <2> QED BY <1>2, <1>4, <2>7, <2>8, FileThere DEF ReaderInv, TypeOK
<1> HIDE DEF last, format, callback, level
<1> QED BY <1>2, <1>3, <1>4

\* Every step keeps the texts of a load.
LEMMA ReaderStep ==
  ASSUME ReaderInv, ListInv, [Next]_vars PROVE ReaderInv'
<1>1. CASE AppAddsLevel
  <2>1. levels' \in Seq(Level) /\ file = Null
    BY <1>1, AddTyped, ApplicationAssumption DEF AppAddsLevel, ReaderInv
  <2>2. levels' \in Seq(LevelOf(Text))
    BY <2>1, SetsLoaded
  <2> QED BY <1>1, <2>1, <2>2 DEF AppAddsLevel, loadVars, ReaderInv, TypeOK
<1>2. CASE cclogger_export_config_json
  BY <1>2, ExportStep
<1>3. CASE Restart
  <2>1. levels' = <<>>
    BY <1>3, ShownAfterStep DEF Restart
  <2>2. rv' \in Params
    BY <1>3 DEF Restart, Param, Params
  <2>3. config' \in OptionsOf(Text)
    BY <1>3, SetsLoaded, ApplicationAssumption DEF Restart
  <2> QED BY <1>3, <2>1, <2>2, <2>3 DEF Restart, ReaderInv, TypeOK
<1>4. CASE BeginLoad
  <2>1. levels' = levels
    BY <1>4, ListStays DEF BeginLoad
  <2> QED BY <1>4, <2>1 DEF BeginLoad, ReaderInv, TypeOK
<1>5. CASE LoadFormat
  <2> DEFINE param == cclog_json_get_param(file, "def_msg_format", rv)
  <2>1. levels' = levels
    BY <1>5, ListStays DEF LoadFormat
  <2>2. param = Missing \/ param \in Params
    BY <1>5, ParamTyped DEF LoadFormat, ReaderInv
  <2>3. /\ rv' = IF param = Missing THEN rv ELSE param
        /\ \/ Fails /\ UNCHANGED config
           \/ /\ param # Missing /\ param.type = "string" /\ param.value # Null
              /\ config' = [config EXCEPT !.format = param.value]
              /\ pc' = "verbosity" /\ UNCHANGED <<allocated, outcome>>
           \/ pc' = "wild_pointer" /\ UNCHANGED <<allocated, outcome, config>>
        /\ UNCHANGED <<listVars, file, saved, array, index, dangling>>
        /\ pc = "format"
    BY <1>5 DEF LoadFormat
  <2> HIDE DEF param
  <2>4. config' \in OptionsOf(Text)
    BY <2>2, <2>3 DEF ReaderInv, TypeOK, OptionsOf, Params
  <2> QED BY <2>1, <2>2, <2>3, <2>4, FileThere DEF ReaderInv, TypeOK, Fails, Ends
<1>6. CASE LoadVerbosity
  <2> DEFINE param == cclog_json_get_param(file, "logger_verbosity", rv)
  <2>1. levels' = levels
    BY <1>6, ListStays DEF LoadVerbosity
  <2>2. param = Missing \/ param \in Params
    BY <1>6, ParamTyped DEF LoadVerbosity, ReaderInv
  <2>3. /\ rv' = IF param = Missing THEN rv ELSE param
        /\ \/ Fails /\ UNCHANGED config
           \/ /\ param # Missing
              /\ \E number \in IF param.type = "number" THEN {param.value} ELSE Numbers:
                   config' = [config EXCEPT !.verbosity = number]
              /\ pc' = "array" /\ UNCHANGED <<allocated, outcome>>
        /\ UNCHANGED <<listVars, file, saved, array, index, dangling>>
        /\ pc = "verbosity"
    BY <1>6 DEF LoadVerbosity
  <2> HIDE DEF param
  <2>4. config' \in OptionsOf(Text)
    BY <2>2, <2>3 DEF ReaderInv, TypeOK, OptionsOf, Params
  <2> QED BY <2>1, <2>2, <2>3, <2>4, FileThere DEF ReaderInv, TypeOK, Fails, Ends
<1>7. CASE LoadArray
  <2> DEFINE copy == cclog_json_get_array(file, "log_levels")
  <2>1. copy = Missing \/ (copy \in Text /\ Len(copy) <= Capacity + 1)
    BY <1>7, StructureTyped DEF LoadArray, ReaderInv, cclog_json_get_array
  <2>2. /\ \/ Fails /\ UNCHANGED <<listVars, array>>
           \/ /\ copy # Missing /\ array' = copy /\ cclogger_reset_log_levels
              /\ pc' = "levels" /\ UNCHANGED outcome
              /\ allocated' = allocated \cup {"log_levels"}
        /\ UNCHANGED <<config, file, saved, rv, index, dangling>>
        /\ pc = "array"
    BY <1>7 DEF LoadArray
  <2> HIDE DEF copy
  <2>3. levels' \in Seq(LevelOf(Text))
    <3>1. CASE UNCHANGED listVars
      BY <3>1, ListStays DEF ReaderInv, TypeOK
    <3>2. CASE cclogger_reset_log_levels
      BY <3>2, ResetStep
    <3> QED BY <2>2, <3>1, <3>2
  <2> QED BY <2>1, <2>2, <2>3, FileThere DEF ReaderInv, TypeOK, Fails, Ends
<1>8. CASE LoadLevel
  BY <1>8, LoadLevelStep
<1>9. CASE LevelsEnd
  <2>1. levels' = levels
    BY <1>9, ListStays DEF LevelsEnd
  <2> QED BY <1>9, <2>1 DEF LevelsEnd, ReaderInv, TypeOK
<1>10. CASE LoadServer
  <2> DEFINE server == cclog_json_get_object(file, "server")
             port == IF server = Missing THEN Missing ELSE cclog_json_get_param(server, "port", rv)
  <2>1. levels' = levels
    BY <1>10, ListStays DEF LoadServer
  <2>2. port = Missing \/ port \in Params
    <3>1. server = Missing \/ server \in Text
      BY <1>10, StructureTyped DEF LoadServer, ReaderInv, cclog_json_get_object
    <3> HIDE DEF server
    <3> QED BY <3>1, ParamTyped DEF ReaderInv
  <2>3. /\ rv' = IF port = Missing THEN rv ELSE port
        /\ \/ Ends("loaded", allocated) /\ UNCHANGED config
           \/ Ends("failed", allocated \cup {"server"}) /\ UNCHANGED config
           \/ /\ HasType(port, "number")
              /\ config' = [config EXCEPT !.port = port.value]
              /\ Ends("loaded", allocated)
           \/ Fails /\ UNCHANGED config
        /\ UNCHANGED <<listVars, file, saved, array, index, dangling>>
        /\ pc = "server"
    BY <1>10 DEF LoadServer
  <2> HIDE DEF port, server
  <2>4. config' \in OptionsOf(Text)
    BY <2>2, <2>3 DEF ReaderInv, TypeOK, OptionsOf, Params, HasType
  <2> QED BY <2>1, <2>2, <2>3, <2>4, FileThere DEF ReaderInv, TypeOK, Fails, Ends
<1>11. CASE UNCHANGED vars
  <2>1. levels' = levels
    BY <1>11, ListStays DEF vars
  <2> QED BY <1>11, <2>1 DEF vars, loadVars, ReaderInv, TypeOK
<1> QED BY <1>1, <1>2, <1>3, <1>4, <1>5, <1>6, <1>7, <1>8, <1>9, <1>10, <1>11 DEF Next

\* A load gives well-formed options and levels whatever part of an exported file it
\* is given.
THEOREM LoadTypes == Spec => []TypeOK
<1>1. Init => ReaderInv
  BY NoLevels, SetsLoaded, ApplicationAssumption DEF Init, ListInit, ReaderInv, TypeOK
<1>2. ListInv /\ ReaderInv /\ [Next]_vars => ReaderInv'
  BY ReaderStep
<1>3. ReaderInv => TypeOK
  BY DEF ReaderInv
<1> QED BY <1>1, <1>2, <1>3, ListInvariant, PTL DEF Spec
=============================================================================
