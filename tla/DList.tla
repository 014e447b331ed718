------------------------------- MODULE DList -------------------------------
(***************************************************************************)
(* The pointers of the doubly linked lists (src/src/dllist.c), and that    *)
(* they hold what was asked of them: order[l] is a history variable, the   *)
(* sequence of nodes the calls have put on list l.                         *)
(*                                                                         *)
(* A caller appends data that is on no list, deletes data from the list it *)
(* is on, or asks twice, and moves a node from its list to another one:    *)
(* ConnPool!ListsMatchStatus says that the connection pool is such a       *)
(* caller.  The pointers of src/src/pthread_dllist.c are handled alike.    *)
(***************************************************************************)
EXTENDS NodeLists

CONSTANTS
  Lists,  \* names for dllist_t objects
  Nodes,  \* names for the memory of dllistNode_t objects
  Data,   \* names for what is put on the lists
  NULL

ASSUME ListsAssumption == NULL \notin Nodes /\ NULL \notin Data

VARIABLES
  mem,    \* head, tail and count of the lists, next and prev of the nodes
  data,   \* data[n]: node->data
  node,   \* node[d]: data->node
  alloc,  \* the nodes that are allocated
  order   \* history: the nodes on each list, head first

vars == <<mem, data, node, alloc, order>>

Ptr == Nodes \cup {NULL}

Memory == [head: [Lists -> Ptr], tail: [Lists -> Ptr], count: [Lists -> Nat],
           next: [Nodes -> Ptr], prev: [Nodes -> Ptr]]

Init ==
  /\ mem = [head |-> [l \in Lists |-> NULL], tail |-> [l \in Lists |-> NULL],
            count |-> [l \in Lists |-> 0],
            next |-> [n \in Nodes |-> NULL], prev |-> [n \in Nodes |-> NULL]]
  /\ data = [n \in Nodes |-> NULL]
  /\ node = [d \in Data |-> NULL]
  /\ alloc = {}
  /\ order = [l \in Lists |-> <<>>]

-----------------------------------------------------------------------------
(***************************************************************************)
(* What the functions do to the memory m.                                  *)
(***************************************************************************)

AppendNode(m, l, n) ==
  IF m.tail[l] = NULL
    THEN [m EXCEPT !.prev[n] = NULL, !.next[n] = NULL,
                   !.head[l] = n, !.tail[l] = n, !.count[l] = @ + 1]
    ELSE [m EXCEPT !.prev[n] = m.tail[l],
                   !.next = [@ EXCEPT ![n] = NULL, ![m.tail[l]] = n],
                   !.tail[l] = n, !.count[l] = @ + 1]

UnlinkOnly(m, l, n) ==
  [m EXCEPT !.head[l] = NULL, !.tail[l] = NULL, !.next[n] = NULL, !.count[l] = @ - 1]

UnlinkHead(m, l, n) ==
  [m EXCEPT !.head[l] = m.next[n], !.prev[m.next[n]] = NULL, !.next[n] = NULL,
            !.count[l] = @ - 1]

\* Mutant of UnlinkTail: the node before it still points to it.
UnlinkTailNoNext(m, l, n) ==
  [m EXCEPT !.tail[l] = m.prev[n], !.prev[n] = NULL, !.count[l] = @ - 1]

UnlinkTail(m, l, n) ==
  [m EXCEPT !.tail[l] = m.prev[n], !.next[m.prev[n]] = NULL, !.prev[n] = NULL,
            !.count[l] = @ - 1]

UnlinkMiddle(m, l, n) ==
  [m EXCEPT !.next = [@ EXCEPT ![m.prev[n]] = m.next[n], ![n] = NULL],
            !.prev = [@ EXCEPT ![m.next[n]] = m.prev[n], ![n] = NULL],
            !.count[l] = @ - 1]

\* dllistDeleteNode does not look whether n is on l.
DeleteNode(m, l, n) ==
  CASE n = m.head[l] /\ m.next[n] = NULL -> UnlinkOnly(m, l, n)
    [] n = m.head[l] /\ m.next[n] # NULL -> UnlinkHead(m, l, n)
    [] n # m.head[l] /\ n = m.tail[l]    -> UnlinkTail(m, l, n)
    [] n # m.head[l] /\ n # m.tail[l]    -> UnlinkMiddle(m, l, n)

-----------------------------------------------------------------------------
(***************************************************************************)
(* The calls.                                                              *)
(***************************************************************************)

\* dllistAppend of new data: calloc returns n.
Append_(l, d, n) ==
  /\ node[d] = NULL
  /\ n \notin alloc
  /\ alloc' = alloc \cup {n}
  /\ data' = [data EXCEPT ![n] = d]
  /\ node' = [node EXCEPT ![d] = n]
  /\ mem' = AppendNode(mem, l, n)
  /\ order' = [order EXCEPT ![l] = Append(@, n)]

\* Mutant of Delete: the node is unlinked and kept, as by a missing free.
DeleteNoFree(l, d) ==
  IF node[d] = NULL
    THEN UNCHANGED vars
    ELSE /\ node[d] \in Elems(order[l])
         /\ data' = [data EXCEPT ![node[d]] = NULL]
         /\ node' = [node EXCEPT ![d] = NULL]
         /\ mem' = DeleteNode(mem, l, node[d])
         /\ order' = [order EXCEPT ![l] = Without(@, node[d])]
         /\ UNCHANGED alloc

\* dllistDelete of data on list l; of data that was deleted before, nothing.
Delete(l, d) ==
  IF node[d] = NULL
    THEN UNCHANGED vars
    ELSE /\ node[d] \in Elems(order[l])
         /\ data' = [data EXCEPT ![node[d]] = NULL]
         /\ node' = [node EXCEPT ![d] = NULL]
         /\ mem' = DeleteNode(mem, l, node[d])
         /\ alloc' = alloc \ {node[d]}
         /\ order' = [order EXCEPT ![l] = Without(@, node[d])]

MvNode(a, n, b) ==
  /\ a # b
  /\ n \in Elems(order[a])
  /\ mem' = AppendNode(DeleteNode(mem, a, n), b, n)
  /\ order' = [order EXCEPT ![a] = Without(@, n), ![b] = Append(@, n)]
  /\ UNCHANGED <<data, node, alloc>>

\* freeTransports: the head is unlinked and freed, its data was freed before.
CutHead(l) ==
  LET n == mem.head[l]
  IN  /\ n # NULL
      /\ node' = [node EXCEPT ![data[n]] = NULL]
      /\ data' = [data EXCEPT ![n] = NULL]
      /\ mem' = DeleteNode(mem, l, n)
      /\ alloc' = alloc \ {n}
      /\ order' = [order EXCEPT ![l] = Tail(@)]

Next ==
  \E l \in Lists :
    \/ \E d \in Data : Delete(l, d) \/ \E n \in Nodes : Append_(l, d, n)
    \/ \E n \in Nodes, k \in Lists : MvNode(l, n, k)
    \/ CutHead(l)

Spec == Init /\ [][Next]_vars

-----------------------------------------------------------------------------
(***************************************************************************)
(* Properties.                                                             *)
(***************************************************************************)

\* The memory m holds the nodes of s, and no others, on list l.
Represents(m, l, s) ==
  /\ NoRepeat(s)
  /\ m.count[l] = Len(s)
  /\ m.head[l] = IF s = <<>> THEN NULL ELSE s[1]
  /\ m.tail[l] = IF s = <<>> THEN NULL ELSE s[Len(s)]
  /\ \A i \in 1..Len(s) :
       /\ m.next[s[i]] = IF i = Len(s) THEN NULL ELSE s[i + 1]
       /\ m.prev[s[i]] = IF i = 1 THEN NULL ELSE s[i - 1]

TypeOK ==
  /\ mem \in Memory
  /\ data \in [Nodes -> Data \cup {NULL}]
  /\ node \in [Data -> Ptr]
  /\ alloc \in SUBSET Nodes
  /\ order \in [Lists -> Seq(Nodes)]

\* After any calls head, tail, count and the pointers of every list are those of
\* the nodes that were put on it and not taken off, in order.
WellLinked == \A l \in Lists : Represents(mem, l, order[l])

\* Data and its node point at each other: a second dllistDelete of the same data
\* finds NULL (dllist.c:70-73) and unlinks nothing twice.
BothPoint ==
  /\ \A n \in Nodes : n \in alloc <=> data[n] # NULL
  /\ \A d \in Data, n \in Nodes : data[n] = d <=> node[d] = n

\* Every node that is allocated is on one list, and the lists have no others: a
\* visitor never follows a pointer into memory that was freed, and none is lost.
\* The same of what the data points to.
NoDangling ==
  /\ \A n \in Nodes : n \in alloc <=> \E l \in Lists : n \in Elems(order[l])
  /\ \A l, k \in Lists : l # k => Elems(order[l]) \cap Elems(order[k]) = {}
  /\ BothPoint

=============================================================================
