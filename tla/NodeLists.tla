----------------------------- MODULE NodeLists -----------------------------
(***************************************************************************)
(* The doubly linked lists of src/src/dllist.c and src/src/pthread_dllist.c*)
(* as sequences of their nodes, head first.                                *)
(***************************************************************************)
EXTENDS Integers, Sequences

\* The nodes of a list, and that each is on it once.
Elems(list) == {list[i] : i \in 1..Len(list)}
NoRepeat(list) == \A i, j \in 1..Len(list) : list[i] = list[j] => i = j

\* The list without one of its nodes (dllistDeleteNode, pthread_dllistDelete).
Without(list, c) ==
  LET i == CHOOSE j \in 1..Len(list) : list[j] = c
  IN  [j \in 1..(Len(list) - 1) |-> IF j < i THEN list[j] ELSE list[j + 1]]

=============================================================================
