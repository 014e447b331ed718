---------------------------- MODULE DListProofs ----------------------------
(***************************************************************************)
(* The pointers of dllist.c are those of the sequences asked for, for any  *)
(* lists, nodes and data.  The two steps all calls are made of, appending  *)
(* and unlinking a node, are shown to keep a list, and to leave the others *)
(* alone; the invariant follows call by call.                              *)
(***************************************************************************)
EXTENDS DList, SequenceTheorems, TLAPS

-----------------------------------------------------------------------------
(***************************************************************************)
(* Lists that hold a node once.                                            *)
(***************************************************************************)

\* Unlinking a node that is on the list once: dllistDeleteNode.
LEMMA WithoutProperties ==
  ASSUME NEW S, NEW list \in Seq(S), NEW c,
         NoRepeat(list),
         c \in Elems(list),
         NEW w, w = Without(list, c)
  PROVE  /\ w \in Seq(S)
         /\ Len(w) = Len(list) - 1
         /\ Elems(w) = Elems(list) \ {c}
         /\ NoRepeat(w)
<1>1. PICK i \in 1..Len(list) :
        /\ list[i] = c
        /\ w = [j \in 1..(Len(list) - 1) |-> IF j < i THEN list[j] ELSE list[j + 1]]
  BY DEF Without, Elems
<1>2. Len(list) \in Nat \ {0}
  BY <1>1
<1>3. \A j \in 1..(Len(list) - 1) : w[j] = IF j < i THEN list[j] ELSE list[j + 1]
  BY <1>1
<1>4. w \in Seq(S) /\ Len(w) = Len(list) - 1
  BY <1>1, <1>2
<1>5. {w[k] : k \in 1..Len(w)} = {list[k] : k \in 1..Len(list)} \ {c}
  <2>1. ASSUME NEW k \in 1..Len(w)
        PROVE  w[k] \in {list[m] : m \in 1..Len(list)} \ {c}
    <3>1. CASE k < i
      BY <3>1, <1>1, <1>2, <1>3, <1>4 DEF NoRepeat
    <3>2. CASE k >= i
      <4>1. k + 1 \in 1..Len(list) /\ w[k] = list[k + 1] /\ k + 1 # i
        BY <3>2, <1>1, <1>2, <1>3, <1>4
      <4> QED BY <4>1, <1>1 DEF NoRepeat
    <3> QED BY <3>1, <3>2, <1>1, <1>2, <1>4
  <2>2. ASSUME NEW m \in 1..Len(list), list[m] # c
        PROVE  list[m] \in {w[k] : k \in 1..Len(w)}
    <3>1. CASE m < i
      <4>1. m \in 1..Len(w) /\ w[m] = list[m]
        BY <3>1, <1>1, <1>2, <1>3, <1>4
      <4> QED BY <4>1
    <3>2. CASE m > i
      <4>1. m - 1 \in 1..Len(w) /\ w[m - 1] = list[m]
        BY <3>2, <1>1, <1>2, <1>3, <1>4
      <4> QED BY <4>1
    <3>3. m # i
      BY <1>1, <2>2
    <3> QED BY <3>1, <3>2, <3>3, <1>2
  <2> QED BY <2>1, <2>2
<1>6. ASSUME NEW j \in 1..Len(w), NEW k \in 1..Len(w), w[j] = w[k]
      PROVE  j = k
  BY <1>1, <1>2, <1>3, <1>4, <1>6 DEF NoRepeat
<1> QED BY <1>4, <1>5, <1>6 DEF Elems, NoRepeat

\* Appending a node that is on no list: dllistAppendNode.
LEMMA AppendedProperties ==
  ASSUME NEW S, NEW list \in Seq(S), NEW c \in S,
         NoRepeat(list),
         c \notin Elems(list),
         NEW w \in Seq(S), Len(w) = Len(list) + 1, w[Len(w)] = c,
         \A k \in 1..Len(list) : w[k] = list[k]
  PROVE  /\ Elems(w) = Elems(list) \cup {c}
         /\ NoRepeat(w)
<1>1. Len(list) \in Nat /\ Len(w) = Len(list) + 1 /\ w[Len(list) + 1] = c
  OBVIOUS
<1>2. ASSUME NEW k \in 1..Len(w)
      PROVE  w[k] \in {list[m] : m \in 1..Len(list)} \cup {c}
  BY <1>1
<1>3. ASSUME NEW m \in 1..Len(list)
      PROVE  list[m] \in {w[k] : k \in 1..Len(w)}
  BY <1>1
<1>4. c \in {w[k] : k \in 1..Len(w)}
  BY <1>1
<1>5. {w[k] : k \in 1..Len(w)} = {list[k] : k \in 1..Len(list)} \cup {c}
  BY <1>2, <1>3, <1>4
<1>6. ASSUME NEW j \in 1..Len(w), NEW k \in 1..Len(w), w[j] = w[k]
      PROVE  j = k
  <2>1. \A m \in 1..Len(list) : list[m] # c
    BY DEF Elems
  <2> QED BY <2>1, <1>1, <1>6 DEF NoRepeat
<1> QED BY <1>1, <1>5, <1>6 DEF Elems, NoRepeat

\* The nodes of a list that the memory represents are its nodes, not NULL.
LEMMA NodesAreNotNULL ==
  ASSUME NEW s \in Seq(Nodes), NEW i \in 1..Len(s)
  PROVE  s[i] \in Nodes /\ s[i] # NULL
BY ListsAssumption

-----------------------------------------------------------------------------
(***************************************************************************)
(* Appending.                                                              *)
(***************************************************************************)

\* dllistAppendNode as an assignment to each of the fields.
Appended(m, l, n, w) ==
  /\ w \in Memory
  /\ \A k \in Lists : k # l =>
       w.tail[k] = m.tail[k] /\ w.head[k] = m.head[k] /\ w.count[k] = m.count[k]
  /\ w.tail[l] = n /\ w.count[l] = m.count[l] + 1
  /\ w.head[l] = IF m.tail[l] = NULL THEN n ELSE m.head[l]
  /\ \A p \in Nodes : w.prev[p] = IF p = n THEN m.tail[l] ELSE m.prev[p]
  /\ \A p \in Nodes : w.next[p] = IF p = m.tail[l] THEN n
                                  ELSE IF p = n THEN NULL ELSE m.next[p]

\* What dllistAppendNode does to the fields, in both of its cases.
LEMMA AppendFields ==
  ASSUME NEW m \in Memory, NEW l \in Lists, NEW n \in Nodes
  PROVE  Appended(m, l, n, AppendNode(m, l, n))
<1> DEFINE w == AppendNode(m, l, n)
<1> USE DEF Memory, Ptr
<1>1. CASE m.tail[l] = NULL
  <2>1. w = [m EXCEPT !.prev[n] = NULL, !.next[n] = NULL,
                      !.head[l] = n, !.tail[l] = n, !.count[l] = @ + 1]
    BY <1>1 DEF AppendNode
  <2>2. /\ w.head = [m.head EXCEPT ![l] = n]
        /\ w.tail = [m.tail EXCEPT ![l] = n]
        /\ w.count = [m.count EXCEPT ![l] = m.count[l] + 1]
        /\ w.next = [m.next EXCEPT ![n] = NULL]
        /\ w.prev = [m.prev EXCEPT ![n] = NULL]
        /\ w = [head |-> w.head, tail |-> w.tail, count |-> w.count,
                next |-> w.next, prev |-> w.prev]
    BY <2>1
  <2>3. w \in Memory
    BY <2>2
  <2> QED BY <2>2, <2>3, <1>1, ListsAssumption DEF Appended
<1>2. CASE m.tail[l] # NULL
  <2>0. m.tail[l] \in Nodes
    BY <1>2
  <2>1. w = [m EXCEPT !.prev[n] = m.tail[l],
                      !.next = [@ EXCEPT ![n] = NULL, ![m.tail[l]] = n],
                      !.tail[l] = n, !.count[l] = @ + 1]
    BY <1>2 DEF AppendNode
  <2>2. /\ w.head = m.head
        /\ w.tail = [m.tail EXCEPT ![l] = n]
        /\ w.count = [m.count EXCEPT ![l] = m.count[l] + 1]
        /\ w.next = [m.next EXCEPT ![n] = NULL, ![m.tail[l]] = n]
        /\ w.prev = [m.prev EXCEPT ![n] = m.tail[l]]
        /\ w = [head |-> w.head, tail |-> w.tail, count |-> w.count,
                next |-> w.next, prev |-> w.prev]
    BY <2>1
  <2>3. w \in Memory
    BY <2>0, <2>2
  <2> QED BY <2>0, <2>2, <2>3, <1>2 DEF Appended
<1> QED BY <1>1, <1>2

\* Appending a node that is not on the list.
LEMMA AppendKeepsList ==
  ASSUME NEW m \in Memory, NEW l \in Lists, NEW n \in Nodes, NEW s \in Seq(Nodes),
         Represents(m, l, s), n \notin Elems(s),
         NEW w, w = AppendNode(m, l, n)
  PROVE  Represents(w, l, Append(s, n))
<1> DEFINE t == Append(s, n)
<1>1. Appended(m, l, n, w)
  BY AppendFields
<1>2. /\ NoRepeat(s) /\ m.count[l] = Len(s)
      /\ m.head[l] = IF s = <<>> THEN NULL ELSE s[1]
      /\ m.tail[l] = IF s = <<>> THEN NULL ELSE s[Len(s)]
      /\ \A i \in 1..Len(s) :
           /\ m.next[s[i]] = IF i = Len(s) THEN NULL ELSE s[i + 1]
           /\ m.prev[s[i]] = IF i = 1 THEN NULL ELSE s[i - 1]
  BY DEF Represents
<1>3. /\ t \in Seq(Nodes) /\ Len(t) = Len(s) + 1 /\ t[Len(t)] = n /\ Len(s) \in Nat
      /\ \A k \in 1..Len(s) : t[k] = s[k]
  OBVIOUS
<1>4. NoRepeat(t)
  BY <1>2, <1>3, AppendedProperties
<1>5. \A i \in 1..Len(s) : s[i] \in Nodes /\ s[i] # NULL /\ s[i] # n
  BY NodesAreNotNULL DEF Elems
<1>6. s = <<>> <=> Len(s) = 0
  OBVIOUS
<1>7. m.tail[l] = NULL <=> Len(s) = 0
  BY <1>2, <1>3, <1>5, <1>6
<1>8. /\ w.count[l] = Len(t)
      /\ w.head[l] = t[1]
      /\ w.tail[l] = t[Len(t)]
  BY <1>1, <1>2, <1>3, <1>6, <1>7 DEF Appended, Memory
<1>9. ASSUME NEW i \in 1..Len(t)
      PROVE  /\ w.next[t[i]] = IF i = Len(t) THEN NULL ELSE t[i + 1]
             /\ w.prev[t[i]] = IF i = 1 THEN NULL ELSE t[i - 1]
  <2>1. CASE i = Len(t)
    <3>1. t[i] = n /\ n # m.tail[l]
      BY <2>1, <1>2, <1>3, <1>5, <1>6, ListsAssumption
    <3>2. w.next[t[i]] = NULL
      BY <3>1, <1>1 DEF Appended
    <3>3. w.prev[t[i]] = m.tail[l]
      BY <3>1, <1>1 DEF Appended, Memory
    <3>4. m.tail[l] = IF i = 1 THEN NULL ELSE t[i - 1]
      BY <2>1, <1>2, <1>3, <1>6
    <3> QED BY <2>1, <3>2, <3>3, <3>4
  <2>2. CASE i # Len(t)
    <3>1. i \in 1..Len(s) /\ t[i] = s[i] /\ s[i] \in Nodes /\ s[i] # n
      BY <2>2, <1>3, <1>5
    <3>2. w.prev[t[i]] = m.prev[s[i]]
      BY <3>1, <1>1 DEF Appended, Memory
    <3>3. m.prev[s[i]] = IF i = 1 THEN NULL ELSE t[i - 1]
      BY <3>1, <1>2, <1>3
    <3>4. w.next[t[i]] = t[i + 1]
      <4>1. CASE i = Len(s)
        <5>1. s[i] = m.tail[l] /\ t[i + 1] = n
          BY <4>1, <3>1, <1>2, <1>3, <1>6
        <5> QED BY <5>1, <3>1, <1>1 DEF Appended
      <4>2. CASE i # Len(s)
        <5>1. s[i] # m.tail[l]
          BY <4>2, <3>1, <1>2, <1>3, <1>6 DEF NoRepeat
        <5>2. w.next[t[i]] = m.next[s[i]] /\ m.next[s[i]] = s[i + 1]
          BY <4>2, <5>1, <3>1, <1>1, <1>2 DEF Appended
        <5>3. t[i + 1] = s[i + 1]
          BY <4>2, <3>1, <1>3
        <5> QED BY <5>2, <5>3
      <4> QED BY <4>1, <4>2
    <3> QED BY <2>2, <3>2, <3>3, <3>4
  <2> QED BY <2>1, <2>2
<1>10. t # <<>>
  BY <1>3
<1> HIDE DEF t
<1>11. Represents(w, l, t)
  BY <1>4, <1>8, <1>9, <1>10 DEF Represents
<1> QED BY <1>11 DEF t

\* A list that has neither the node nor a node of the list it is appended to.
LEMMA AppendKeepsOthers ==
  ASSUME NEW m \in Memory, NEW l \in Lists, NEW n \in Nodes, NEW s \in Seq(Nodes),
         Represents(m, l, s),
         NEW w, w = AppendNode(m, l, n),
         NEW k \in Lists, k # l, NEW t \in Seq(Nodes), Represents(m, k, t),
         n \notin Elems(t), Elems(s) \cap Elems(t) = {}
  PROVE  Represents(w, k, t)
<1>1. Appended(m, l, n, w)
  BY AppendFields
<1>2. m.tail[l] = NULL \/ m.tail[l] \in Elems(s)
  BY DEF Represents, Elems
<1>3. \A i \in 1..Len(t) : t[i] \in Nodes /\ t[i] # n /\ t[i] # m.tail[l]
  BY <1>2, NodesAreNotNULL DEF Elems
<1>4. \A i \in 1..Len(t) : w.next[t[i]] = m.next[t[i]] /\ w.prev[t[i]] = m.prev[t[i]]
  BY <1>1, <1>3 DEF Appended, Memory
<1>5. w.count[k] = m.count[k] /\ w.head[k] = m.head[k] /\ w.tail[k] = m.tail[k]
  BY <1>1 DEF Appended, Memory
<1> QED BY <1>4, <1>5 DEF Represents

-----------------------------------------------------------------------------
(***************************************************************************)
(* Unlinking.                                                              *)
(***************************************************************************)

\* dllistDeleteNode in one: the neighbours of n, or head and tail, meet.
Unlinked(m, l, n, w) ==
  /\ w \in Memory
  /\ \A k \in Lists : k # l =>
       w.tail[k] = m.tail[k] /\ w.head[k] = m.head[k] /\ w.count[k] = m.count[k]
  /\ w.count[l] = m.count[l] - 1
  /\ w.head[l] = IF n = m.head[l] THEN m.next[n] ELSE m.head[l]
  /\ w.tail[l] = IF n = m.tail[l] THEN m.prev[n] ELSE m.tail[l]
  /\ \A p \in Nodes \ {n} :
       /\ w.next[p] = IF p = m.prev[n] THEN m.next[n] ELSE m.next[p]
       /\ w.prev[p] = IF p = m.next[n] THEN m.prev[n] ELSE m.prev[p]

\* The four cases of dllistDeleteNode come to the same, for a node whose pointers
\* are NULL exactly at the ends of the list.
LEMMA UnlinkFields ==
  ASSUME NEW m \in Memory, NEW l \in Lists, NEW n \in Nodes,
         m.count[l] # 0,
         n = m.head[l] <=> m.prev[n] = NULL,
         n = m.tail[l] <=> m.next[n] = NULL,
         m.prev[n] # n, m.next[n] # n
  PROVE  Unlinked(m, l, n, DeleteNode(m, l, n))
<1> DEFINE w == DeleteNode(m, l, n)
<1> USE DEF Memory, Ptr
<1>0. m.count[l] - 1 \in Nat
  OBVIOUS
<1>1. CASE n = m.head[l] /\ m.next[n] = NULL
  <2>1. w = UnlinkOnly(m, l, n)
    BY <1>1 DEF DeleteNode
  <2>2. /\ w.head = [m.head EXCEPT ![l] = NULL]
        /\ w.tail = [m.tail EXCEPT ![l] = NULL]
        /\ w.count = [m.count EXCEPT ![l] = m.count[l] - 1]
        /\ w.next = [m.next EXCEPT ![n] = NULL]
        /\ w.prev = m.prev
        /\ w = [head |-> w.head, tail |-> w.tail, count |-> w.count,
                next |-> w.next, prev |-> w.prev]
    BY <2>1 DEF UnlinkOnly
  <2>3. w \in Memory
    BY <2>2, <1>0
  <2> QED BY <2>2, <2>3, <1>1, ListsAssumption DEF Unlinked
<1>2. CASE n = m.head[l] /\ m.next[n] # NULL
  <2>0. m.next[n] \in Nodes
    BY <1>2
  <2>1. w = UnlinkHead(m, l, n)
    BY <1>2 DEF DeleteNode
  <2>2. /\ w.head = [m.head EXCEPT ![l] = m.next[n]]
        /\ w.tail = m.tail
        /\ w.count = [m.count EXCEPT ![l] = m.count[l] - 1]
        /\ w.next = [m.next EXCEPT ![n] = NULL]
        /\ w.prev = [m.prev EXCEPT ![m.next[n]] = NULL]
        /\ w = [head |-> w.head, tail |-> w.tail, count |-> w.count,
                next |-> w.next, prev |-> w.prev]
    BY <2>1 DEF UnlinkHead
  <2>3. w \in Memory
    BY <2>0, <2>2, <1>0
  <2> QED BY <2>0, <2>2, <2>3, <1>2, ListsAssumption DEF Unlinked
<1>3. CASE n # m.head[l] /\ n = m.tail[l]
  <2>0. m.prev[n] \in Nodes
    BY <1>3
  <2>1. w = UnlinkTail(m, l, n)
    BY <1>3 DEF DeleteNode
  <2>2. /\ w.head = m.head
        /\ w.tail = [m.tail EXCEPT ![l] = m.prev[n]]
        /\ w.count = [m.count EXCEPT ![l] = m.count[l] - 1]
        /\ w.next = [m.next EXCEPT ![m.prev[n]] = NULL]
        /\ w.prev = [m.prev EXCEPT ![n] = NULL]
        /\ w = [head |-> w.head, tail |-> w.tail, count |-> w.count,
                next |-> w.next, prev |-> w.prev]
    BY <2>1 DEF UnlinkTail
  <2>3. w \in Memory
    BY <2>0, <2>2, <1>0
  <2> QED BY <2>0, <2>2, <2>3, <1>3, ListsAssumption DEF Unlinked
<1>4. CASE n # m.head[l] /\ n # m.tail[l]
  <2>0. m.prev[n] \in Nodes /\ m.next[n] \in Nodes
    BY <1>4
  <2>1. w = UnlinkMiddle(m, l, n)
    BY <1>4 DEF DeleteNode
  <2>2. /\ w.head = m.head
        /\ w.tail = m.tail
        /\ w.count = [m.count EXCEPT ![l] = m.count[l] - 1]
        /\ w.next = [m.next EXCEPT ![m.prev[n]] = m.next[n], ![n] = NULL]
        /\ w.prev = [m.prev EXCEPT ![m.next[n]] = m.prev[n], ![n] = NULL]
        /\ w = [head |-> w.head, tail |-> w.tail, count |-> w.count,
                next |-> w.next, prev |-> w.prev]
    BY <2>1 DEF UnlinkMiddle
  <2>3. w \in Memory
    BY <2>0, <2>2, <1>0
  <2> QED BY <2>0, <2>2, <2>3, <1>4 DEF Unlinked
<1> QED BY <1>1, <1>2, <1>3, <1>4

\* Node n is the i-th of s, with the pointers that go with it.
IsAt(m, s, n, i) ==
  /\ s[i] = n /\ n \in Nodes
  /\ \A j \in 1..Len(s) : j # i => s[j] # n
  /\ m.prev[n] = IF i = 1 THEN NULL ELSE s[i - 1]
  /\ m.next[n] = IF i = Len(s) THEN NULL ELSE s[i + 1]
  /\ Without(s, n) = [j \in 1..(Len(s) - 1) |-> IF j < i THEN s[j] ELSE s[j + 1]]

\* A node of a list is somewhere on it.
LEMMA NodeOnList ==
  ASSUME NEW m \in Memory, NEW l \in Lists, NEW s \in Seq(Nodes),
         NEW n \in Elems(s), Represents(m, l, s)
  PROVE  \E i \in 1..Len(s) : IsAt(m, s, n, i)
<1>1. PICK i \in 1..Len(s) :
        /\ s[i] = n
        /\ Without(s, n) = [j \in 1..(Len(s) - 1) |-> IF j < i THEN s[j] ELSE s[j + 1]]
  BY DEF Without, Elems
<1>2. \A j \in 1..Len(s) : j # i => s[j] # n
  BY <1>1 DEF Represents, NoRepeat
<1>3. /\ m.next[s[i]] = IF i = Len(s) THEN NULL ELSE s[i + 1]
      /\ m.prev[s[i]] = IF i = 1 THEN NULL ELSE s[i - 1]
  BY <1>1 DEF Represents
<1>4. n \in Nodes
  BY <1>1
<1> WITNESS i \in 1..Len(s)
<1> QED BY <1>1, <1>2, <1>3, <1>4 DEF IsAt

\* A node of a list that the memory represents is unlinked as Unlinked says.
LEMMA UnlinkIsUnlinked ==
  ASSUME NEW m \in Memory, NEW l \in Lists, NEW s \in Seq(Nodes),
         NEW n \in Elems(s), Represents(m, l, s)
  PROVE  n \in Nodes /\ Unlinked(m, l, n, DeleteNode(m, l, n))
<1>1. PICK i \in 1..Len(s) : IsAt(m, s, n, i)
  BY NodeOnList
<1>2. \A j \in 1..Len(s) : s[j] \in Nodes /\ s[j] # NULL
  BY NodesAreNotNULL
<1>3. Len(s) \in Nat \ {0} /\ s # <<>>
  BY <1>1 DEF IsAt
<1>4. m.count[l] = Len(s) /\ m.head[l] = s[1] /\ m.tail[l] = s[Len(s)]
  BY <1>3 DEF Represents
<1>5. n = m.head[l] <=> m.prev[n] = NULL
  BY <1>1, <1>2, <1>3, <1>4 DEF IsAt
<1>6. n = m.tail[l] <=> m.next[n] = NULL
  BY <1>1, <1>2, <1>3, <1>4 DEF IsAt
<1>7. m.prev[n] # n /\ m.next[n] # n
  BY <1>1, <1>3, ListsAssumption DEF IsAt
<1>8. m.count[l] # 0 /\ n \in Nodes
  BY <1>1, <1>3, <1>4 DEF IsAt
<1> QED BY <1>5, <1>6, <1>7, <1>8, UnlinkFields

\* Unlinking a node of the list.
LEMMA UnlinkKeepsList ==
  ASSUME NEW m \in Memory, NEW l \in Lists, NEW s \in Seq(Nodes),
         NEW n \in Elems(s), Represents(m, l, s)
  PROVE  Represents(DeleteNode(m, l, n), l, Without(s, n))
<1> DEFINE w == DeleteNode(m, l, n)
           t == Without(s, n)
<1>1. PICK i \in 1..Len(s) : IsAt(m, s, n, i)
  BY NodeOnList
<1>2. Unlinked(m, l, n, w)
  BY UnlinkIsUnlinked
<1>3. /\ m.count[l] = Len(s) /\ Len(s) \in Nat \ {0}
      /\ m.head[l] = s[1] /\ m.tail[l] = s[Len(s)]
      /\ \A j \in 1..Len(s) : /\ m.next[s[j]] = IF j = Len(s) THEN NULL ELSE s[j + 1]
                              /\ m.prev[s[j]] = IF j = 1 THEN NULL ELSE s[j - 1]
  BY <1>1 DEF IsAt, Represents
<1>4. NoRepeat(s)
  BY DEF Represents
<1>5. t \in Seq(Nodes) /\ Len(t) = Len(s) - 1 /\ NoRepeat(t)
  BY <1>4, WithoutProperties
<1>6. \A k \in 1..Len(t) : t[k] = IF k < i THEN s[k] ELSE s[k + 1]
  BY <1>1, <1>5 DEF IsAt
<1>7. t = <<>> <=> Len(s) = 1
  BY <1>3, <1>5
<1>8. \A j \in 1..Len(s) : s[j] \in Nodes /\ s[j] # NULL
  BY NodesAreNotNULL
<1> HIDE DEF t, w
<1>9. w.count[l] = Len(t)
  BY <1>2, <1>3, <1>5 DEF Unlinked
<1>10. w.head[l] = IF t = <<>> THEN NULL ELSE t[1]
  <2>1. CASE i = 1
    <3>1. w.head[l] = IF Len(s) = 1 THEN NULL ELSE s[2]
      BY <2>1, <1>1, <1>2, <1>3 DEF IsAt, Unlinked
    <3>2. Len(s) # 1 => t[1] = s[2]
      BY <2>1, <1>3, <1>5, <1>6
    <3> QED BY <3>1, <3>2, <1>7
  <2>2. CASE i # 1
    <3>1. w.head[l] = s[1] /\ Len(s) # 1
      BY <2>2, <1>1, <1>2, <1>3 DEF IsAt, Unlinked
    <3>2. t[1] = s[1]
      BY <2>2, <3>1, <1>3, <1>5, <1>6
    <3> QED BY <3>1, <3>2, <1>7
  <2> QED BY <2>1, <2>2
<1>11. w.tail[l] = IF t = <<>> THEN NULL ELSE t[Len(t)]
  <2>1. CASE i = Len(s)
    <3>1. w.tail[l] = IF Len(s) = 1 THEN NULL ELSE s[Len(s) - 1]
      BY <2>1, <1>1, <1>2, <1>3 DEF IsAt, Unlinked
    <3>2. Len(s) # 1 => t[Len(t)] = s[Len(s) - 1]
      BY <2>1, <1>3, <1>5, <1>6
    <3> QED BY <3>1, <3>2, <1>7
  <2>2. CASE i # Len(s)
    <3>1. w.tail[l] = s[Len(s)] /\ Len(s) # 1
      BY <2>2, <1>1, <1>2, <1>3 DEF IsAt, Unlinked
    <3>2. t[Len(t)] = s[Len(s)]
      BY <2>2, <3>1, <1>3, <1>5, <1>6
    <3> QED BY <3>1, <3>2, <1>7
  <2> QED BY <2>1, <2>2
<1>12. ASSUME NEW k \in 1..Len(t)
       PROVE  /\ w.next[t[k]] = IF k = Len(t) THEN NULL ELSE t[k + 1]
              /\ w.prev[t[k]] = IF k = 1 THEN NULL ELSE t[k - 1]
  <2> DEFINE j == IF k < i THEN k ELSE k + 1
  <2>1. j \in 1..Len(s) /\ j # i /\ t[k] = s[j] /\ s[j] \in Nodes \ {n}
    BY <1>1, <1>3, <1>5, <1>6, <1>8 DEF IsAt
  <2>2. s[j] = m.prev[n] <=> j = i - 1
    BY <2>1, <1>1, <1>3, <1>4, <1>8 DEF IsAt, NoRepeat
  <2>3. s[j] = m.next[n] <=> j = i + 1
    BY <2>1, <1>1, <1>3, <1>4, <1>8 DEF IsAt, NoRepeat
  <2>4. /\ w.next[s[j]] = IF j = i - 1 THEN m.next[n] ELSE m.next[s[j]]
        /\ w.prev[s[j]] = IF j = i + 1 THEN m.prev[n] ELSE m.prev[s[j]]
    BY <2>1, <2>2, <2>3, <1>2 DEF Unlinked
  <2>5. /\ m.next[s[j]] = IF j = Len(s) THEN NULL ELSE s[j + 1]
        /\ m.prev[s[j]] = IF j = 1 THEN NULL ELSE s[j - 1]
    BY <2>1, <1>3
  <2>6. k # Len(t) => t[k + 1] = IF k + 1 < i THEN s[k + 1] ELSE s[k + 2]
    <3>1. k # Len(t) => k + 1 \in 1..Len(t) /\ (k + 1) + 1 = k + 2
      BY <1>3, <1>5
    <3> QED BY <3>1, <1>6
  <2>7. k # 1 => t[k - 1] = IF k - 1 < i THEN s[k - 1] ELSE s[k]
    BY <1>3, <1>5, <1>6
  <2>8. CASE k < i
    BY <2>8, <2>1, <2>4, <2>5, <2>6, <2>7, <1>1, <1>3, <1>5 DEF IsAt
  <2>9. CASE k >= i
    BY <2>9, <2>1, <2>4, <2>5, <2>6, <2>7, <1>1, <1>3, <1>5 DEF IsAt
  <2> QED BY <2>8, <2>9, <1>1, <1>3, <1>5 DEF IsAt
<1>13. Represents(w, l, t)
  BY <1>5, <1>9, <1>10, <1>11, <1>12 DEF Represents
<1> QED BY <1>13 DEF t, w

\* A list that shares no node with it.
LEMMA UnlinkKeepsOthers ==
  ASSUME NEW m \in Memory, NEW l \in Lists, NEW s \in Seq(Nodes),
         NEW n \in Elems(s), Represents(m, l, s),
         NEW k \in Lists, k # l, NEW t \in Seq(Nodes), Represents(m, k, t),
         Elems(s) \cap Elems(t) = {}
  PROVE  Represents(DeleteNode(m, l, n), k, t)
<1> DEFINE w == DeleteNode(m, l, n)
<1>1. PICK i \in 1..Len(s) : IsAt(m, s, n, i)
  BY NodeOnList
<1>2. Unlinked(m, l, n, w)
  BY UnlinkIsUnlinked
<1>3. m.prev[n] \in Elems(s) \cup {NULL} /\ m.next[n] \in Elems(s) \cup {NULL}
  BY <1>1 DEF IsAt, Elems
<1>4. \A j \in 1..Len(t) : t[j] \in Nodes \ {n} /\ t[j] # m.prev[n] /\ t[j] # m.next[n]
  BY <1>3, NodesAreNotNULL DEF Elems
<1>5. \A j \in 1..Len(t) : w.next[t[j]] = m.next[t[j]] /\ w.prev[t[j]] = m.prev[t[j]]
  BY <1>2, <1>4 DEF Unlinked
<1>6. w.count[k] = m.count[k] /\ w.head[k] = m.head[k] /\ w.tail[k] = m.tail[k]
  BY <1>2 DEF Unlinked
<1> HIDE DEF w
<1>7. Represents(w, k, t)
  BY <1>5, <1>6 DEF Represents
<1> QED BY <1>7 DEF w

-----------------------------------------------------------------------------
(***************************************************************************)
(* All lists together.                                                     *)
(***************************************************************************)

\* The memory holds the sequences of o, which share no node.
Linked(m, o) ==
  /\ m \in Memory /\ o \in [Lists -> Seq(Nodes)]
  /\ \A l \in Lists : Represents(m, l, o[l])
  /\ \A l, k \in Lists : l # k => Elems(o[l]) \cap Elems(o[k]) = {}

\* Node n is on one of the lists.
IsOn(o, n) == \E l \in Lists : n \in Elems(o[l])

\* Node n is put at the end of list l, or taken off it; the others stay.
PutOn(o, l, n, p) == p = [o EXCEPT ![l] = Append(o[l], n)]
TakenOff(o, l, n, p) == p = [o EXCEPT ![l] = Without(o[l], n)]

\* And what is on the lists then.
Gains(o, n, p) == \A q \in Nodes : IsOn(p, q) <=> IsOn(o, q) \/ q = n
Loses(o, n, p) == \A q \in Nodes : IsOn(p, q) <=> IsOn(o, q) /\ q # n

\* Appending keeps the lists linked and adds the node to what is on them.
LEMMA AppendStep ==
  ASSUME NEW m, NEW o, Linked(m, o), NEW l \in Lists, NEW n \in Nodes, ~IsOn(o, n),
         NEW p, PutOn(o, l, n, p)
  PROVE  Linked(AppendNode(m, l, n), p) /\ Gains(o, n, p)
<1> DEFINE w == AppendNode(m, l, n)
<1>1. /\ m \in Memory /\ o \in [Lists -> Seq(Nodes)]
      /\ \A k \in Lists : Represents(m, k, o[k]) /\ o[k] \in Seq(Nodes) /\ n \notin Elems(o[k])
      /\ \A j, k \in Lists : j # k => Elems(o[j]) \cap Elems(o[k]) = {}
  BY DEF Linked, IsOn
<1>2. w \in Memory
  BY <1>1, AppendFields DEF Appended
<1>3. /\ p \in [Lists -> Seq(Nodes)]
      /\ p[l] = Append(o[l], n)
      /\ \A k \in Lists : k # l => p[k] = o[k]
  BY <1>1 DEF PutOn
<1>4. Represents(w, l, p[l])
  BY <1>1, <1>3, AppendKeepsList
<1>5. ASSUME NEW k \in Lists, k # l
      PROVE  Represents(w, k, p[k])
  <2>1. Elems(o[l]) \cap Elems(o[k]) = {}
    BY <1>1, <1>5
  <2> QED BY <2>1, <1>1, <1>3, <1>5, AppendKeepsOthers
<1>6. Elems(p[l]) = Elems(o[l]) \cup {n}
  <2> DEFINE s == o[l]
             t == p[l]
  <2>1. s \in Seq(Nodes) /\ n \notin Elems(s)
    BY <1>1
  <2>2. t \in Seq(Nodes) /\ Len(t) = Len(s) + 1 /\ t[Len(t)] = n /\ \A k \in 1..Len(s) : t[k] = s[k]
    BY <1>1, <1>3
  <2>3. NoRepeat(s)
    BY <1>1 DEF Represents
  <2> HIDE DEF s, t
  <2>4. Elems(t) = Elems(s) \cup {n}
    BY <2>1, <2>2, <2>3, AppendedProperties
  <2> QED BY <2>4 DEF s, t
<1>7. ASSUME NEW j \in Lists, NEW k \in Lists, j # k
      PROVE  Elems(p[j]) \cap Elems(p[k]) = {}
  <2>1. /\ Elems(o[j]) \cap Elems(o[k]) = {}
        /\ n \notin Elems(o[j]) /\ n \notin Elems(o[k])
    BY <1>1, <1>7
  <2>2. CASE j = l
    BY <2>1, <2>2, <1>3, <1>6, <1>7
  <2>3. CASE k = l
    BY <2>1, <2>3, <1>3, <1>6, <1>7
  <2>4. CASE j # l /\ k # l
    BY <2>1, <2>4, <1>3
  <2> QED BY <2>2, <2>3, <2>4
<1>8. Gains(o, n, p)
  BY <1>3, <1>6 DEF IsOn, Gains
<1> QED BY <1>2, <1>3, <1>4, <1>5, <1>7, <1>8 DEF Linked

\* Unlinking does so too, and takes the node off.
LEMMA UnlinkStep ==
  ASSUME NEW m, NEW o, Linked(m, o), NEW l \in Lists, NEW n \in Nodes, n \in Elems(o[l]),
         NEW p, TakenOff(o, l, n, p)
  PROVE  Linked(DeleteNode(m, l, n), p) /\ Loses(o, n, p)
<1> DEFINE w == DeleteNode(m, l, n)
<1>1. /\ m \in Memory /\ o \in [Lists -> Seq(Nodes)]
      /\ \A k \in Lists : Represents(m, k, o[k]) /\ o[k] \in Seq(Nodes)
      /\ \A j, k \in Lists : j # k => Elems(o[j]) \cap Elems(o[k]) = {}
  BY DEF Linked
<1>2. w \in Memory
  BY <1>1, UnlinkIsUnlinked DEF Unlinked
<1>3. NoRepeat(o[l])
  BY <1>1 DEF Represents
<1>4. /\ Without(o[l], n) \in Seq(Nodes)
      /\ Elems(Without(o[l], n)) = Elems(o[l]) \ {n}
  BY <1>1, <1>3, WithoutProperties
<1>5. /\ p \in [Lists -> Seq(Nodes)]
      /\ p[l] = Without(o[l], n)
      /\ \A k \in Lists : k # l => p[k] = o[k]
  BY <1>1, <1>4 DEF TakenOff
<1>6. Represents(w, l, p[l])
  BY <1>1, <1>5, UnlinkKeepsList
<1>7. ASSUME NEW k \in Lists, k # l
      PROVE  Represents(w, k, p[k])
  <2>1. Elems(o[l]) \cap Elems(o[k]) = {}
    BY <1>1, <1>7
  <2> QED BY <2>1, <1>1, <1>5, <1>7, UnlinkKeepsOthers
<1>8. \A j, k \in Lists : j # k => Elems(p[j]) \cap Elems(p[k]) = {}
  BY <1>1, <1>4, <1>5
<1>9. Loses(o, n, p)
  BY <1>1, <1>4, <1>5 DEF IsOn, Loses
<1> QED BY <1>2, <1>5, <1>6, <1>7, <1>8, <1>9 DEF Linked

\* The head is unlinked by taking the tail.
LEMMA TailIsWithout ==
  ASSUME NEW s \in Seq(Nodes), NoRepeat(s), s # <<>>
  PROVE  s[1] \in Elems(s) /\ Tail(s) = Without(s, s[1])
<1>1. Len(s) \in Nat \ {0}
  OBVIOUS
<1>2. PICK i \in 1..Len(s) :
        /\ s[i] = s[1]
        /\ Without(s, s[1]) = [j \in 1..(Len(s) - 1) |-> IF j < i THEN s[j] ELSE s[j + 1]]
  <2>1. 1 \in 1..Len(s)
    BY <1>1
  <2> QED BY <2>1 DEF Without
<1>3. i = 1
  BY <1>1, <1>2 DEF NoRepeat
<1>4. \A j \in 1..(Len(s) - 1) : Without(s, s[1])[j] = s[j + 1]
  BY <1>1, <1>2, <1>3
<1>5. s[1] \in Elems(s)
  BY <1>1 DEF Elems
<1>6. Without(s, s[1]) \in Seq(Nodes) /\ Len(Without(s, s[1])) = Len(s) - 1
  BY <1>5, WithoutProperties
<1>7. /\ Tail(s) \in Seq(Nodes) /\ Len(Tail(s)) = Len(s) - 1
      /\ \A j \in 1..(Len(s) - 1) : Tail(s)[j] = s[j + 1]
  BY <1>1
<1>8. Tail(s) = Without(s, s[1])
  BY <1>4, <1>6, <1>7, SeqEqual
<1> QED BY <1>5, <1>8

-----------------------------------------------------------------------------
(***************************************************************************)
(* The invariant.                                                          *)
(***************************************************************************)

\* What is on the lists is allocated, and data and nodes point at each other.
IInv == TypeOK /\ Linked(mem, order) /\ (\A n \in Nodes : n \in alloc <=> IsOn(order, n)) /\ BothPoint

\* It holds of empty lists,
LEMMA InitInv == Init => IInv
<1> SUFFICES ASSUME Init PROVE IInv
  OBVIOUS
<1> USE DEF Init, Ptr
<1>1. mem \in Memory /\ order \in [Lists -> Seq(Nodes)]
  BY DEF Memory
<1>2. \A l \in Lists : Represents(mem, l, order[l])
  BY DEF Represents, NoRepeat
<1>3. \A l \in Lists : Elems(order[l]) = {}
  BY DEF Elems
<1>4. TypeOK
  BY <1>1 DEF TypeOK
<1>5. Linked(mem, order)
  BY <1>1, <1>2, <1>3 DEF Linked
<1>6. BothPoint
  BY ListsAssumption DEF BothPoint
<1>7. \A n \in Nodes : n \in alloc <=> IsOn(order, n)
  BY <1>3 DEF IsOn
<1> QED BY <1>4, <1>5, <1>6, <1>7 DEF IInv

\* dllistAppend.
LEMMA AppendInv ==
  ASSUME IInv, NEW l \in Lists, NEW d \in Data, NEW n \in Nodes, Append_(l, d, n)
  PROVE  IInv'
<1>1. /\ node[d] = NULL /\ n \notin alloc
      /\ alloc' = alloc \cup {n}
      /\ data' = [data EXCEPT ![n] = d]
      /\ node' = [node EXCEPT ![d] = n]
      /\ mem' = AppendNode(mem, l, n)
      /\ order' = [order EXCEPT ![l] = Append(order[l], n)]
  BY DEF Append_
<1>2. /\ data \in [Nodes -> Data \cup {NULL}] /\ node \in [Data -> Ptr]
      /\ alloc \in SUBSET Nodes
      /\ Linked(mem, order) /\ ~IsOn(order, n)
  BY <1>1 DEF IInv, TypeOK
<1>3. Linked(mem', order') /\ Gains(order, n, order')
  <2>1. PutOn(order, l, n, order')
    BY <1>1 DEF PutOn
  <2>2. /\ Linked(AppendNode(mem, l, n), order')
        /\ Gains(order, n, order')
    BY <2>1, <1>2, AppendStep, Zenon
  <2> QED BY <2>2, <1>1, Zenon
<1>4. /\ data' \in [Nodes -> Data \cup {NULL}] /\ node' \in [Data -> Ptr]
      /\ alloc' \in SUBSET Nodes
  BY <1>1, <1>2 DEF Ptr
<1>5. TypeOK'
  BY <1>3, <1>4 DEF TypeOK, Linked
<1>6. \A q \in Nodes : q \in alloc' <=> IsOn(order', q)
  BY <1>1, <1>3 DEF IInv, Gains
<1>7. BothPoint'
  <2>1. data[n] = NULL
    BY <1>1 DEF IInv, BothPoint
  <2> QED BY <2>1, <1>1, <1>2, ListsAssumption DEF IInv, BothPoint, Ptr
<1> QED BY <1>3, <1>5, <1>6, <1>7 DEF IInv

\* dllistDelete, a second time too.
LEMMA DeleteInv ==
  ASSUME IInv, NEW l \in Lists, NEW d \in Data, Delete(l, d)
  PROVE  IInv'
<1>1. CASE node[d] = NULL
  BY <1>1 DEF Delete, vars, IInv, TypeOK, BothPoint
<1>2. CASE node[d] # NULL
  <2> DEFINE n == node[d]
  <2>1. /\ n \in Elems(order[l])
        /\ alloc' = alloc \ {n}
        /\ data' = [data EXCEPT ![n] = NULL]
        /\ node' = [node EXCEPT ![d] = NULL]
        /\ mem' = DeleteNode(mem, l, n)
        /\ order' = [order EXCEPT ![l] = Without(order[l], n)]
    BY <1>2 DEF Delete
  <2>2. /\ data \in [Nodes -> Data \cup {NULL}] /\ node \in [Data -> Ptr]
        /\ alloc \in SUBSET Nodes /\ n \in Nodes
        /\ Linked(mem, order)
    BY <1>2 DEF IInv, TypeOK, Ptr
  <2>3. Linked(mem', order') /\ Loses(order, n, order')
    <3>1. TakenOff(order, l, n, order')
      BY <2>1 DEF TakenOff
    <3> HIDE DEF n
    <3>2. /\ Linked(DeleteNode(mem, l, n), order')
          /\ Loses(order, n, order')
      BY <3>1, <2>1, <2>2, UnlinkStep, Zenon
    <3> QED BY <3>2, <2>1, Zenon
  <2>4. /\ data' \in [Nodes -> Data \cup {NULL}] /\ node' \in [Data -> Ptr]
        /\ alloc' \in SUBSET Nodes
    BY <2>1, <2>2 DEF Ptr
  <2>5. TypeOK'
    BY <2>3, <2>4 DEF TypeOK, Linked
  <2>6. \A q \in Nodes : q \in alloc' <=> IsOn(order', q)
    BY <2>1, <2>3 DEF IInv, Loses
  <2>7. BothPoint'
    <3>1. data[n] = d
      BY <2>2 DEF IInv, BothPoint
    <3> QED BY <3>1, <2>1, <2>2, ListsAssumption DEF IInv, BothPoint, Ptr
  <2> QED BY <2>3, <2>5, <2>6, <2>7 DEF IInv
<1> QED BY <1>1, <1>2

\* dllistMvNode.
LEMMA MvInv ==
  ASSUME IInv, NEW a \in Lists, NEW n \in Nodes, NEW b \in Lists, MvNode(a, n, b)
  PROVE  IInv'
<1> DEFINE o == [order EXCEPT ![a] = Without(order[a], n)]
           m == DeleteNode(mem, a, n)
<1>1. /\ a # b /\ n \in Elems(order[a])
      /\ mem' = AppendNode(m, b, n)
      /\ order' = [order EXCEPT ![a] = Without(@, n), ![b] = Append(@, n)]
      /\ UNCHANGED <<data, node, alloc>>
  BY DEF MvNode
<1>2. Linked(mem, order) /\ order \in [Lists -> Seq(Nodes)]
  BY DEF IInv, Linked
<1>3. Linked(m, o) /\ Loses(order, n, o)
  <2>1. TakenOff(order, a, n, o)
    BY DEF TakenOff
  <2> QED BY <2>1, <1>1, <1>2, UnlinkStep, Zenon
<1>4. PutOn(o, b, n, order')
  BY <1>1, <1>2 DEF PutOn
<1> HIDE DEF o, m
<1>5. Linked(mem', order') /\ Gains(o, n, order')
  <2>1. ~IsOn(o, n)
    BY <1>3 DEF Loses
  <2>2. /\ Linked(AppendNode(m, b, n), order')
        /\ Gains(o, n, order')
    BY <2>1, <1>3, <1>4, AppendStep, Zenon
  <2> QED BY <2>2, <1>1, Zenon
<1>6. IsOn(order, n)
  BY <1>1 DEF IsOn
<1>7. TypeOK'
  BY <1>1, <1>5 DEF IInv, TypeOK, Linked
<1>8. \A q \in Nodes : q \in alloc' <=> IsOn(order', q)
  BY <1>1, <1>3, <1>5, <1>6 DEF IInv, Gains, Loses
<1>9. BothPoint'
  BY <1>1 DEF IInv, BothPoint
<1> QED BY <1>5, <1>7, <1>8, <1>9 DEF IInv

\* freeTransports.
LEMMA CutInv ==
  ASSUME IInv, NEW l \in Lists, CutHead(l)
  PROVE  IInv'
<1> DEFINE n == mem.head[l]
<1>1. /\ n # NULL
      /\ alloc' = alloc \ {n}
      /\ data' = [data EXCEPT ![n] = NULL]
      /\ node' = [node EXCEPT ![data[n]] = NULL]
      /\ mem' = DeleteNode(mem, l, n)
      /\ order' = [order EXCEPT ![l] = Tail(order[l])]
  BY DEF CutHead
<1>2. /\ data \in [Nodes -> Data \cup {NULL}] /\ node \in [Data -> Ptr]
      /\ alloc \in SUBSET Nodes
      /\ Linked(mem, order) /\ order[l] \in Seq(Nodes)
      /\ Represents(mem, l, order[l])
  BY DEF IInv, TypeOK, Linked
<1>3. order[l] # <<>> /\ n = order[l][1] /\ NoRepeat(order[l])
  BY <1>1, <1>2 DEF Represents
<1>4. n \in Elems(order[l]) /\ Tail(order[l]) = Without(order[l], n)
  BY <1>2, <1>3, TailIsWithout
<1>5. n \in Nodes
  BY <1>2, <1>3, <1>4 DEF Elems
<1>6. Linked(mem', order') /\ Loses(order, n, order')
  <2>1. TakenOff(order, l, n, order')
    BY <1>1, <1>4 DEF TakenOff
  <2>2. /\ Linked(DeleteNode(mem, l, n), order')
        /\ Loses(order, n, order')
    BY <2>1, <1>2, <1>4, <1>5, UnlinkStep, Zenon
  <2> QED BY <2>2, <1>1, Zenon
<1>7. data[n] \in Data /\ node[data[n]] = n
  <2>1. n \in alloc
    BY <1>4, <1>5 DEF IInv, IsOn
  <2> QED BY <2>1, <1>2, <1>5 DEF IInv, BothPoint
<1>8. /\ data' \in [Nodes -> Data \cup {NULL}] /\ node' \in [Data -> Ptr]
      /\ alloc' \in SUBSET Nodes
  BY <1>1, <1>2, <1>5, <1>7 DEF Ptr
<1>9. TypeOK'
  BY <1>6, <1>8 DEF TypeOK, Linked
<1>10. \A q \in Nodes : q \in alloc' <=> IsOn(order', q)
  BY <1>1, <1>6 DEF IInv, Loses
<1>11. BothPoint'
  <2> DEFINE d == data[n]
  <2>1. /\ d \in Data /\ node[d] = n
        /\ data' = [data EXCEPT ![n] = NULL]
        /\ node' = [node EXCEPT ![d] = NULL]
        /\ alloc' = alloc \ {n}
    BY <1>1, <1>7
  <2>2. BothPoint
    BY DEF IInv
  <2> HIDE DEF n, d
  <2>3. n \in Nodes
    BY <1>5
  <2> QED BY <2>1, <2>2, <2>3, <1>2, ListsAssumption DEF BothPoint, Ptr
<1> QED BY <1>6, <1>9, <1>10, <1>11 DEF IInv

\* every call preserves it,
LEMMA StepInv == IInv /\ [Next]_vars => IInv'
<1> SUFFICES ASSUME IInv, [Next]_vars PROVE IInv'
  OBVIOUS
<1>1. ASSUME NEW l \in Lists, NEW d \in Data, Delete(l, d) PROVE IInv'
  BY <1>1, DeleteInv
<1>2. ASSUME NEW l \in Lists, NEW d \in Data, NEW n \in Nodes, Append_(l, d, n) PROVE IInv'
  BY <1>2, AppendInv
<1>3. ASSUME NEW l \in Lists, NEW n \in Nodes, NEW k \in Lists, MvNode(l, n, k) PROVE IInv'
  BY <1>3, MvInv
<1>4. ASSUME NEW l \in Lists, CutHead(l) PROVE IInv'
  BY <1>4, CutInv
<1>5. ASSUME UNCHANGED vars PROVE IInv'
  BY <1>5 DEF vars, IInv, TypeOK, BothPoint
<1> QED BY <1>1, <1>2, <1>3, <1>4, <1>5 DEF Next

\* and it says what the properties say.
LEMMA InvImplies == IInv => TypeOK /\ WellLinked /\ NoDangling
BY DEF IInv, WellLinked, NoDangling, Linked, IsOn

\* It holds in every reachable state.
LEMMA Invariance == Spec => []IInv
<1>1. Init => IInv
  BY InitInv
<1>2. IInv /\ [Next]_vars => IInv'
  BY StepInv
<1> QED BY <1>1, <1>2, PTL DEF Spec

-----------------------------------------------------------------------------

\* Memory, data and history keep their types in every reachable state.
THEOREM TypeCorrect == Spec => []TypeOK
<1>1. IInv => TypeOK
  BY InvImplies
<1> QED BY <1>1, Invariance, PTL

\* After any calls, head, tail, count and the pointers of every list are those of
\* the sequence that was asked for (dllist.c:10-52).
THEOREM ListsAreWellLinked == Spec => []WellLinked
<1>1. IInv => WellLinked
  BY InvImplies
<1> QED BY <1>1, Invariance, PTL

\* A node is allocated exactly while it is on a list, and on one only, and data and
\* nodes point at each other: no visit comes by freed memory, no node is lost and
\* a second dllistDelete of the same data finds NULL (dllist.c:63-98).
THEOREM NothingDangles == Spec => []NoDangling
<1>1. IInv => NoDangling
  BY InvImplies
<1> QED BY <1>1, Invariance, PTL

=============================================================================
