--------------------------- MODULE ConnPoolProofs ---------------------------
(***************************************************************************)
(* Proofs that the invariants of ConnPool hold for any clients, any        *)
(* maxConn and any counters' limits.                                       *)
(*                                                                         *)
(* The inductive invariant IInv adds to the properties what ties a thread  *)
(* to the connection it works with (Threads, Held) and that nothing is     *)
(* left of the old transport when the new one is made (LoadIsQuiet).       *)
(* With it every step of the pool is a step of LeasedPool or a stutter.    *)
(***************************************************************************)
EXTENDS ConnPool, FiniteSetTheorems, TLAPS

-----------------------------------------------------------------------------
(***************************************************************************)
(* Lists that hold a node once.                                            *)
(***************************************************************************)

\* Unlinking a node that is on the list once: dllistDeleteNode.
LEMMA WithoutProperties ==
  ASSUME NEW S, NEW list \in Seq(S), NEW c,
         NoRepeat(list),
         c \in Elems(list),
         NEW w, w = Without(list, c)
  PROVE  /\ w \in Seq(S)
         /\ Len(w) = Len(list) - 1
         /\ Elems(w) = Elems(list) \ {c}
         /\ NoRepeat(w)
<1>1. PICK i \in 1..Len(list) :
        /\ list[i] = c
        /\ w = [j \in 1..(Len(list) - 1) |-> IF j < i THEN list[j] ELSE list[j + 1]]
  BY DEF Without, Elems
<1>2. Len(list) \in Nat \ {0}
  BY <1>1
<1>3. \A j \in 1..(Len(list) - 1) : w[j] = IF j < i THEN list[j] ELSE list[j + 1]
  BY <1>1
<1>4. w \in Seq(S) /\ Len(w) = Len(list) - 1
  BY <1>1, <1>2
<1>5. {w[k] : k \in 1..Len(w)} = {list[k] : k \in 1..Len(list)} \ {c}
  <2>1. ASSUME NEW k \in 1..Len(w)
        PROVE  w[k] \in {list[m] : m \in 1..Len(list)} \ {c}
    <3>1. CASE k < i
      BY <3>1, <1>1, <1>2, <1>3, <1>4 DEF NoRepeat
    <3>2. CASE k >= i
      <4>1. k + 1 \in 1..Len(list) /\ w[k] = list[k + 1] /\ k + 1 # i
        BY <3>2, <1>1, <1>2, <1>3, <1>4
      <4> QED BY <4>1, <1>1 DEF NoRepeat
    <3> QED BY <3>1, <3>2, <1>1, <1>2, <1>4
  <2>2. ASSUME NEW m \in 1..Len(list), list[m] # c
        PROVE  list[m] \in {w[k] : k \in 1..Len(w)}
    <3>1. CASE m < i
      <4>1. m \in 1..Len(w) /\ w[m] = list[m]
        BY <3>1, <1>1, <1>2, <1>3, <1>4
      <4> QED BY <4>1
    <3>2. CASE m > i
      <4>1. m - 1 \in 1..Len(w) /\ w[m - 1] = list[m]
        BY <3>2, <1>1, <1>2, <1>3, <1>4
      <4> QED BY <4>1
    <3>3. m # i
      BY <1>1, <2>2
    <3> QED BY <3>1, <3>2, <3>3, <1>2
  <2> QED BY <2>1, <2>2
<1>6. ASSUME NEW j \in 1..Len(w), NEW k \in 1..Len(w), w[j] = w[k]
      PROVE  j = k
  BY <1>1, <1>2, <1>3, <1>4, <1>6 DEF NoRepeat
<1> QED BY <1>4, <1>5, <1>6 DEF Elems, NoRepeat

\* Appending a node that is on no list: dllistAppendNode.
LEMMA AppendedProperties ==
  ASSUME NEW S, NEW list \in Seq(S), NEW c \in S,
         NoRepeat(list),
         c \notin Elems(list),
         NEW w \in Seq(S), Len(w) = Len(list) + 1, w[Len(w)] = c,
         \A k \in 1..Len(list) : w[k] = list[k]
  PROVE  /\ Elems(w) = Elems(list) \cup {c}
         /\ NoRepeat(w)
<1>1. Len(list) \in Nat /\ Len(w) = Len(list) + 1 /\ w[Len(list) + 1] = c
  OBVIOUS
<1>2. ASSUME NEW k \in 1..Len(w)
      PROVE  w[k] \in {list[m] : m \in 1..Len(list)} \cup {c}
  BY <1>1
<1>3. ASSUME NEW m \in 1..Len(list)
      PROVE  list[m] \in {w[k] : k \in 1..Len(w)}
  BY <1>1
<1>4. c \in {w[k] : k \in 1..Len(w)}
  BY <1>1
<1>5. {w[k] : k \in 1..Len(w)} = {list[k] : k \in 1..Len(list)} \cup {c}
  BY <1>2, <1>3, <1>4
<1>6. ASSUME NEW j \in 1..Len(w), NEW k \in 1..Len(w), w[j] = w[k]
      PROVE  j = k
  <2>1. \A m \in 1..Len(list) : list[m] # c
    BY DEF Elems
  <2> QED BY <2>1, <1>1, <1>6 DEF NoRepeat
<1> QED BY <1>1, <1>5, <1>6 DEF Elems, NoRepeat

\* Taking the head of the list: dllistDeleteNode on dllist->head.
LEMMA TailProperties ==
  ASSUME NEW S, NEW list \in Seq(S), Len(list) > 0,
         NoRepeat(list),
         NEW w, w = Tail(list)
  PROVE  /\ Head(list) \in Elems(list)
         /\ w \in Seq(S)
         /\ Len(w) = Len(list) - 1
         /\ Elems(w) = Elems(list) \ {Head(list)}
         /\ NoRepeat(w)
<1>1. /\ w \in Seq(S) /\ Len(w) = Len(list) - 1 /\ Len(list) \in Nat \ {0}
      /\ \A k \in 1..Len(w) : w[k] = list[k + 1]
      /\ Head(list) = list[1]
  OBVIOUS
<1>2. ASSUME NEW k \in 1..Len(w)
      PROVE  w[k] \in {list[m] : m \in 1..Len(list)} \ {Head(list)}
  <2>1. k + 1 \in 1..Len(list) /\ w[k] = list[k + 1] /\ k + 1 # 1
    BY <1>1
  <2> QED BY <2>1, <1>1 DEF NoRepeat
<1>3. ASSUME NEW m \in 1..Len(list), list[m] # Head(list)
      PROVE  list[m] \in {w[k] : k \in 1..Len(w)}
  <2>1. m # 1
    BY <1>1, <1>3
  <2>2. m - 1 \in 1..Len(w) /\ w[m - 1] = list[m]
    BY <2>1, <1>1
  <2> QED BY <2>2
<1>4. {w[k] : k \in 1..Len(w)} = {list[k] : k \in 1..Len(list)} \ {Head(list)}
  BY <1>2, <1>3
<1>5. ASSUME NEW j \in 1..Len(w), NEW k \in 1..Len(w), w[j] = w[k]
      PROVE  j = k
  BY <1>1, <1>5 DEF NoRepeat
<1>6. Head(list) \in {list[k] : k \in 1..Len(list)}
  BY <1>1
<1> QED BY <1>1, <1>4, <1>5, <1>6 DEF Elems, NoRepeat

\* The program counter of a connection's thread agrees with the status.
Threads ==
  \A c \in Conns :
    /\ npc[c] \in {"none", "endSignal", "endBcast"} <=> status[c] = "NONE"
    /\ npc[c] \in {"noop", "back", "closing"} => status[c] = "NOOP"

\* A client that works with a connection has it to itself.
Held ==
  \A t \in Clients : pc[t] \in Holding =>
    /\ conn[t] \in Conns
    /\ status[conn[t]] = "BUSY"
    /\ \A u \in Clients : pc[u] \in Holding /\ conn[u] = conn[t] => u = t

\* freeTransports goes on to loadTpConfig only when nobody used the pool.
LoadIsQuiet ==
  mpc = "load" =>
    /\ \A t \in Clients : pc[t] = "out"
    /\ \A c \in Conns : npc[c] = "none"

IInv ==
  /\ TypeOK
  /\ ListsMatchStatus
  /\ PoolBound
  /\ Threads
  /\ Held
  /\ LoadIsQuiet
  /\ WaitingIsExact
  /\ NoLostWakeup

-----------------------------------------------------------------------------
(***************************************************************************)
(* Lemmas on finite sets.                                                  *)
(***************************************************************************)

\* Adding a new element to a finite set.
LEMMA AddNew ==
  ASSUME NEW S, IsFiniteSet(S), NEW x, x \notin S
  PROVE  /\ IsFiniteSet(S \cup {x})
         /\ Cardinality(S \cup {x}) = Cardinality(S) + 1
         /\ Cardinality(S) \in Nat
BY FS_AddElement, FS_CardinalityType

\* Removing an element from a finite set.
LEMMA RemoveOld ==
  ASSUME NEW S, IsFiniteSet(S), NEW x \in S
  PROVE  /\ IsFiniteSet(S \ {x})
         /\ Cardinality(S \ {x}) = Cardinality(S) - 1
         /\ Cardinality(S) \in Nat
BY FS_RemoveElement, FS_CardinalityType

-----------------------------------------------------------------------------
(***************************************************************************)
(* What a step does to the lists.  Every action makes one of these moves.  *)
(***************************************************************************)

Take(c) ==
  /\ Len(idleConns) > 0 /\ c = Head(idleConns)
  /\ status' = [status EXCEPT ![c] = "BUSY"]
  /\ idleConns' = Tail(idleConns)
  /\ busyConns' = busyConns \cup {c}
  /\ noopConns' = noopConns

Create(c) ==
  /\ status[c] = "NONE" /\ Len(idleConns) = 0 /\ HasRoom
  /\ status' = [status EXCEPT ![c] = "BUSY"]
  /\ busyConns' = busyConns \cup {c}
  /\ idleConns' = idleConns /\ noopConns' = noopConns

BusyIdle(c) ==
  /\ status[c] = "BUSY"
  /\ status' = [status EXCEPT ![c] = "IDLE"]
  /\ busyConns' = busyConns \ {c}
  /\ idleConns' = Append(idleConns, c)
  /\ noopConns' = noopConns

BusyNoop(c) ==
  /\ status[c] = "BUSY"
  /\ status' = [status EXCEPT ![c] = "NOOP"]
  /\ busyConns' = busyConns \ {c}
  /\ noopConns' = noopConns \cup {c}
  /\ idleConns' = idleConns

IdleNoop(c) ==
  /\ status[c] = "IDLE"
  /\ status' = [status EXCEPT ![c] = "NOOP"]
  /\ idleConns' = Without(idleConns, c)
  /\ noopConns' = noopConns \cup {c}
  /\ busyConns' = busyConns

NoopIdle(c) ==
  /\ status[c] = "NOOP"
  /\ status' = [status EXCEPT ![c] = "IDLE"]
  /\ noopConns' = noopConns \ {c}
  /\ idleConns' = Append(idleConns, c)
  /\ busyConns' = busyConns

NoopGone(c) ==
  /\ status[c] = "NOOP"
  /\ status' = [status EXCEPT ![c] = "NONE"]
  /\ noopConns' = noopConns \ {c}
  /\ idleConns' = idleConns /\ busyConns' = busyConns

IdleGone(c) ==
  /\ status[c] = "IDLE"
  /\ status' = [status EXCEPT ![c] = "NONE"]
  /\ idleConns' = Without(idleConns, c)
  /\ noopConns' = noopConns \ {c} /\ busyConns' = busyConns

Renew ==
  /\ \A c \in Conns : status[c] = "NONE"
  /\ status' = status
  /\ busyConns' = {} /\ idleConns' = <<>> /\ noopConns' = {}

Move ==
  \/ \E c \in Conns : \/ Take(c) \/ Create(c) \/ BusyIdle(c) \/ BusyNoop(c)
                      \/ IdleNoop(c) \/ NoopIdle(c) \/ NoopGone(c) \/ IdleGone(c)
  \/ Renew
  \/ UNCHANGED <<status, busyConns, idleConns, noopConns>>

ListsTypeOK ==
  /\ status \in [Conns -> {"NONE", "BUSY", "IDLE", "NOOP"}]
  /\ busyConns \in SUBSET Conns /\ IsFiniteSet(busyConns)
  /\ idleConns \in Seq(Conns)
  /\ noopConns \in SUBSET Conns /\ IsFiniteSet(noopConns)

\* Every move keeps the lists well-formed, in step with the status, and
\* within maxConn.
LEMMA MovesKeepLists ==
  ASSUME ListsTypeOK, ListsMatchStatus, PoolBound, Move
  PROVE  ListsTypeOK' /\ ListsMatchStatus' /\ PoolBound'
<1>1. ASSUME NEW c \in Conns, Take(c)
      PROVE  ListsTypeOK' /\ ListsMatchStatus' /\ PoolBound'
  <2> USE <1>1 DEF Take
  <2>1. c \in Elems(idleConns) /\ status[c] = "IDLE" /\ c \notin busyConns
    BY TailProperties DEF ListsTypeOK, ListsMatchStatus
  <2>2. /\ idleConns' \in Seq(Conns) /\ Len(idleConns') = Len(idleConns) - 1
        /\ Elems(idleConns') = Elems(idleConns) \ {c}
        /\ NoRepeat(idleConns')
    BY <2>1, TailProperties DEF ListsTypeOK, ListsMatchStatus
  <2>3. /\ IsFiniteSet(busyConns') /\ Cardinality(busyConns') = Cardinality(busyConns) + 1
        /\ IsFiniteSet(noopConns') /\ Cardinality(noopConns') = Cardinality(noopConns)
        /\ Cardinality(busyConns) \in Nat /\ Cardinality(noopConns) \in Nat
    BY <2>1, AddNew, RemoveOld, FS_CardinalityType DEF ListsTypeOK
  <2>4. ListsTypeOK' /\ ListsMatchStatus'
    BY <2>1, <2>2, <2>3 DEF ListsTypeOK, ListsMatchStatus
  <2>5. PoolBound'
    BY <2>2, <2>3, PoolAssumption DEF ListsTypeOK, PoolBound, InUse
  <2> QED BY <2>4, <2>5
<1>2. ASSUME NEW c \in Conns, Create(c)
      PROVE  ListsTypeOK' /\ ListsMatchStatus' /\ PoolBound'
  <2> USE <1>2 DEF Create
  <2>1. c \notin busyConns /\ c \notin Elems(idleConns)
    BY DEF ListsTypeOK, ListsMatchStatus
  <2>2. /\ idleConns' \in Seq(Conns) /\ Len(idleConns') = Len(idleConns)
        /\ Elems(idleConns') = Elems(idleConns)
        /\ NoRepeat(idleConns')
    BY DEF ListsTypeOK, ListsMatchStatus
  <2>3. /\ IsFiniteSet(busyConns') /\ Cardinality(busyConns') = Cardinality(busyConns) + 1
        /\ IsFiniteSet(noopConns') /\ Cardinality(noopConns') = Cardinality(noopConns)
        /\ Cardinality(busyConns) \in Nat /\ Cardinality(noopConns) \in Nat
    BY <2>1, AddNew, RemoveOld, FS_CardinalityType DEF ListsTypeOK
  <2>4. ListsTypeOK' /\ ListsMatchStatus'
    BY <2>1, <2>2, <2>3 DEF ListsTypeOK, ListsMatchStatus
  <2>5. PoolBound'
    BY <2>2, <2>3, PoolAssumption DEF ListsTypeOK, PoolBound, InUse, HasRoom
  <2> QED BY <2>4, <2>5
<1>3. ASSUME NEW c \in Conns, BusyIdle(c)
      PROVE  ListsTypeOK' /\ ListsMatchStatus' /\ PoolBound'
  <2> USE <1>3 DEF BusyIdle
  <2>1. c \in busyConns /\ c \notin Elems(idleConns)
    BY DEF ListsTypeOK, ListsMatchStatus
  <2>2. /\ idleConns' \in Seq(Conns) /\ Len(idleConns') = Len(idleConns) + 1
        /\ Elems(idleConns') = Elems(idleConns) \cup {c}
        /\ NoRepeat(idleConns')
    <3>1. /\ idleConns \in Seq(Conns) /\ NoRepeat(idleConns) /\ c \in Conns
          /\ c \notin Elems(idleConns)
      BY <2>1 DEF ListsTypeOK, ListsMatchStatus
    <3>2. /\ idleConns' \in Seq(Conns) /\ Len(idleConns') = Len(idleConns) + 1
          /\ idleConns'[Len(idleConns')] = c
          /\ \A k \in 1..Len(idleConns) : idleConns'[k] = idleConns[k]
      BY <3>1
    <3> HIDE <1>3
    <3> QED BY <3>1, <3>2, AppendedProperties
  <2>3. /\ IsFiniteSet(busyConns') /\ Cardinality(busyConns') = Cardinality(busyConns) - 1
        /\ IsFiniteSet(noopConns') /\ Cardinality(noopConns') = Cardinality(noopConns)
        /\ Cardinality(busyConns) \in Nat /\ Cardinality(noopConns) \in Nat
    BY <2>1, AddNew, RemoveOld, FS_CardinalityType DEF ListsTypeOK
  <2>4. ListsTypeOK' /\ ListsMatchStatus'
    BY <2>1, <2>2, <2>3 DEF ListsTypeOK, ListsMatchStatus
  <2>5. PoolBound'
    BY <2>2, <2>3, PoolAssumption DEF ListsTypeOK, PoolBound, InUse
  <2> QED BY <2>4, <2>5
<1>4. ASSUME NEW c \in Conns, BusyNoop(c)
      PROVE  ListsTypeOK' /\ ListsMatchStatus' /\ PoolBound'
  <2> USE <1>4 DEF BusyNoop
  <2>1. c \in busyConns /\ c \notin noopConns
    BY DEF ListsTypeOK, ListsMatchStatus
  <2>2. /\ idleConns' \in Seq(Conns) /\ Len(idleConns') = Len(idleConns)
        /\ Elems(idleConns') = Elems(idleConns)
        /\ NoRepeat(idleConns')
    BY DEF ListsTypeOK, ListsMatchStatus
  <2>3. /\ IsFiniteSet(busyConns') /\ Cardinality(busyConns') = Cardinality(busyConns) - 1
        /\ IsFiniteSet(noopConns') /\ Cardinality(noopConns') = Cardinality(noopConns) + 1
        /\ Cardinality(busyConns) \in Nat /\ Cardinality(noopConns) \in Nat
    BY <2>1, AddNew, RemoveOld, FS_CardinalityType DEF ListsTypeOK
  <2>4. ListsTypeOK' /\ ListsMatchStatus'
    BY <2>1, <2>2, <2>3 DEF ListsTypeOK, ListsMatchStatus
  <2>5. PoolBound'
    BY <2>2, <2>3, PoolAssumption DEF ListsTypeOK, PoolBound, InUse
  <2> QED BY <2>4, <2>5
<1>5. ASSUME NEW c \in Conns, IdleNoop(c)
      PROVE  ListsTypeOK' /\ ListsMatchStatus' /\ PoolBound'
  <2> USE <1>5 DEF IdleNoop
  <2>1. c \in Elems(idleConns) /\ c \notin noopConns
    BY DEF ListsTypeOK, ListsMatchStatus
  <2>2. /\ idleConns' \in Seq(Conns) /\ Len(idleConns') = Len(idleConns) - 1
        /\ Elems(idleConns') = Elems(idleConns) \ {c}
        /\ NoRepeat(idleConns')
    BY <2>1, WithoutProperties DEF ListsTypeOK, ListsMatchStatus
  <2>3. /\ IsFiniteSet(busyConns') /\ Cardinality(busyConns') = Cardinality(busyConns)
        /\ IsFiniteSet(noopConns') /\ Cardinality(noopConns') = Cardinality(noopConns) + 1
        /\ Cardinality(busyConns) \in Nat /\ Cardinality(noopConns) \in Nat
    BY <2>1, AddNew, RemoveOld, FS_CardinalityType DEF ListsTypeOK
  <2>4. ListsTypeOK' /\ ListsMatchStatus'
    BY <2>1, <2>2, <2>3 DEF ListsTypeOK, ListsMatchStatus
  <2>5. PoolBound'
    BY <2>2, <2>3, PoolAssumption DEF ListsTypeOK, PoolBound, InUse
  <2> QED BY <2>4, <2>5
<1>6. ASSUME NEW c \in Conns, NoopIdle(c)
      PROVE  ListsTypeOK' /\ ListsMatchStatus' /\ PoolBound'
  <2> USE <1>6 DEF NoopIdle
  <2>1. c \in noopConns /\ c \notin Elems(idleConns)
    BY DEF ListsTypeOK, ListsMatchStatus
  <2>2. /\ idleConns' \in Seq(Conns) /\ Len(idleConns') = Len(idleConns) + 1
        /\ Elems(idleConns') = Elems(idleConns) \cup {c}
        /\ NoRepeat(idleConns')
    <3>1. /\ idleConns \in Seq(Conns) /\ NoRepeat(idleConns) /\ c \in Conns
          /\ c \notin Elems(idleConns)
      BY <2>1 DEF ListsTypeOK, ListsMatchStatus
    <3>2. /\ idleConns' \in Seq(Conns) /\ Len(idleConns') = Len(idleConns) + 1
          /\ idleConns'[Len(idleConns')] = c
          /\ \A k \in 1..Len(idleConns) : idleConns'[k] = idleConns[k]
      BY <3>1
    <3> HIDE <1>6
    <3> QED BY <3>1, <3>2, AppendedProperties
  <2>3. /\ IsFiniteSet(busyConns') /\ Cardinality(busyConns') = Cardinality(busyConns)
        /\ IsFiniteSet(noopConns') /\ Cardinality(noopConns') = Cardinality(noopConns) - 1
        /\ Cardinality(busyConns) \in Nat /\ Cardinality(noopConns) \in Nat
    BY <2>1, AddNew, RemoveOld, FS_CardinalityType DEF ListsTypeOK
  <2>4. ListsTypeOK' /\ ListsMatchStatus'
    BY <2>1, <2>2, <2>3 DEF ListsTypeOK, ListsMatchStatus
  <2>5. PoolBound'
    BY <2>2, <2>3, PoolAssumption DEF ListsTypeOK, PoolBound, InUse
  <2> QED BY <2>4, <2>5
<1>7. ASSUME NEW c \in Conns, NoopGone(c)
      PROVE  ListsTypeOK' /\ ListsMatchStatus' /\ PoolBound'
  <2> USE <1>7 DEF NoopGone
  <2>1. c \in noopConns
    BY DEF ListsTypeOK, ListsMatchStatus
  <2>2. /\ idleConns' \in Seq(Conns) /\ Len(idleConns') = Len(idleConns)
        /\ Elems(idleConns') = Elems(idleConns)
        /\ NoRepeat(idleConns')
    BY DEF ListsTypeOK, ListsMatchStatus
  <2>3. /\ IsFiniteSet(busyConns') /\ Cardinality(busyConns') = Cardinality(busyConns)
        /\ IsFiniteSet(noopConns') /\ Cardinality(noopConns') = Cardinality(noopConns) - 1
        /\ Cardinality(busyConns) \in Nat /\ Cardinality(noopConns) \in Nat
    BY <2>1, AddNew, RemoveOld, FS_CardinalityType DEF ListsTypeOK
  <2>4. ListsTypeOK' /\ ListsMatchStatus'
    BY <2>1, <2>2, <2>3 DEF ListsTypeOK, ListsMatchStatus
  <2>5. PoolBound'
    BY <2>2, <2>3, PoolAssumption DEF ListsTypeOK, PoolBound, InUse
  <2> QED BY <2>4, <2>5
<1>8. ASSUME NEW c \in Conns, IdleGone(c)
      PROVE  ListsTypeOK' /\ ListsMatchStatus' /\ PoolBound'
  <2> USE <1>8 DEF IdleGone
  <2>1. c \in Elems(idleConns) /\ noopConns' = noopConns
    BY DEF ListsTypeOK, ListsMatchStatus
  <2>2. /\ idleConns' \in Seq(Conns) /\ Len(idleConns') = Len(idleConns) - 1
        /\ Elems(idleConns') = Elems(idleConns) \ {c}
        /\ NoRepeat(idleConns')
    BY <2>1, WithoutProperties DEF ListsTypeOK, ListsMatchStatus
  <2>3. /\ IsFiniteSet(busyConns') /\ Cardinality(busyConns') = Cardinality(busyConns)
        /\ IsFiniteSet(noopConns') /\ Cardinality(noopConns') = Cardinality(noopConns)
        /\ Cardinality(busyConns) \in Nat /\ Cardinality(noopConns) \in Nat
    BY <2>1, AddNew, RemoveOld, FS_CardinalityType DEF ListsTypeOK
  <2>4. ListsTypeOK' /\ ListsMatchStatus'
    BY <2>1, <2>2, <2>3 DEF ListsTypeOK, ListsMatchStatus
  <2>5. PoolBound'
    BY <2>2, <2>3, PoolAssumption DEF ListsTypeOK, PoolBound, InUse
  <2> QED BY <2>4, <2>5
<1>9. CASE Renew
  <2>1. ListsTypeOK' /\ ListsMatchStatus'
    BY <1>9, FS_EmptySet DEF Renew, ListsTypeOK, ListsMatchStatus, Elems, NoRepeat
  <2>2. PoolBound'
    BY <1>9, FS_EmptySet, PoolAssumption DEF Renew, PoolBound, InUse
  <2> QED BY <2>1, <2>2
<1>10. CASE UNCHANGED <<status, busyConns, idleConns, noopConns>>
  BY <1>10 DEF ListsTypeOK, ListsMatchStatus, PoolBound, InUse
<1> QED BY <1>1, <1>2, <1>3, <1>4, <1>5, <1>6, <1>7, <1>8, <1>9, <1>10 DEF Move

\* Every action makes one of the moves.
LEMMA StepMoves ==
  ASSUME IInv, [Next]_vars
  PROVE  Move
<1> USE DEF listVars, connVars, clientVars, mainVars
<1>1. ASSUME NEW t \in Clients, PassGate(t) \/ TimeOut(t) \/ GiveUp(t) \/ Send(t)
                                \/ AnnounceIdle(t) \/ SignalAndReturn(t)
      PROVE  Move
  BY <1>1 DEF PassGate, TimeOut, GiveUp, Send, AnnounceIdle, SignalAndReturn, Move
<1>2. ASSUME NEW t \in Clients, TakeIdle(t)
      PROVE  Move
  <2>1. Head(idleConns) \in Conns
    BY <1>2 DEF TakeIdle, IInv, TypeOK
  <2> QED BY <1>2, <2>1 DEF TakeIdle, Take, Move
<1>3. ASSUME NEW t \in Clients, NewConn(t), Len(idleConns) = 0, HasRoom
      PROVE  Move
  <2>1. CASE \E c \in Conns : Create(c)
    BY <2>1 DEF Move
  <2>2. CASE ~\E c \in Conns : Create(c)
    BY <1>3, <2>2 DEF NewConn, Create, Move, IInv, Threads
  <2> QED BY <2>1, <2>2
<1>4. ASSUME NEW t \in Clients, GetAnIdleConn(t)
      PROVE  Move
  BY <1>2, <1>3, <1>4 DEF GetAnIdleConn, Move
<1>5. ASSUME NEW t \in Clients, Retest(t)
      PROVE  Move
  <2>1. ~NothingToTake /\ Len(idleConns) = 0 => HasRoom
    <3>1. InUse \in Nat
      BY FS_CardinalityType DEF InUse, IInv, TypeOK
    <3> QED BY <3>1, PoolAssumption DEF NothingToTake, HasRoom, IInv, PoolBound
  <2> QED BY <1>2, <1>3, <1>5, <2>1 DEF Retest, Move
<1>6. ASSUME NEW t \in Clients, BusyToIdle(t)
      PROVE  Move
  <2>1. conn[t] \in Conns /\ status[conn[t]] = "BUSY"
    BY <1>6 DEF BusyToIdle, IInv, Held, Holding
  <2> QED BY <1>6, <2>1 DEF BusyToIdle, BusyIdle, Move
<1>7. ASSUME NEW t \in Clients, BusyToEnd(t)
      PROVE  Move
  <2>1. conn[t] \in Conns /\ status[conn[t]] = "BUSY"
    BY <1>7 DEF BusyToEnd, IInv, Held, Holding
  <2> QED BY <1>7, <2>1 DEF BusyToEnd, BusyNoop, Move
<1>8. ASSUME NEW c \in Conns, NoopPark(c) \/ NoopSend(c) \/ NoopAnnounce(c)
                              \/ EndSignal(c) \/ EndAnnounce(c)
      PROVE  Move
  BY <1>8 DEF NoopPark, NoopSend, NoopAnnounce, EndSignal, EndAnnounce, Move
<1>9. ASSUME NEW c \in Conns, NoopClaim(c)
      PROVE  Move
  <2>1. status[c] \in {"IDLE", "NOOP"}
    BY <1>9 DEF NoopClaim, LeaveAlone, IInv, Threads, TypeOK
  <2>2. CASE status[c] = "IDLE"
    BY <1>9, <2>2 DEF NoopClaim, EndConn, IdleNoop, IdleGone, Move
  <2>3. CASE status[c] = "NOOP"
    <3>1. c \in noopConns /\ status \in [Conns -> {"NONE", "BUSY", "IDLE", "NOOP"}]
      BY <2>3 DEF IInv, ListsMatchStatus, TypeOK
    <3> QED BY <1>9, <2>3, <3>1 DEF NoopClaim, EndConn, NoopGone, Move
  <2> QED BY <2>1, <2>2, <2>3
<1>10. ASSUME NEW c \in Conns, NoopClose(c) \/ NoopBack(c)
       PROVE  Move
  <2>1. status[c] = "NOOP"
    BY <1>10 DEF NoopClose, NoopBack, IInv, Threads
  <2> QED BY <1>10, <2>1 DEF NoopClose, NoopBack, EndConn, NoopGone, NoopIdle, Move
<1>11. ASSUME NEW r \in Requests, StartAbort(r)
       PROVE  Move
  BY <1>11 DEF StartAbort, Move
<1>12. CASE Drain \/ Reap \/ FreeTransports
  BY <1>12 DEF Drain, Reap, FreeTransports, Move
<1>13. CASE Reload
  BY <1>13 DEF Reload, Renew, Move, IInv, LoadIsQuiet, Threads
<1>14. CASE Spurious \/ Stopped \/ UNCHANGED vars
  BY <1>14 DEF Spurious, Stopped, vars, Move
<1> QED
  BY <1>1, <1>4, <1>5, <1>6, <1>7, <1>8, <1>9, <1>10, <1>11, <1>12, <1>13, <1>14
     DEF Next, ClientStep, NoopStep, MainStep

-----------------------------------------------------------------------------
(***************************************************************************)
(* The counter of the clients that wait.                                   *)
(***************************************************************************)

WaitSet == {t \in Clients : pc[t] \in Waiting}

\* A client enters or leaves the wait loop together with the counter.
Enter(t) == pc[t] \notin Waiting /\ WaitSet' = WaitSet \cup {t} /\ waiting' = waiting + 1
Leave(t) == pc[t] \in Waiting /\ WaitSet' = WaitSet \ {t} /\ waiting' = waiting - 1
Stay == WaitSet' = WaitSet /\ waiting' = waiting
ResetWait == WaitSet' = {} /\ waiting' = 0

\* Every action moves the counter and the waiting clients together.
LEMMA StepWaits ==
  ASSUME IInv, [Next]_vars
  PROVE  (\E t \in Clients : Enter(t) \/ Leave(t)) \/ Stay \/ ResetWait
<1> USE DEF listVars, connVars, clientVars, mainVars, WaitSet, Waiting
<1>0. pc \in [Clients -> ClientPCs]
  BY DEF IInv, TypeOK
<1>1. ASSUME NEW t \in Clients, PassGate(t) \/ TimeOut(t) \/ Send(t) \/ BusyToIdle(t)
                                \/ BusyToEnd(t) \/ SignalAndReturn(t)
      PROVE  Stay
  BY <1>0, <1>1 DEF PassGate, TimeOut, Send, BusyToIdle, BusyToEnd, SignalAndReturn, Stay
<1>2. ASSUME NEW t \in Clients, AnnounceIdle(t)
      PROVE  Stay
  BY <1>0, <1>2 DEF AnnounceIdle, BroadcastIdleCond, Stay
<1>3. ASSUME NEW t \in Clients, GiveUp(t)
      PROVE  Leave(t)
  BY <1>0, <1>3 DEF GiveUp, Leave
<1>4. ASSUME NEW t \in Clients, TakeIdle(t) \/ NewConn(t)
      PROVE  \E p \in {"sending", "out"} : pc' = [pc EXCEPT ![t] = p]
  BY <1>4 DEF TakeIdle, NewConn
<1>5. ASSUME NEW t \in Clients, GetAnIdleConn(t)
      PROVE  Stay \/ Enter(t)
  <2>1. pc[t] = "found"
    BY <1>5 DEF GetAnIdleConn
  <2>2. CASE (TakeIdle(t) \/ NewConn(t)) /\ waiting' = waiting
    BY <1>0, <1>4, <2>1, <2>2 DEF Stay
  <2>3. CASE waiting' = waiting + 1 /\ pc' = [pc EXCEPT ![t] = "asleep"]
    BY <1>0, <2>1, <2>3 DEF Enter
  <2> QED BY <1>5, <2>2, <2>3 DEF GetAnIdleConn
<1>6. ASSUME NEW t \in Clients, Retest(t)
      PROVE  Stay \/ Leave(t)
  <2>1. pc[t] = "woken"
    BY <1>6 DEF Retest
  <2>2. CASE (TakeIdle(t) \/ NewConn(t)) /\ waiting' = waiting - 1
    BY <1>0, <1>4, <2>1, <2>2 DEF Leave
  <2>3. CASE waiting' = waiting /\ pc' = [pc EXCEPT ![t] = "asleep"]
    BY <1>0, <2>1, <2>3 DEF Stay
  <2> QED BY <1>6, <2>2, <2>3 DEF Retest
<1>7. ASSUME NEW c \in Conns, NoopStep(c)
      PROVE  Stay
  BY <1>0, <1>7 DEF NoopStep, NoopPark, NoopClaim, NoopSend, NoopClose, NoopBack, NoopAnnounce,
                    EndSignal, EndAnnounce, BroadcastIdleCond, Stay
<1>8. ASSUME NEW r \in Requests, StartAbort(r)
      PROVE  Stay
  BY <1>8 DEF StartAbort, Stay
<1>9. CASE Drain \/ Reap \/ FreeTransports
  BY <1>9 DEF Drain, Reap, FreeTransports, Stay
<1>10. CASE Reload
  BY <1>10 DEF Reload, ResetWait, IInv, LoadIsQuiet
<1>11. CASE Spurious
  BY <1>0, <1>11 DEF Spurious, SpuriousWakeup, Stay
<1>12. CASE Stopped \/ UNCHANGED vars
  BY <1>12 DEF Stopped, vars, Stay
<1> QED
  BY <1>1, <1>2, <1>3, <1>5, <1>6, <1>7, <1>8, <1>9, <1>10, <1>11, <1>12
     DEF Next, ClientStep, MainStep

\* tp->waiting is the number of clients in the wait loop, so it never goes
\* below zero.
LEMMA WaitingInductive ==
  ASSUME IInv, [Next]_vars
  PROVE  waiting' \in Nat /\ WaitingIsExact'
<1> SUFFICES waiting' \in Nat /\ waiting' = Cardinality(WaitSet')
  BY DEF WaitingIsExact, WaitSet
<1>1. IsFiniteSet(WaitSet) /\ waiting = Cardinality(WaitSet) /\ waiting \in Nat
  BY PoolAssumption, FS_Subset DEF IInv, WaitSet, WaitingIsExact, TypeOK
<1>2. ASSUME NEW t \in Clients, Enter(t)
      PROVE  waiting' \in Nat /\ waiting' = Cardinality(WaitSet')
  <2>1. t \notin WaitSet
    BY <1>2 DEF Enter, WaitSet
  <2> QED BY <1>1, <1>2, <2>1, AddNew DEF Enter
<1>3. ASSUME NEW t \in Clients, Leave(t)
      PROVE  waiting' \in Nat /\ waiting' = Cardinality(WaitSet')
  <2>1. t \in WaitSet
    BY <1>3 DEF Leave, WaitSet
  <2>2. IsFiniteSet(WaitSet') /\ Cardinality(WaitSet') = waiting - 1
    BY <1>1, <1>3, <2>1, RemoveOld DEF Leave
  <2>3. Cardinality(WaitSet') \in Nat
    BY <2>2, FS_CardinalityType
  <2> QED BY <1>3, <2>2, <2>3 DEF Leave
<1>4. CASE ResetWait
  BY <1>4, FS_EmptySet DEF ResetWait
<1> QED BY <1>1, <1>2, <1>3, <1>4, StepWaits DEF Stay

-----------------------------------------------------------------------------
(***************************************************************************)
(* Threads and the connections they work with.                             *)
(***************************************************************************)

\* The variables that are neither lists nor the counter of the waiting.
ControlTypeOK ==
  /\ pc \in [Clients -> ClientPCs]
  /\ conn \in [Clients -> Conns \cup {NoConn}]
  /\ endFlag \in [Conns -> BOOLEAN]
  /\ sendCount \in [Conns -> Nat]
  /\ noopCount \in [Conns -> Nat]
  /\ npc \in [Conns -> NoopPCs]
  /\ mpc \in MainPCs
  /\ request \in {"none", "reload", "quit"}

\* Every action keeps the program counters, the connections the clients hold,
\* the flags and the counters within their types.
LEMMA ControlTypeInductive ==
  ASSUME IInv, [Next]_vars
  PROVE  ControlTypeOK'
<1> USE DEF listVars, connVars, clientVars, mainVars, ControlTypeOK, ClientPCs, NoopPCs, MainPCs
<1>0. ControlTypeOK /\ idleConns \in Seq(Conns)
  BY DEF IInv, TypeOK
<1>1. ASSUME NEW t \in Clients, PassGate(t)
      PROVE  ControlTypeOK'
  BY <1>0, <1>1 DEF PassGate
<1>2. ASSUME NEW t \in Clients, GetAnIdleConn(t)
      PROVE  ControlTypeOK'
  <2>1. UNCHANGED <<mpc, request>>
    BY <1>2 DEF GetAnIdleConn
  <2>2. CASE TakeIdle(t)
    <3>1. Head(idleConns) \in Conns
      BY <1>0, <2>2 DEF TakeIdle
    <3> QED BY <1>0, <2>1, <2>2, <3>1 DEF TakeIdle
  <2>3. CASE NewConn(t)
    <3>1. CASE pc' = [pc EXCEPT ![t] = "out"] /\ UNCHANGED <<conn, connVars>>
      BY <1>0, <2>1, <3>1
    <3>2. ASSUME NEW c \in Conns, npc' = [npc EXCEPT ![c] = "top"], conn' = [conn EXCEPT ![t] = c],
                 pc' = [pc EXCEPT ![t] = "sending"], UNCHANGED <<endFlag, sendCount, noopCount>>
          PROVE  ControlTypeOK'
      BY <1>0, <2>1, <3>2
    <3> QED BY <2>3, <3>1, <3>2 DEF NewConn
  <2>4. CASE pc' = [pc EXCEPT ![t] = "asleep"] /\ UNCHANGED <<conn, connVars>>
    BY <1>0, <2>1, <2>4
  <2> QED BY <1>2, <2>2, <2>3, <2>4 DEF GetAnIdleConn
<1>3. ASSUME NEW t \in Clients, TimeOut(t)
      PROVE  ControlTypeOK'
  BY <1>0, <1>3 DEF TimeOut
<1>4. ASSUME NEW t \in Clients, GiveUp(t)
      PROVE  ControlTypeOK'
  BY <1>0, <1>4 DEF GiveUp
<1>5. ASSUME NEW t \in Clients, Retest(t)
      PROVE  ControlTypeOK'
  <2>1. UNCHANGED <<mpc, request>>
    BY <1>5 DEF Retest
  <2>2. CASE TakeIdle(t)
    <3>1. Head(idleConns) \in Conns
      BY <1>0, <2>2 DEF TakeIdle
    <3> QED BY <1>0, <2>1, <2>2, <3>1 DEF TakeIdle
  <2>3. CASE NewConn(t)
    <3>1. CASE pc' = [pc EXCEPT ![t] = "out"] /\ UNCHANGED <<conn, connVars>>
      BY <1>0, <2>1, <3>1
    <3>2. ASSUME NEW c \in Conns, npc' = [npc EXCEPT ![c] = "top"], conn' = [conn EXCEPT ![t] = c],
                 pc' = [pc EXCEPT ![t] = "sending"], UNCHANGED <<endFlag, sendCount, noopCount>>
          PROVE  ControlTypeOK'
      BY <1>0, <2>1, <3>2
    <3> QED BY <2>3, <3>1, <3>2 DEF NewConn
  <2>4. CASE pc' = [pc EXCEPT ![t] = "asleep"] /\ UNCHANGED <<conn, connVars>>
    BY <1>0, <2>1, <2>4
  <2> QED BY <1>5, <2>2, <2>3, <2>4 DEF Retest
<1>6. ASSUME NEW t \in Clients, Send(t)
      PROVE  ControlTypeOK'
  <2>1. PICK p \in {"ending", "idling"} : pc' = [pc EXCEPT ![t] = p]
    BY <1>6 DEF Send
  <2>2. sendCount' = sendCount \/ sendCount' = [sendCount EXCEPT ![conn[t]] = @ + 1]
    BY <1>6 DEF Send
  <2>3. noopCount' \in [Conns -> Nat] /\ UNCHANGED <<conn, endFlag, npc, mpc, request>>
    BY <1>0, <1>6 DEF Send
  <2>4. sendCount' \in [Conns -> Nat]
    <3>1. conn[t] \in Conns
      BY <1>6 DEF Send, IInv, Held, Holding
    <3>2. sendCount[conn[t]] + 1 \in Nat
      BY <1>0, <3>1
    <3> QED BY <1>0, <2>2, <3>2
  <2>5. pc' \in [Clients -> ClientPCs]
    BY <1>0, <2>1
  <2> QED BY <1>0, <2>3, <2>4, <2>5
<1>7. ASSUME NEW t \in Clients, BusyToIdle(t)
      PROVE  ControlTypeOK'
  BY <1>0, <1>7 DEF BusyToIdle
<1>8. ASSUME NEW t \in Clients, BusyToEnd(t)
      PROVE  ControlTypeOK'
  BY <1>0, <1>8 DEF BusyToEnd
<1>9. ASSUME NEW t \in Clients, AnnounceIdle(t)
      PROVE  ControlTypeOK'
  BY <1>0, <1>9 DEF AnnounceIdle, BroadcastIdleCond
<1>10. ASSUME NEW t \in Clients, SignalAndReturn(t)
       PROVE  ControlTypeOK'
  BY <1>0, <1>10 DEF SignalAndReturn, SignalConn
<1>11. ASSUME NEW c \in Conns, NoopPark(c)
       PROVE  ControlTypeOK'
  BY <1>0, <1>11 DEF NoopPark
<1>12. ASSUME NEW c \in Conns, NoopClaim(c)
       PROVE  ControlTypeOK'
  <2>1. UNCHANGED <<pc, conn, mpc, request>>
    BY <1>12 DEF NoopClaim
  <2>2. CASE EndConn(c)
    BY <1>0, <2>1, <2>2 DEF EndConn
  <2>3. CASE npc' = [npc EXCEPT ![c] = "noop"] /\ UNCHANGED <<endFlag, sendCount, noopCount>>
    BY <1>0, <2>1, <2>3
  <2> QED BY <1>12, <2>2, <2>3 DEF NoopClaim
<1>13. ASSUME NEW c \in Conns, NoopSend(c)
       PROVE  ControlTypeOK'
  <2>1. npc' \in [Conns -> NoopPCs]
    BY <1>0, <1>13 DEF NoopSend
  <2>2. noopCount' \in [Conns -> Nat]
    BY <1>0, <1>13 DEF NoopSend
  <2> QED BY <1>0, <1>13, <2>1, <2>2 DEF NoopSend
<1>14. ASSUME NEW c \in Conns, NoopClose(c)
       PROVE  ControlTypeOK'
  BY <1>0, <1>14 DEF NoopClose, EndConn
<1>15. ASSUME NEW c \in Conns, NoopBack(c)
       PROVE  ControlTypeOK'
  <2>1. UNCHANGED <<pc, conn, mpc, request>>
    BY <1>15 DEF NoopBack
  <2>2. CASE EndConn(c)
    BY <1>0, <2>1, <2>2 DEF EndConn
  <2>3. CASE npc' = [npc EXCEPT ![c] = "bcast"] /\ UNCHANGED <<endFlag, sendCount, noopCount>>
    BY <1>0, <2>1, <2>3
  <2> QED BY <1>15, <2>2, <2>3 DEF NoopBack
<1>16. ASSUME NEW c \in Conns, NoopAnnounce(c)
       PROVE  ControlTypeOK'
  BY <1>0, <1>16 DEF NoopAnnounce, BroadcastIdleCond
<1>17. ASSUME NEW c \in Conns, EndSignal(c)
       PROVE  ControlTypeOK'
  BY <1>0, <1>17 DEF EndSignal
<1>18. ASSUME NEW c \in Conns, EndAnnounce(c)
       PROVE  ControlTypeOK'
  BY <1>0, <1>18 DEF EndAnnounce, BroadcastIdleCond
<1>19. ASSUME NEW r \in Requests, StartAbort(r)
       PROVE  ControlTypeOK'
  BY <1>0, <1>19, PoolAssumption DEF StartAbort
<1>20. CASE Drain
  BY <1>0, <1>20 DEF Drain, Remaining
<1>21. CASE Reap
  BY <1>0, <1>21 DEF Reap
<1>22. CASE FreeTransports
  BY <1>0, <1>22 DEF FreeTransports, StillUsed
<1>23. CASE Reload
  BY <1>0, <1>23 DEF Reload
<1>24. CASE Spurious
  BY <1>0, <1>24 DEF Spurious, SpuriousWakeup
<1>25. CASE Stopped \/ UNCHANGED vars
  BY <1>0, <1>25 DEF Stopped, vars
<1> QED
  BY <1>1, <1>2, <1>3, <1>4, <1>5, <1>6, <1>7, <1>8, <1>9, <1>10, <1>11,
     <1>12, <1>13, <1>14, <1>15, <1>16, <1>17, <1>18, <1>19, <1>20, <1>21,
     <1>22, <1>23, <1>24, <1>25
     DEF Next, ClientStep, NoopStep, MainStep

\* The program counters of the connections' threads keep agreeing with the
\* status: a freed connection's thread only has its last signals to send.
LEMMA ThreadsInductive ==
  ASSUME IInv, [Next]_vars
  PROVE  Threads'
<1> USE DEF listVars, connVars, clientVars, mainVars, Threads
<1>0. /\ status \in [Conns -> {"NONE", "BUSY", "IDLE", "NOOP"}]
      /\ npc \in [Conns -> NoopPCs] /\ pc \in [Clients -> ClientPCs]
      /\ Threads
  BY DEF IInv, TypeOK
<1>1. ASSUME NEW t \in Clients, PassGate(t)
      PROVE  Threads'
  BY <1>0, <1>1 DEF PassGate
<1>2. ASSUME NEW t \in Clients, GetAnIdleConn(t)
      PROVE  Threads'
  <2>1. CASE TakeIdle(t)
    <3>1. Head(idleConns) \in Conns /\ status[Head(idleConns)] = "IDLE"
      BY <2>1, TailProperties DEF TakeIdle, IInv, TypeOK, ListsMatchStatus
    <3> QED BY <1>0, <2>1, <3>1 DEF TakeIdle
  <2>2. CASE NewConn(t)
    BY <1>0, <2>2 DEF NewConn
  <2>3. CASE UNCHANGED connVars
    BY <1>0, <2>3
  <2> QED BY <1>2, <2>1, <2>2, <2>3 DEF GetAnIdleConn
<1>3. ASSUME NEW t \in Clients, TimeOut(t)
      PROVE  Threads'
  BY <1>0, <1>3 DEF TimeOut
<1>4. ASSUME NEW t \in Clients, GiveUp(t)
      PROVE  Threads'
  BY <1>0, <1>4 DEF GiveUp
<1>5. ASSUME NEW t \in Clients, Retest(t)
      PROVE  Threads'
  <2>1. CASE TakeIdle(t)
    <3>1. Head(idleConns) \in Conns /\ status[Head(idleConns)] = "IDLE"
      BY <2>1, TailProperties DEF TakeIdle, IInv, TypeOK, ListsMatchStatus
    <3> QED BY <1>0, <2>1, <3>1 DEF TakeIdle
  <2>2. CASE NewConn(t)
    BY <1>0, <2>2 DEF NewConn
  <2>3. CASE UNCHANGED connVars
    BY <1>0, <2>3
  <2> QED BY <1>5, <2>1, <2>2, <2>3 DEF Retest
<1>6. ASSUME NEW t \in Clients, Send(t)
      PROVE  Threads'
  BY <1>0, <1>6 DEF Send
<1>7. ASSUME NEW t \in Clients, BusyToIdle(t)
      PROVE  Threads'
  <2>1. conn[t] \in Conns /\ status[conn[t]] = "BUSY"
    BY <1>7 DEF BusyToIdle, IInv, Held, Holding
  <2> QED BY <1>0, <1>7, <2>1 DEF BusyToIdle
<1>8. ASSUME NEW t \in Clients, BusyToEnd(t)
      PROVE  Threads'
  <2>1. conn[t] \in Conns /\ status[conn[t]] = "BUSY"
    BY <1>8 DEF BusyToEnd, IInv, Held, Holding
  <2> QED BY <1>0, <1>8, <2>1 DEF BusyToEnd
<1>9. ASSUME NEW t \in Clients, AnnounceIdle(t)
      PROVE  Threads'
  BY <1>0, <1>9 DEF AnnounceIdle, BroadcastIdleCond
<1>10. ASSUME NEW t \in Clients, SignalAndReturn(t)
       PROVE  Threads'
  BY <1>0, <1>10 DEF SignalAndReturn, SignalConn
<1>11. ASSUME NEW c \in Conns, NoopPark(c)
       PROVE  Threads'
  BY <1>0, <1>11 DEF NoopPark
<1>12. ASSUME NEW c \in Conns, NoopClaim(c)
       PROVE  Threads'
  BY <1>0, <1>12 DEF NoopClaim, EndConn, LeaveAlone
<1>13. ASSUME NEW c \in Conns, NoopSend(c)
       PROVE  Threads'
  BY <1>0, <1>13 DEF NoopSend
<1>14. ASSUME NEW c \in Conns, NoopClose(c)
       PROVE  Threads'
  BY <1>0, <1>14 DEF NoopClose, EndConn
<1>15. ASSUME NEW c \in Conns, NoopBack(c)
       PROVE  Threads'
  BY <1>0, <1>15 DEF NoopBack, EndConn
<1>16. ASSUME NEW c \in Conns, NoopAnnounce(c)
       PROVE  Threads'
  BY <1>0, <1>16 DEF NoopAnnounce, BroadcastIdleCond
<1>17. ASSUME NEW c \in Conns, EndSignal(c)
       PROVE  Threads'
  BY <1>0, <1>17 DEF EndSignal
<1>18. ASSUME NEW c \in Conns, EndAnnounce(c)
       PROVE  Threads'
  BY <1>0, <1>18 DEF EndAnnounce, BroadcastIdleCond
<1>19. ASSUME NEW r \in Requests, StartAbort(r)
       PROVE  Threads'
  BY <1>0, <1>19 DEF StartAbort
<1>20. CASE Drain
  BY <1>0, <1>20 DEF Drain, Remaining
<1>21. CASE Reap
  BY <1>0, <1>21 DEF Reap
<1>22. CASE FreeTransports
  BY <1>0, <1>22 DEF FreeTransports, StillUsed
<1>23. CASE Reload
  BY <1>0, <1>23 DEF Reload
<1>24. CASE Spurious
  BY <1>0, <1>24 DEF Spurious, SpuriousWakeup
<1>25. CASE Stopped \/ UNCHANGED vars
  BY <1>0, <1>25 DEF Stopped, vars
<1> QED
  BY <1>1, <1>2, <1>3, <1>4, <1>5, <1>6, <1>7, <1>8, <1>9, <1>10, <1>11,
     <1>12, <1>13, <1>14, <1>15, <1>16, <1>17, <1>18, <1>19, <1>20, <1>21,
     <1>22, <1>23, <1>24, <1>25
     DEF Next, ClientStep, NoopStep, MainStep

\* A client's connection stays busy and its own: the list moves of the other
\* threads never touch a busy connection.
LEMMA HeldInductive ==
  ASSUME IInv, [Next]_vars
  PROVE  Held'
<1> USE DEF listVars, connVars, clientVars, mainVars, Held, Holding
<1>0. /\ status \in [Conns -> {"NONE", "BUSY", "IDLE", "NOOP"}]
      /\ pc \in [Clients -> ClientPCs] /\ conn \in [Clients -> Conns \cup {NoConn}]
      /\ Held
  BY DEF IInv, TypeOK
<1>1. ASSUME NEW t \in Clients, PassGate(t)
      PROVE  Held'
  BY <1>0, <1>1 DEF PassGate
<1>2. ASSUME NEW t \in Clients, GetAnIdleConn(t)
      PROVE  Held'
  <2>1. CASE TakeIdle(t)
    <3>1. Head(idleConns) \in Conns /\ status[Head(idleConns)] = "IDLE"
      BY <2>1, TailProperties DEF TakeIdle, IInv, TypeOK, ListsMatchStatus
    <3> QED BY <1>0, <1>2, <2>1, <3>1 DEF TakeIdle, GetAnIdleConn
  <2>2. CASE NewConn(t)
    <3>1. CASE pc' = [pc EXCEPT ![t] = "out"] /\ UNCHANGED <<conn, connVars>>
      BY <1>0, <3>1
    <3>2. ASSUME NEW c \in Conns, npc[c] = "none", status' = [status EXCEPT ![c] = "BUSY"],
                 conn' = [conn EXCEPT ![t] = c], pc' = [pc EXCEPT ![t] = "sending"]
          PROVE  Held'
      <4>1. status[c] = "NONE"
        BY <3>2 DEF IInv, Threads
      <4> QED BY <1>0, <1>2, <3>2, <4>1 DEF GetAnIdleConn
    <3> QED BY <2>2, <3>1, <3>2 DEF NewConn
  <2>3. CASE pc' = [pc EXCEPT ![t] = "asleep"] /\ UNCHANGED <<conn, connVars>>
    BY <1>0, <2>3
  <2> QED BY <1>2, <2>1, <2>2, <2>3 DEF GetAnIdleConn
<1>3. ASSUME NEW t \in Clients, TimeOut(t)
      PROVE  Held'
  BY <1>0, <1>3 DEF TimeOut
<1>4. ASSUME NEW t \in Clients, GiveUp(t)
      PROVE  Held'
  BY <1>0, <1>4 DEF GiveUp
<1>5. ASSUME NEW t \in Clients, Retest(t)
      PROVE  Held'
  <2>1. CASE TakeIdle(t)
    <3>1. Head(idleConns) \in Conns /\ status[Head(idleConns)] = "IDLE"
      BY <2>1, TailProperties DEF TakeIdle, IInv, TypeOK, ListsMatchStatus
    <3> QED BY <1>0, <1>5, <2>1, <3>1 DEF TakeIdle, Retest
  <2>2. CASE NewConn(t)
    <3>1. CASE pc' = [pc EXCEPT ![t] = "out"] /\ UNCHANGED <<conn, connVars>>
      BY <1>0, <3>1
    <3>2. ASSUME NEW c \in Conns, npc[c] = "none", status' = [status EXCEPT ![c] = "BUSY"],
                 conn' = [conn EXCEPT ![t] = c], pc' = [pc EXCEPT ![t] = "sending"]
          PROVE  Held'
      <4>1. status[c] = "NONE"
        BY <3>2 DEF IInv, Threads
      <4> QED BY <1>0, <1>5, <3>2, <4>1 DEF Retest
    <3> QED BY <2>2, <3>1, <3>2 DEF NewConn
  <2>3. CASE pc' = [pc EXCEPT ![t] = "asleep"] /\ UNCHANGED <<conn, connVars>>
    BY <1>0, <2>3
  <2> QED BY <1>5, <2>1, <2>2, <2>3 DEF Retest
<1>6. ASSUME NEW t \in Clients, Send(t)
      PROVE  Held'
  BY <1>0, <1>6 DEF Send
<1>7. ASSUME NEW t \in Clients, BusyToIdle(t)
      PROVE  Held'
  BY <1>0, <1>7 DEF BusyToIdle
<1>8. ASSUME NEW t \in Clients, BusyToEnd(t)
      PROVE  Held'
  BY <1>0, <1>8 DEF BusyToEnd
<1>9. ASSUME NEW t \in Clients, AnnounceIdle(t)
      PROVE  Held'
  BY <1>0, <1>9 DEF AnnounceIdle, BroadcastIdleCond
<1>10. ASSUME NEW t \in Clients, SignalAndReturn(t)
       PROVE  Held'
  BY <1>0, <1>10 DEF SignalAndReturn, SignalConn
<1>11. ASSUME NEW c \in Conns, NoopPark(c)
       PROVE  Held'
  BY <1>0, <1>11 DEF NoopPark
<1>12. ASSUME NEW c \in Conns, NoopClaim(c)
       PROVE  Held'
  <2>1. status[c] # "BUSY"
    BY <1>12 DEF NoopClaim, IInv, Threads, LeaveAlone
  <2>2. \E s \in {"NONE", "IDLE", "NOOP"} : status' = [status EXCEPT ![c] = s]
    BY <1>12 DEF NoopClaim, EndConn
  <2>3. UNCHANGED <<pc, conn>>
    BY <1>12 DEF NoopClaim
  <2> QED BY <1>0, <2>1, <2>2, <2>3
<1>13. ASSUME NEW c \in Conns, NoopSend(c)
       PROVE  Held'
  BY <1>0, <1>13 DEF NoopSend
<1>14. ASSUME NEW c \in Conns, NoopClose(c)
       PROVE  Held'
  <2>1. status[c] # "BUSY"
    BY <1>14 DEF NoopClose, IInv, Threads, LeaveAlone
  <2>2. \E s \in {"NONE", "IDLE", "NOOP"} : status' = [status EXCEPT ![c] = s]
    BY <1>14 DEF NoopClose, EndConn
  <2>3. UNCHANGED <<pc, conn>>
    BY <1>14 DEF NoopClose
  <2> QED BY <1>0, <2>1, <2>2, <2>3
<1>15. ASSUME NEW c \in Conns, NoopBack(c)
       PROVE  Held'
  <2>1. status[c] # "BUSY"
    BY <1>15 DEF NoopBack, IInv, Threads, LeaveAlone
  <2>2. \E s \in {"NONE", "IDLE", "NOOP"} : status' = [status EXCEPT ![c] = s]
    BY <1>15 DEF NoopBack, EndConn
  <2>3. UNCHANGED <<pc, conn>>
    BY <1>15 DEF NoopBack
  <2> QED BY <1>0, <2>1, <2>2, <2>3
<1>16. ASSUME NEW c \in Conns, NoopAnnounce(c)
       PROVE  Held'
  BY <1>0, <1>16 DEF NoopAnnounce, BroadcastIdleCond
<1>17. ASSUME NEW c \in Conns, EndSignal(c)
       PROVE  Held'
  BY <1>0, <1>17 DEF EndSignal
<1>18. ASSUME NEW c \in Conns, EndAnnounce(c)
       PROVE  Held'
  BY <1>0, <1>18 DEF EndAnnounce, BroadcastIdleCond
<1>19. ASSUME NEW r \in Requests, StartAbort(r)
       PROVE  Held'
  BY <1>0, <1>19 DEF StartAbort
<1>20. CASE Drain
  BY <1>0, <1>20 DEF Drain, Remaining
<1>21. CASE Reap
  BY <1>0, <1>21 DEF Reap
<1>22. CASE FreeTransports
  BY <1>0, <1>22 DEF FreeTransports, StillUsed
<1>23. CASE Reload
  BY <1>0, <1>23 DEF Reload
<1>24. CASE Spurious
  BY <1>0, <1>24 DEF Spurious, SpuriousWakeup
<1>25. CASE Stopped \/ UNCHANGED vars
  BY <1>0, <1>25 DEF Stopped, vars
<1> QED
  BY <1>1, <1>2, <1>3, <1>4, <1>5, <1>6, <1>7, <1>8, <1>9, <1>10, <1>11,
     <1>12, <1>13, <1>14, <1>15, <1>16, <1>17, <1>18, <1>19, <1>20, <1>21,
     <1>22, <1>23, <1>24, <1>25
     DEF Next, ClientStep, NoopStep, MainStep

\* Nobody comes back to a pool that is being made anew.
LEMMA LoadIsQuietInductive ==
  ASSUME IInv, [Next]_vars
  PROVE  LoadIsQuiet'
<1> USE DEF listVars, connVars, clientVars, mainVars
<1>0. LoadIsQuiet /\ mpc \in MainPCs
  BY DEF IInv, TypeOK
<1>1. CASE mpc = "load"
  <2>1. Reload \/ Spurious \/ UNCHANGED vars
    BY <1>0, <1>1 DEF Next, ClientStep, NoopStep, MainStep, LoadIsQuiet, PassGate, GetAnIdleConn, TimeOut,
       GiveUp, Retest, Send, BusyToIdle, BusyToEnd, AnnounceIdle, SignalAndReturn, NoopPark, NoopClaim,
       NoopSend, NoopClose, NoopBack, NoopAnnounce, EndSignal, EndAnnounce, StartAbort, Drain, Reap,
       FreeTransports, Stopped
  <2> QED BY <1>0, <1>1, <2>1 DEF Reload, Spurious, SpuriousWakeup, LoadIsQuiet, vars
<1>2. CASE mpc # "load" /\ mpc' = "load"
  <2>1. FreeTransports
    BY <1>2 DEF Next, ClientStep, NoopStep, MainStep, PassGate, GetAnIdleConn, TimeOut,
       GiveUp, Retest, Send, BusyToIdle, BusyToEnd, AnnounceIdle, SignalAndReturn, NoopPark, NoopClaim,
       NoopSend, NoopClose, NoopBack, NoopAnnounce, EndSignal, EndAnnounce, StartAbort, Drain, Reap,
       Reload, Spurious, SpuriousWakeup, Stopped, BroadcastIdleCond, vars
  <2> QED BY <1>2, <2>1 DEF FreeTransports, StillUsed, LoadIsQuiet
<1>3. CASE mpc' # "load"
  BY <1>3 DEF LoadIsQuiet
<1> QED BY <1>1, <1>2, <1>3

-----------------------------------------------------------------------------
(***************************************************************************)
(* No client sleeps through the chance to get a connection.                *)
(***************************************************************************)

Asleep == \E t \in Clients : pc[t] = "asleep"

\* Every action that gives the sleeping clients something to take leaves a
\* broadcast due, and none takes away the last one while there is something.
LEMMA NoLostWakeupInductive ==
  ASSUME IInv, [Next]_vars
  PROVE  NoLostWakeup'
<1> SUFFICES Asleep' => NothingToTake' \/ BroadcastDue'
  BY DEF NoLostWakeup, Asleep
<1> DEFINE Goal == Asleep' => NothingToTake' \/ BroadcastDue'
<1> USE DEF listVars, connVars, clientVars, mainVars, Asleep, BroadcastDue
<1>0. /\ npc \in [Conns -> NoopPCs] /\ pc \in [Clients -> ClientPCs]
      /\ Asleep => NothingToTake \/ BroadcastDue
  BY DEF IInv, TypeOK, NoLostWakeup
<1>a. ASSUME UNCHANGED listVars, Asleep' => Asleep, BroadcastDue => BroadcastDue'
      PROVE  Goal
  BY <1>0, <1>a DEF NothingToTake, InUse
<1>b. ASSUME Len(idleConns) > 0 \/ ~NothingToTake, Asleep' => Asleep, BroadcastDue => BroadcastDue'
      PROVE  Goal
  BY <1>0, <1>b DEF NothingToTake, IInv, TypeOK
<1>c. ASSUME NEW t \in Clients, TakeIdle(t) \/ NewConn(t), pc[t] \in {"found", "woken"}
      PROVE  (Asleep' => Asleep) /\ (BroadcastDue => BroadcastDue')
  <2>1. PICK p \in {"sending", "out"} : pc' = [pc EXCEPT ![t] = p]
    BY <1>c DEF TakeIdle, NewConn
  <2>2. npc' = npc \/ \E c \in Conns : npc[c] = "none" /\ npc' = [npc EXCEPT ![c] = "top"]
    BY <1>c DEF TakeIdle, NewConn
  <2> QED BY <1>0, <1>c, <2>1, <2>2
<1>d. InUse \in Nat /\ Len(idleConns) \in Nat
  BY FS_CardinalityType DEF InUse, IInv, TypeOK
<1> HIDE DEF Goal
<1>1. ASSUME NEW t \in Clients, PassGate(t)
      PROVE  Goal
  <2>1. UNCHANGED listVars /\ (Asleep' => Asleep) /\ (BroadcastDue => BroadcastDue')
    BY <1>0, <1>1 DEF PassGate
  <2> QED BY <1>a, <2>1
<1>2. ASSUME NEW t \in Clients, GetAnIdleConn(t)
      PROVE  Goal
  <2>1. CASE TakeIdle(t)
    <3>1. Len(idleConns) > 0
      BY <2>1 DEF TakeIdle
    <3> QED BY <1>b, <1>c, <1>2, <2>1, <3>1 DEF GetAnIdleConn
  <2>2. CASE HasRoom /\ NewConn(t)
    <3>1. ~NothingToTake
      BY <1>d, <2>2, PoolAssumption DEF NothingToTake, HasRoom
    <3> QED BY <1>b, <1>c, <1>2, <2>2, <3>1 DEF GetAnIdleConn
  <2>3. CASE Len(idleConns) = 0 /\ ~HasRoom /\ UNCHANGED listVars
    <3>1. NothingToTake
      BY <1>d, <2>3, PoolAssumption DEF NothingToTake, HasRoom, IInv, PoolBound
    <3>2. NothingToTake'
      BY <2>3, <3>1 DEF NothingToTake, InUse
    <3> QED BY <3>2 DEF Goal
  <2> QED BY <1>2, <2>1, <2>2, <2>3 DEF GetAnIdleConn
<1>3. ASSUME NEW t \in Clients, TimeOut(t)
      PROVE  Goal
  <2>1. UNCHANGED listVars /\ (Asleep' => Asleep) /\ (BroadcastDue => BroadcastDue')
    BY <1>0, <1>3 DEF TimeOut
  <2> QED BY <1>a, <2>1
<1>4. ASSUME NEW t \in Clients, GiveUp(t)
      PROVE  Goal
  <2>1. UNCHANGED listVars /\ (Asleep' => Asleep) /\ (BroadcastDue => BroadcastDue')
    BY <1>0, <1>4 DEF GiveUp
  <2> QED BY <1>a, <2>1
<1>5. ASSUME NEW t \in Clients, Retest(t)
      PROVE  Goal
  <2>1. CASE ~NothingToTake /\ (TakeIdle(t) \/ NewConn(t))
    BY <1>b, <1>c, <1>5, <2>1 DEF Retest
  <2>2. CASE NothingToTake /\ UNCHANGED listVars
    <3>1. NothingToTake'
      BY <2>2 DEF NothingToTake, InUse
    <3> QED BY <3>1 DEF Goal
  <2> QED BY <1>5, <2>1, <2>2 DEF Retest
<1>6. ASSUME NEW t \in Clients, Send(t)
      PROVE  Goal
  <2>1. UNCHANGED listVars /\ (Asleep' => Asleep) /\ (BroadcastDue => BroadcastDue')
    BY <1>0, <1>6 DEF Send
  <2> QED BY <1>a, <2>1
<1>7. ASSUME NEW t \in Clients, BusyToIdle(t)
      PROVE  Goal
  <2>1. BroadcastDue'
    BY <1>0, <1>7 DEF BusyToIdle
  <2> QED BY <2>1 DEF Goal
<1>8. ASSUME NEW t \in Clients, BusyToEnd(t)
      PROVE  Goal
  <2>1. (Asleep' => Asleep) /\ (BroadcastDue => BroadcastDue')
    BY <1>0, <1>8 DEF BusyToEnd
  <2>2. conn[t] \in busyConns /\ conn[t] \notin noopConns
    BY <1>8 DEF BusyToEnd, IInv, Held, Holding, ListsMatchStatus
  <2>3. /\ Cardinality(busyConns') = Cardinality(busyConns) - 1
        /\ Cardinality(noopConns') = Cardinality(noopConns) + 1
        /\ Cardinality(busyConns) \in Nat /\ Cardinality(noopConns) \in Nat
    BY <1>8, <2>2, AddNew, RemoveOld DEF BusyToEnd, IInv, TypeOK
  <2>4. idleConns' = idleConns
    BY <1>8 DEF BusyToEnd
  <2>5. InUse' = InUse
    BY <2>3 DEF InUse
  <2> QED BY <1>0, <2>1, <2>4, <2>5 DEF NothingToTake, Goal
<1>9. ASSUME NEW t \in Clients, AnnounceIdle(t)
      PROVE  Goal
  <2>1. ~Asleep'
    BY <1>0, <1>9 DEF AnnounceIdle, BroadcastIdleCond
  <2> QED BY <2>1 DEF Goal
<1>10. ASSUME NEW t \in Clients, SignalAndReturn(t)
       PROVE  Goal
  <2>1. UNCHANGED listVars /\ (Asleep' => Asleep) /\ (BroadcastDue => BroadcastDue')
    BY <1>0, <1>10 DEF SignalAndReturn, SignalConn
  <2> QED BY <1>a, <2>1
<1>11. ASSUME NEW c \in Conns, NoopPark(c)
       PROVE  Goal
  <2>1. UNCHANGED listVars /\ (Asleep' => Asleep) /\ (BroadcastDue => BroadcastDue')
    BY <1>0, <1>11 DEF NoopPark
  <2> QED BY <1>a, <2>1
<1>12. ASSUME NEW c \in Conns, NoopClaim(c)
       PROVE  Goal
  <2>1. CASE endFlag[c]
    <3>1. BroadcastDue'
      BY <1>0, <1>12, <2>1 DEF NoopClaim, EndConn
    <3> QED BY <3>1 DEF Goal
  <2>2. CASE ~endFlag[c]
    <3>1. (Asleep' => Asleep) /\ (BroadcastDue => BroadcastDue')
      BY <1>0, <1>12, <2>2 DEF NoopClaim
    <3>2. CASE status[c] = "IDLE"
      <4>1. c \in Elems(idleConns)
        BY <3>2 DEF IInv, ListsMatchStatus
      <4>2. Len(idleConns) > 0
        BY <4>1, <1>d DEF Elems
      <4> QED BY <3>1, <4>2, <1>b
    <3>3. CASE status[c] # "IDLE"
      <4>1. status[c] = "NOOP"
        BY <1>12, <3>3 DEF NoopClaim, LeaveAlone, IInv, Threads, TypeOK
      <4>2. c \in noopConns
        BY <4>1 DEF IInv, ListsMatchStatus
      <4>3. UNCHANGED listVars
        BY <1>12, <2>2, <3>3, <4>2 DEF NoopClaim
      <4> QED BY <3>1, <4>3, <1>a
    <3> QED BY <3>2, <3>3
  <2> QED BY <2>1, <2>2
<1>13. ASSUME NEW c \in Conns, NoopSend(c)
       PROVE  Goal
  <2>1. UNCHANGED listVars /\ (Asleep' => Asleep) /\ (BroadcastDue => BroadcastDue')
    BY <1>0, <1>13 DEF NoopSend
  <2> QED BY <1>a, <2>1
<1>14. ASSUME NEW c \in Conns, NoopClose(c)
       PROVE  Goal
  <2>1. BroadcastDue'
    BY <1>0, <1>14 DEF NoopClose, EndConn
  <2> QED BY <2>1 DEF Goal
<1>15. ASSUME NEW c \in Conns, NoopBack(c)
       PROVE  Goal
  <2>1. BroadcastDue'
    BY <1>0, <1>15 DEF NoopBack, EndConn
  <2> QED BY <2>1 DEF Goal
<1>16. ASSUME NEW c \in Conns, NoopAnnounce(c)
       PROVE  Goal
  <2>1. ~Asleep'
    BY <1>0, <1>16 DEF NoopAnnounce, BroadcastIdleCond
  <2> QED BY <2>1 DEF Goal
<1>17. ASSUME NEW c \in Conns, EndSignal(c)
       PROVE  Goal
  <2>1. UNCHANGED listVars /\ (Asleep' => Asleep) /\ (BroadcastDue => BroadcastDue')
    BY <1>0, <1>17 DEF EndSignal
  <2> QED BY <1>a, <2>1
<1>18. ASSUME NEW c \in Conns, EndAnnounce(c)
       PROVE  Goal
  <2>1. ~Asleep'
    BY <1>0, <1>18 DEF EndAnnounce, BroadcastIdleCond
  <2> QED BY <2>1 DEF Goal
<1>19. ASSUME NEW r \in Requests, StartAbort(r)
       PROVE  Goal
  <2>1. UNCHANGED listVars /\ (Asleep' => Asleep) /\ (BroadcastDue => BroadcastDue')
    BY <1>0, <1>19 DEF StartAbort
  <2> QED BY <1>a, <2>1
<1>20. ASSUME Drain
       PROVE  Goal
  <2>1. UNCHANGED listVars /\ (Asleep' => Asleep) /\ (BroadcastDue => BroadcastDue')
    BY <1>0, <1>20 DEF Drain
  <2> QED BY <1>a, <2>1
<1>21. ASSUME Reap
       PROVE  Goal
  <2>1. UNCHANGED listVars /\ (Asleep' => Asleep) /\ (BroadcastDue => BroadcastDue')
    BY <1>0, <1>21 DEF Reap
  <2> QED BY <1>a, <2>1
<1>22. ASSUME FreeTransports
       PROVE  Goal
  <2>1. UNCHANGED listVars /\ (Asleep' => Asleep) /\ (BroadcastDue => BroadcastDue')
    BY <1>0, <1>22 DEF FreeTransports
  <2> QED BY <1>a, <2>1
<1>23. ASSUME Reload
       PROVE  Goal
  <2>1. ~Asleep'
    BY <1>23 DEF Reload, IInv, LoadIsQuiet
  <2> QED BY <2>1 DEF Goal
<1>24. ASSUME Spurious
       PROVE  Goal
  <2>1. UNCHANGED listVars /\ (Asleep' => Asleep) /\ (BroadcastDue => BroadcastDue')
    BY <1>0, <1>24 DEF Spurious, SpuriousWakeup
  <2> QED BY <1>a, <2>1
<1>25. ASSUME Stopped \/ UNCHANGED vars
       PROVE  Goal
  <2>1. UNCHANGED listVars /\ (Asleep' => Asleep) /\ (BroadcastDue => BroadcastDue')
    BY <1>0, <1>25 DEF Stopped, vars
  <2> QED BY <1>a, <2>1
<1> QED
  BY <1>1, <1>2, <1>3, <1>4, <1>5, <1>6, <1>7, <1>8, <1>9, <1>10, <1>11,
     <1>12, <1>13, <1>14, <1>15, <1>16, <1>17, <1>18, <1>19, <1>20, <1>21,
     <1>22, <1>23, <1>24, <1>25
     DEF Next, ClientStep, NoopStep, MainStep, Goal

-----------------------------------------------------------------------------
(***************************************************************************)
(* The invariant, and what follows from it.                                *)
(***************************************************************************)

\* An empty pool satisfies the inductive invariant.
LEMMA IInvInit == Init => IInv
<1> SUFFICES ASSUME Init PROVE IInv
  OBVIOUS
<1> USE DEF Init
<1>1. /\ IsFiniteSet({}) /\ Cardinality({}) = 0
      /\ Len(<<>>) = 0 /\ <<>> \in Seq(Conns)
  BY FS_EmptySet
<1>2. TypeOK
  BY <1>1 DEF TypeOK, ClientPCs, NoopPCs, MainPCs
<1>3. ListsMatchStatus
  BY <1>1 DEF ListsMatchStatus, Elems, NoRepeat
<1>4. PoolBound
  BY <1>1, PoolAssumption DEF PoolBound, InUse
<1>5. Threads /\ Held /\ LoadIsQuiet /\ NoLostWakeup
  BY DEF Threads, Held, Holding, LoadIsQuiet, NoLostWakeup
<1>6. WaitingIsExact
  <2>1. {t \in Clients : pc[t] \in Waiting} = {}
    BY DEF Waiting
  <2> QED BY <1>1, <2>1 DEF WaitingIsExact
<1> QED BY <1>2, <1>3, <1>4, <1>5, <1>6 DEF IInv

\* Every step of the pool keeps the inductive invariant.
LEMMA IInvNext == IInv /\ [Next]_vars => IInv'
<1> SUFFICES ASSUME IInv, [Next]_vars PROVE IInv'
  OBVIOUS
<1>1. ListsTypeOK' /\ ListsMatchStatus' /\ PoolBound'
  <2>1. ListsTypeOK /\ ListsMatchStatus /\ PoolBound
    BY DEF IInv, TypeOK, ListsTypeOK
  <2> QED BY <2>1, StepMoves, MovesKeepLists
<1>2. waiting' \in Nat /\ WaitingIsExact'
  BY WaitingInductive
<1>3. TypeOK'
  BY <1>1, <1>2, ControlTypeInductive DEF TypeOK, ListsTypeOK, ControlTypeOK
<1> QED
  BY <1>1, <1>2, <1>3, ThreadsInductive, HeldInductive, LoadIsQuietInductive, NoLostWakeupInductive
     DEF IInv

\* The inductive invariant holds in every reachable state.
LEMMA Invariance == Spec => []IInv
BY IInvInit, IInvNext, PTL DEF Spec

\* Every variable has its type in every reachable state: tp->waiting, for one,
\* never goes below zero.
THEOREM TypeCorrect == Spec => []TypeOK
<1>1. IInv => TypeOK
  BY DEF IInv
<1> QED BY <1>1, Invariance, PTL

\* The proxy never holds more than maxConn connections, however many clients,
\* NOOP threads, failures and reloads there are (transport.c:331,343).
THEOREM PoolIsBounded == Spec => []PoolBound
<1>1. IInv => PoolBound
  BY DEF IInv
<1> QED BY <1>1, Invariance, PTL

\* dllistMvNode and dllistDelete always unlink a node from the list it is on:
\* the status of a connection names that list (transport.c:218-403).
THEOREM ListsAreConsistent == Spec => []ListsMatchStatus
<1>1. IInv => ListsMatchStatus
  BY DEF IInv
<1> QED BY <1>1, Invariance, PTL

\* No two threads ever talk on one connection at the same time.
THEOREM DialoguesAreExclusive == Spec => []OneDialogue
<1>1. IInv => OneDialogue
  BY DEF IInv, Threads, Held, OneDialogue
<1> QED BY <1>1, Invariance, PTL

\* tp->waiting counts the clients in the wait loop exactly.
THEOREM WaitingIsCounted == Spec => []WaitingIsExact
<1>1. IInv => WaitingIsExact
  BY DEF IInv
<1> QED BY <1>1, Invariance, PTL

\* A client asleep in getAnIdleConn has nothing to take, or a broadcast is due:
\* the argument of the comment at transport.c:225-231, for every pool size.
THEOREM WakeupsAreNotLost == Spec => []NoLostWakeup
<1>1. IInv => NoLostWakeup
  BY DEF IInv
<1> QED BY <1>1, Invariance, PTL

-----------------------------------------------------------------------------
(***************************************************************************)
(* The pool implements LeasedPool: every step leaves the owners alone or   *)
(* moves one connection the way LeasedPool lets it.                        *)
(***************************************************************************)

\* What the owner of a connection is, with the CHOOSE of Owner gone.
OwnerKnown(c) ==
  \/ status[c] = "NONE" /\ Owner(c) = "closed"
  \/ status[c] = "BUSY" /\ \E t \in Clients : Holds(t, c) /\ Owner(c) = t
  \/ status[c] = "BUSY" /\ Owner(c) = "keeper" /\ \A t \in Clients : ~Holds(t, c)
  \/ status[c] = "IDLE" /\ Owner(c) = "pool"
  \/ status[c] = "NOOP" /\ Owner(c) = "keeper"

\* Only a busy connection is held, by one client, who is then its owner.
OwnersKnown ==
  /\ status \in [Conns -> {"NONE", "BUSY", "IDLE", "NOOP"}]
  /\ \A c \in Conns : OwnerKnown(c)
  /\ \A c \in Conns, t \in Clients : Holds(t, c) => status[c] = "BUSY"
  /\ \A c \in Conns, t, u \in Clients : Holds(t, c) /\ Holds(u, c) => t = u

\* The invariant determines the owners.
LEMMA OwnersAreKnown == IInv => OwnersKnown
<1> SUFFICES ASSUME IInv PROVE OwnersKnown
  OBVIOUS
<1>1. status \in [Conns -> {"NONE", "BUSY", "IDLE", "NOOP"}] /\ Held
  BY DEF IInv, TypeOK
<1>2. \A c \in Conns, t \in Clients : Holds(t, c) => status[c] = "BUSY"
  BY <1>1 DEF Held, Holds
<1>3. \A c \in Conns, t, u \in Clients : Holds(t, c) /\ Holds(u, c) => t = u
  BY <1>1 DEF Held, Holds
<1>4. ASSUME NEW c \in Conns
      PROVE  OwnerKnown(c)
  <2>1. CASE \E t \in Clients : Holds(t, c)
    <3>1. PICK t \in Clients : Holds(t, c)
      BY <2>1
    <3>2. Owner(c) = CHOOSE u \in Clients : Holds(u, c)
      BY <1>2, <2>1 DEF Owner
    <3> QED BY <1>2, <2>1, <3>2 DEF OwnerKnown
  <2>2. CASE ~\E t \in Clients : Holds(t, c)
    BY <1>1, <2>2 DEF OwnerKnown, Owner
  <2> QED BY <2>1, <2>2
<1> QED BY <1>1, <1>2, <1>3, <1>4 DEF OwnersKnown

\* A connection whose status and holders stay keeps its owner.
LEMMA OwnerStays ==
  ASSUME OwnersKnown, OwnersKnown', NEW c \in Conns,
         status'[c] = status[c], \A t \in Clients : Holds(t, c)' <=> Holds(t, c)
  PROVE  Owner(c)' = Owner(c)
<1>1. OwnerKnown(c) /\ OwnerKnown(c)'
  BY DEF OwnersKnown
<1>2. \A t, u \in Clients : Holds(t, c) /\ Holds(u, c) => t = u
  BY DEF OwnersKnown
<1> QED BY <1>1, <1>2 DEF OwnerKnown

\* Connection c, and no other, has a new owner, o.
NewOwner(c, o) == \A d \in Conns : Owner(d)' = IF d = c THEN o ELSE Owner(d)

\* The actions of LeasedPool, in the terms of the pool.
LeaseStep ==
  \/ \A d \in Conns : Owner(d)' = Owner(d)
  \/ \E c \in Conns, t \in Clients :
       \/ /\ Owner(c) = "closed" /\ \A d \in Conns : Owner(d) # t
          /\ Cardinality({d \in Conns : Owner(d) # "closed"}) < maxConn
          /\ NewOwner(c, t)
       \/ Owner(c) = "pool" /\ (\A d \in Conns : Owner(d) # t) /\ NewOwner(c, t)
       \/ Owner(c) = t /\ \E o \in {"pool", "keeper"} : NewOwner(c, o)
  \/ \E c \in Conns :
       \/ Owner(c) = "pool" /\ NewOwner(c, "keeper")
       \/ Owner(c) = "keeper" /\ NewOwner(c, "pool")
       \/ Owner(c) \in {"pool", "keeper"} /\ NewOwner(c, "closed")

\* They are the actions of LeasedPool.
LEMMA LeaseStepsMap ==
  ASSUME LeaseStep
  PROVE  [Leased!Next]_Owners
<1>0. \A S : Leased!Cardinality(S) = Cardinality(S)
  BY DEF Leased!Cardinality, Cardinality
<1>1. ASSUME NEW c \in Conns, NEW o, NewOwner(c, o)
      PROVE  Owners' = [Owners EXCEPT ![c] = o]
  BY <1>1 DEF NewOwner, Owners
<1>2. CASE \A d \in Conns : Owner(d)' = Owner(d)
  BY <1>2 DEF Owners
<1>3. ASSUME NEW c \in Conns, NEW t \in Clients,
             \/ /\ Owner(c) = "closed" /\ \A d \in Conns : Owner(d) # t
                /\ Cardinality({d \in Conns : Owner(d) # "closed"}) < maxConn
                /\ NewOwner(c, t)
             \/ Owner(c) = "pool" /\ (\A d \in Conns : Owner(d) # t) /\ NewOwner(c, t)
             \/ Owner(c) = t /\ \E o \in {"pool", "keeper"} : NewOwner(c, o)
      PROVE  Leased!Next
  <2>1. {d \in Conns : Owners[d] # "closed"} = {d \in Conns : Owner(d) # "closed"}
    BY DEF Owners
  <2>2. Leased!Open(c, t) \/ Leased!Lend(c, t) \/ Leased!Return(c, t)
    BY <1>0, <1>1, <1>3, <2>1 DEF Leased!Open, Leased!Lend, Leased!Return, Leased!FreeHanded, Leased!IsOpen, Owners
  <2> QED BY <2>2 DEF Leased!Next
<1>4. ASSUME NEW c \in Conns,
             \/ Owner(c) = "pool" /\ NewOwner(c, "keeper")
             \/ Owner(c) = "keeper" /\ NewOwner(c, "pool")
             \/ Owner(c) \in {"pool", "keeper"} /\ NewOwner(c, "closed")
      PROVE  Leased!Next
  <2>1. Leased!Keep(c) \/ Leased!Release(c) \/ Leased!Close(c)
    BY <1>1, <1>4 DEF Leased!Keep, Leased!Release, Leased!Close, Owners
  <2> QED BY <2>1 DEF Leased!Next
<1> QED BY <1>2, <1>3, <1>4 DEF LeaseStep

\* A step that leaves the status and the work of the clients alone.
LEMMA QuietSteps ==
  ASSUME OwnersKnown, OwnersKnown', status' = status,
         \A c \in Conns, t \in Clients : Holds(t, c)' <=> Holds(t, c)
  PROVE  LeaseStep
BY OwnerStays DEF LeaseStep

\* A step that changes the status of one connection, and at most its holder.
LEMMA OneChange ==
  ASSUME OwnersKnown, OwnersKnown', NEW c \in Conns, NEW s, status' = [status EXCEPT ![c] = s],
         \A d \in Conns \ {c}, t \in Clients : Holds(t, d)' <=> Holds(t, d)
  PROVE  NewOwner(c, Owner(c)')
<1>1. ASSUME NEW d \in Conns, d # c
      PROVE  Owner(d)' = Owner(d)
  <2>1. status'[d] = status[d]
    BY <1>1 DEF OwnersKnown
  <2> QED BY <1>1, <2>1, OwnerStays
<1> QED BY <1>1 DEF NewOwner

\* A client that gets a connection was free-handed and becomes its owner.
LEMMA ClientGets ==
  ASSUME OwnersKnown, OwnersKnown', NEW t \in Clients, NEW c \in Conns,
         pc \in [Clients -> ClientPCs], conn \in [Clients -> Conns \cup {NoConn}],
         pc[t] \in {"found", "woken"}, pc' = [pc EXCEPT ![t] = "sending"],
         conn' = [conn EXCEPT ![t] = c],
         status[c] \in {"NONE", "IDLE"}, status' = [status EXCEPT ![c] = "BUSY"]
  PROVE  NewOwner(c, t) /\ \A d \in Conns : Owner(d) # t
<1>1. \A d \in Conns : ~Holds(t, d)
  BY DEF Holds, Holding
<1>2. \A d \in Conns : Owner(d) # t
  BY <1>1, PoolAssumption DEF OwnersKnown, OwnerKnown
<1>3. \A d \in Conns \ {c}, u \in Clients : Holds(u, d)' <=> Holds(u, d)
  BY DEF Holds, Holding
<1>4. NewOwner(c, Owner(c)')
  BY <1>3, OneChange
<1>5. Holds(t, c)'
  BY DEF Holds, Holding
<1>6. Owner(c)' = t
  BY <1>5 DEF OwnersKnown, OwnerKnown
<1> QED BY <1>2, <1>4, <1>6

\* A client that gives its connection back was its owner.
LEMMA ClientReturns ==
  ASSUME OwnersKnown, OwnersKnown', NEW t \in Clients, NEW c \in Conns,
         pc \in [Clients -> ClientPCs], Holds(t, c), NEW p \in {"bcast", "signal"},
         pc' = [pc EXCEPT ![t] = p], conn' = conn,
         NEW s \in {"IDLE", "NOOP"}, status' = [status EXCEPT ![c] = s]
  PROVE  LeaseStep
<1>1. Owner(c) = t
  BY DEF OwnersKnown, OwnerKnown
<1>2. \A d \in Conns \ {c}, u \in Clients : Holds(u, d)' <=> Holds(u, d)
  BY DEF Holds, Holding
<1>3. NewOwner(c, Owner(c)')
  BY <1>2, OneChange
<1>4. status'[c] \in {"IDLE", "NOOP"}
  BY DEF OwnersKnown
<1>5. Owner(c)' \in {"pool", "keeper"}
  BY <1>4 DEF OwnersKnown, OwnerKnown
<1> QED BY <1>1, <1>3, <1>5 DEF LeaseStep

\* The thread of a connection that is not busy moves or ends it.
LEMMA KeeperMoves ==
  ASSUME OwnersKnown, OwnersKnown', NEW c \in Conns, NEW s \in {"NONE", "IDLE", "NOOP"},
         status[c] \in {"IDLE", "NOOP"}, status' = [status EXCEPT ![c] = s],
         pc' = pc, conn' = conn
  PROVE  LeaseStep
<1>1. \A d \in Conns, u \in Clients : Holds(u, d)' <=> Holds(u, d)
  BY DEF Holds
<1>2. NewOwner(c, Owner(c)')
  BY <1>1, OneChange
<1>3. status'[c] = s
  BY DEF OwnersKnown
<1>4. Owner(c) = (IF status[c] = "IDLE" THEN "pool" ELSE "keeper")
  BY DEF OwnersKnown, OwnerKnown
<1>5. Owner(c)' = CASE s = "NONE" -> "closed" [] s = "IDLE" -> "pool" [] s = "NOOP" -> "keeper"
  BY <1>3 DEF OwnersKnown, OwnerKnown
<1>6. CASE Owner(c)' = Owner(c)
  BY <1>2, <1>6 DEF NewOwner, LeaseStep
<1>7. CASE Owner(c)' # Owner(c)
  BY <1>2, <1>4, <1>5, <1>7 DEF LeaseStep
<1> QED BY <1>6, <1>7

\* The connections that are open are those on the lists.
LEMMA OpenConns ==
  ASSUME IInv, OwnersKnown, Len(idleConns) = 0, HasRoom
  PROVE  Cardinality({d \in Conns : Owner(d) # "closed"}) < maxConn
<1> DEFINE opened == {d \in Conns : Owner(d) # "closed"}
<1>1. Elems(idleConns) = {}
  BY DEF Elems
<1>2. \A d \in Conns : Owner(d) # "closed" <=> status[d] # "NONE"
  BY PoolAssumption DEF OwnersKnown, OwnerKnown
<1>3. opened = busyConns \cup noopConns
  BY <1>1, <1>2 DEF IInv, ListsMatchStatus, OwnersKnown
<1>4. busyConns \cap noopConns = {}
  BY DEF IInv, ListsMatchStatus
<1>5. IsFiniteSet(busyConns) /\ IsFiniteSet(noopConns)
  BY DEF IInv, TypeOK
<1>6. Cardinality(busyConns) \in Nat /\ Cardinality(noopConns) \in Nat
  BY <1>5, FS_CardinalityType
<1>7. Cardinality(busyConns \cup noopConns) = Cardinality(busyConns) + Cardinality(noopConns)
  <2>1. Cardinality(busyConns \cap noopConns) = 0
    BY <1>4, FS_EmptySet
  <2>2. Cardinality(busyConns \cup noopConns) =
          Cardinality(busyConns) + Cardinality(noopConns) - Cardinality(busyConns \cap noopConns)
    BY <1>5, FS_Union
  <2> QED BY <1>6, <2>1, <2>2
<1>8. Cardinality(opened) = InUse
  BY <1>3, <1>7 DEF InUse
<1> QED BY <1>8 DEF HasRoom, opened

\* A client in getAnIdleConn is lent the head of the idle list.
LEMMA TakeIdleLends ==
  ASSUME IInv, OwnersKnown, OwnersKnown', NEW t \in Clients, TakeIdle(t), pc[t] \in {"found", "woken"}
  PROVE  LeaseStep
<1> DEFINE c == Head(idleConns)
<1>1. c \in Conns /\ c \in Elems(idleConns)
  BY DEF TakeIdle, IInv, TypeOK, Elems
<1>2. status[c] = "IDLE"
  BY <1>1 DEF IInv, ListsMatchStatus
<1>3. Owner(c) = "pool"
  BY <1>1, <1>2 DEF OwnersKnown, OwnerKnown
<1>4. /\ pc' = [pc EXCEPT ![t] = "sending"] /\ conn' = [conn EXCEPT ![t] = c]
      /\ status' = [status EXCEPT ![c] = "BUSY"]
      /\ pc \in [Clients -> ClientPCs] /\ conn \in [Clients -> Conns \cup {NoConn}]
  BY DEF TakeIdle, IInv, TypeOK
<1> HIDE DEF c
<1>5. NewOwner(c, t) /\ \A d \in Conns : Owner(d) # t
  BY <1>1, <1>2, <1>4, ClientGets
<1> QED BY <1>1, <1>3, <1>5 DEF LeaseStep

\* newConn opens one, within maxConn, or fails.
LEMMA NewConnOpens ==
  ASSUME IInv, OwnersKnown, OwnersKnown', NEW t \in Clients, NewConn(t), pc[t] \in {"found", "woken"},
         Len(idleConns) = 0, HasRoom
  PROVE  LeaseStep
<1>0. pc \in [Clients -> ClientPCs] /\ conn \in [Clients -> Conns \cup {NoConn}]
  BY DEF IInv, TypeOK
<1>1. ASSUME NEW c \in Conns, npc[c] = "none", status' = [status EXCEPT ![c] = "BUSY"],
             conn' = [conn EXCEPT ![t] = c], pc' = [pc EXCEPT ![t] = "sending"]
      PROVE  LeaseStep
  <2>1. status[c] = "NONE"
    BY <1>1 DEF IInv, Threads
  <2>2. Owner(c) = "closed"
    BY <2>1 DEF OwnersKnown, OwnerKnown
  <2>3. Cardinality({d \in Conns : Owner(d) # "closed"}) < maxConn
    BY OpenConns
  <2>4. NewOwner(c, t) /\ \A d \in Conns : Owner(d) # t
    BY <1>0, <1>1, <2>1, ClientGets
  <2> QED BY <2>2, <2>3, <2>4 DEF LeaseStep
<1>2. CASE pc' = [pc EXCEPT ![t] = "out"] /\ UNCHANGED <<conn, connVars, listVars>>
  <2>1. status' = status /\ \A d \in Conns, u \in Clients : Holds(u, d)' <=> Holds(u, d)
    BY <1>0, <1>2 DEF Holds, Holding, connVars
  <2> QED BY <2>1, QuietSteps
<1> QED BY <1>1, <1>2 DEF NewConn

\* Every step of the pool is a step of LeasedPool, or none.
LEMMA StepLeases ==
  ASSUME IInv, [Next]_vars, OwnersKnown, OwnersKnown'
  PROVE  LeaseStep
<1> USE DEF listVars, connVars, clientVars, mainVars
<1>0. /\ pc \in [Clients -> ClientPCs] /\ conn \in [Clients -> Conns \cup {NoConn}]
      /\ status \in [Conns -> {"NONE", "BUSY", "IDLE", "NOOP"}]
  BY DEF IInv, TypeOK
<1>1. ASSUME NEW t \in Clients, PassGate(t) \/ TimeOut(t) \/ GiveUp(t)
      PROVE  LeaseStep
  <2>1. status' = status /\ \A d \in Conns, u \in Clients : Holds(u, d)' <=> Holds(u, d)
    BY <1>0, <1>1 DEF PassGate, TimeOut, GiveUp, Holds, Holding
  <2> QED BY <2>1, QuietSteps
<1>2. ASSUME NEW t \in Clients, Send(t)
      PROVE  LeaseStep
  <2>1. pc[t] \in Holding /\ \E p \in Holding : pc' = [pc EXCEPT ![t] = p]
    BY <1>2 DEF Send, Holding
  <2>2. status' = status /\ conn' = conn
    BY <1>2 DEF Send
  <2>3. \A d \in Conns, u \in Clients : Holds(u, d)' <=> Holds(u, d)
    BY <1>0, <2>1, <2>2 DEF Holds
  <2> QED BY <2>2, <2>3, QuietSteps
<1>3. ASSUME NEW t \in Clients, AnnounceIdle(t) \/ SignalAndReturn(t)
      PROVE  LeaseStep
  <2>1. status' = status /\ \A d \in Conns, u \in Clients : Holds(u, d)' <=> Holds(u, d)
    BY <1>0, <1>3 DEF AnnounceIdle, SignalAndReturn, BroadcastIdleCond, Holds, Holding
  <2> QED BY <2>1, QuietSteps
<1>4. ASSUME NEW t \in Clients, GetAnIdleConn(t)
      PROVE  LeaseStep
  <2>1. CASE Len(idleConns) = 0 /\ ~HasRoom /\ UNCHANGED connVars
    <3>1. status' = status /\ \A d \in Conns, u \in Clients : Holds(u, d)' <=> Holds(u, d)
      BY <1>0, <1>4, <2>1 DEF GetAnIdleConn, TakeIdle, Holds, Holding
    <3> QED BY <3>1, QuietSteps
  <2>2. pc[t] \in {"found", "woken"}
    BY <1>4 DEF GetAnIdleConn
  <2> QED BY <1>4, <2>1, <2>2, TakeIdleLends, NewConnOpens DEF GetAnIdleConn
<1>5. ASSUME NEW t \in Clients, Retest(t)
      PROVE  LeaseStep
  <2>1. CASE pc' = [pc EXCEPT ![t] = "asleep"] /\ UNCHANGED <<conn, connVars>>
    <3>1. status' = status /\ \A d \in Conns, u \in Clients : Holds(u, d)' <=> Holds(u, d)
      BY <1>0, <1>5, <2>1 DEF Retest, Holds, Holding
    <3> QED BY <3>1, QuietSteps
  <2>2. ~NothingToTake /\ Len(idleConns) = 0 => HasRoom
    <3>1. InUse \in Nat
      BY FS_CardinalityType DEF InUse, IInv, TypeOK
    <3> QED BY <3>1, PoolAssumption DEF NothingToTake, HasRoom, IInv, PoolBound
  <2>3. pc[t] \in {"found", "woken"}
    BY <1>5 DEF Retest
  <2> QED BY <1>5, <2>1, <2>2, <2>3, TakeIdleLends, NewConnOpens DEF Retest
<1>6. ASSUME NEW t \in Clients, BusyToIdle(t) \/ BusyToEnd(t)
      PROVE  LeaseStep
  <2>1. conn[t] \in Conns /\ Holds(t, conn[t])
    BY <1>6 DEF BusyToIdle, BusyToEnd, IInv, Held, Holds, Holding
  <2>2. /\ conn' = conn
        /\ \E p \in {"bcast", "signal"} : pc' = [pc EXCEPT ![t] = p]
        /\ \E s \in {"IDLE", "NOOP"} : status' = [status EXCEPT ![conn[t]] = s]
    BY <1>6 DEF BusyToIdle, BusyToEnd
  <2> QED BY <1>0, <2>1, <2>2, ClientReturns
<1>7. ASSUME NEW c \in Conns, NoopPark(c) \/ NoopSend(c) \/ EndSignal(c)
      PROVE  LeaseStep
  <2>1. status' = status /\ \A d \in Conns, u \in Clients : Holds(u, d)' <=> Holds(u, d)
    BY <1>7 DEF NoopPark, NoopSend, EndSignal, Holds
  <2> QED BY <2>1, QuietSteps
<1>8. ASSUME NEW c \in Conns, NoopAnnounce(c) \/ EndAnnounce(c)
      PROVE  LeaseStep
  <2>1. status' = status /\ \A d \in Conns, u \in Clients : Holds(u, d)' <=> Holds(u, d)
    BY <1>0, <1>8 DEF NoopAnnounce, EndAnnounce, BroadcastIdleCond, Holds, Holding
  <2> QED BY <2>1, QuietSteps
<1>9. ASSUME NEW c \in Conns, NoopClaim(c) \/ NoopClose(c) \/ NoopBack(c)
      PROVE  LeaseStep
  <2>1. status[c] \in {"IDLE", "NOOP"}
    BY <1>9 DEF NoopClaim, NoopClose, NoopBack, LeaveAlone, IInv, Threads, TypeOK
  <2>2. pc' = pc /\ conn' = conn /\ \E s \in {"NONE", "IDLE", "NOOP"} : status' = [status EXCEPT ![c] = s]
    BY <1>9 DEF NoopClaim, NoopClose, NoopBack, EndConn
  <2> QED BY <2>1, <2>2, KeeperMoves
<1>10. CASE (\E r \in Requests : StartAbort(r)) \/ MainStep \/ Stopped \/ UNCHANGED vars
  <2>1. status' = status /\ \A d \in Conns, u \in Clients : Holds(u, d)' <=> Holds(u, d)
    BY <1>10 DEF StartAbort, MainStep, Drain, Reap, FreeTransports, Reload, Stopped, vars, Holds
  <2> QED BY <2>1, QuietSteps
<1>11. CASE Spurious
  <2>1. status' = status /\ \A d \in Conns, u \in Clients : Holds(u, d)' <=> Holds(u, d)
    BY <1>0, <1>11 DEF Spurious, SpuriousWakeup, Holds, Holding
  <2> QED BY <2>1, QuietSteps
<1> QED
  BY <1>1, <1>2, <1>3, <1>4, <1>5, <1>6, <1>7, <1>8, <1>9, <1>10, <1>11
     DEF Next, ClientStep, NoopStep

\* In an empty pool every connection is closed.
LEMMA InitLeases ==
  ASSUME Init
  PROVE  Leased!Init
<1>1. ASSUME NEW c \in Conns
      PROVE  Owner(c) = "closed"
  BY DEF Init, Owner, Holds, Holding
<1> QED BY <1>1 DEF Leased!Init, Owners

\* The pool is a LeasedPool: a connection has one owner at a time, is closed by
\* its own thread alone and never while it is lent out, and no more than maxConn
\* are open (transport.c:331-403), for any clients, connections and limits.
THEOREM PoolImplementsLeasedPool == Spec => ImplementsLeasedPool
<1>1. Init => Leased!Init
  BY InitLeases
<1>2. IInv' => OwnersKnown'
  BY OwnersAreKnown, PTL
<1>3. IInv /\ IInv' /\ [Next]_vars => [Leased!Next]_Owners
  BY <1>2, OwnersAreKnown, StepLeases, LeaseStepsMap
<1> QED BY <1>1, <1>3, Invariance, PTL DEF Spec, ImplementsLeasedPool, Leased!Spec

=============================================================================
