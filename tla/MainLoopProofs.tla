--------------------------- MODULE MainLoopProofs ---------------------------
(***************************************************************************)
(* Proofs about the accept loop, for any number of applications, any       *)
(* backlog and any edits of transport.ini: the fates of the connections    *)
(* agree with fd and with the backlog, and no connection that accept       *)
(* returned is dropped but by a reload or by the end of the program.       *)
(*                                                                         *)
(* The inductive invariant adds to TypeOK that nobody is in the backlog    *)
(* twice, and how fd and the flags go with the place in the loop.          *)
(***************************************************************************)
EXTENDS MainLoop, NodeLists, TLAPS

-----------------------------------------------------------------------------
(***************************************************************************)
(* A backlog holds a connection once.                                      *)
(***************************************************************************)

\* A connection joins a backlog it is not in.
LEMMA AppendedProperties ==
  ASSUME NEW S, NEW list \in Seq(S), NEW c \in S,
         NoRepeat(list),
         c \notin Elems(list),
         NEW w \in Seq(S), Len(w) = Len(list) + 1, w[Len(w)] = c,
         \A k \in 1..Len(list) : w[k] = list[k]
  PROVE  /\ Elems(w) = Elems(list) \cup {c}
         /\ NoRepeat(w)
<1>1. Len(list) \in Nat /\ Len(w) = Len(list) + 1 /\ w[Len(list) + 1] = c
  OBVIOUS
<1>2. ASSUME NEW k \in 1..Len(w)
      PROVE  w[k] \in {list[m] : m \in 1..Len(list)} \cup {c}
  BY <1>1
<1>3. ASSUME NEW m \in 1..Len(list)
      PROVE  list[m] \in {w[k] : k \in 1..Len(w)}
  BY <1>1
<1>4. c \in {w[k] : k \in 1..Len(w)}
  BY <1>1
<1>5. {w[k] : k \in 1..Len(w)} = {list[k] : k \in 1..Len(list)} \cup {c}
  BY <1>2, <1>3, <1>4
<1>6. ASSUME NEW j \in 1..Len(w), NEW k \in 1..Len(w), w[j] = w[k]
      PROVE  j = k
  <2>1. \A m \in 1..Len(list) : list[m] # c
    BY DEF Elems
  <2> QED BY <2>1, <1>1, <1>6 DEF NoRepeat
<1> QED BY <1>1, <1>5, <1>6 DEF Elems, NoRepeat

\* accept takes the head of the backlog.
LEMMA TailProperties ==
  ASSUME NEW S, NEW list \in Seq(S), Len(list) > 0,
         NoRepeat(list),
         NEW w, w = Tail(list)
  PROVE  /\ Head(list) \in Elems(list)
         /\ w \in Seq(S)
         /\ Len(w) = Len(list) - 1
         /\ Elems(w) = Elems(list) \ {Head(list)}
         /\ NoRepeat(w)
<1>1. /\ w \in Seq(S) /\ Len(w) = Len(list) - 1 /\ Len(list) \in Nat \ {0}
      /\ \A k \in 1..Len(w) : w[k] = list[k + 1]
      /\ Head(list) = list[1]
  OBVIOUS
<1>2. ASSUME NEW k \in 1..Len(w)
      PROVE  w[k] \in {list[m] : m \in 1..Len(list)} \ {Head(list)}
  <2>1. k + 1 \in 1..Len(list) /\ w[k] = list[k + 1] /\ k + 1 # 1
    BY <1>1
  <2> QED BY <2>1, <1>1 DEF NoRepeat
<1>3. ASSUME NEW m \in 1..Len(list), list[m] # Head(list)
      PROVE  list[m] \in {w[k] : k \in 1..Len(w)}
  <2>1. m # 1
    BY <1>1, <1>3
  <2>2. m - 1 \in 1..Len(w) /\ w[m - 1] = list[m]
    BY <2>1, <1>1
  <2> QED BY <2>2
<1>4. {w[k] : k \in 1..Len(w)} = {list[k] : k \in 1..Len(list)} \ {Head(list)}
  BY <1>2, <1>3
<1>5. ASSUME NEW j \in 1..Len(w), NEW k \in 1..Len(w), w[j] = w[k]
      PROVE  j = k
  BY <1>1, <1>5 DEF NoRepeat
<1>6. Head(list) \in {list[k] : k \in 1..Len(list)}
  BY <1>1
<1> QED BY <1>1, <1>4, <1>5, <1>6 DEF Elems, NoRepeat

\* fd is set only between an accept and the answer, and the flags are up where
\* the main thread acts on them.
Course ==
  /\ mpc \in {"test", "enter", "blocked", "done"} => fd = NoPeer
  /\ mpc = "serve" => fd # NoPeer
  /\ mpc \in {"block", "load", "clear"} => reload
  /\ mpc = "cleanup" => quit
  /\ mpc = "done" => queue = <<>>

IInv == TypeOK /\ NoRepeat(queue) /\ Course

\* The part of TypeOK that a step of one thread keeps by its shape.
PlainTypeOK ==
  /\ mpc \in PCs
  /\ quit \in BOOLEAN /\ reload \in BOOLEAN
  /\ fate \in [Peers -> Fates]
  /\ fd \in Peers \cup {NoPeer}
  /\ loaded \in 0..file /\ asked \in 0..file /\ file \in 0..MaxVersion

\* The part that relates fd and the backlog to what became of the connections.
FatesAgree ==
  /\ \A p \in Peers : fate[p] = "held" <=> p = fd
  /\ queue \in Seq(Peers)
  /\ \A p \in Peers : fate[p] = "queued" <=> p \in Elems(queue)

\* TypeOK is these two.
LEMMA TypeOKParts == TypeOK <=> PlainTypeOK /\ FatesAgree
<1>1. ASSUME queue \in Seq(Peers)
      PROVE  Elems(queue) = {queue[i] : i \in 1..Len(queue)} /\ Elems(queue) \subseteq Peers
  BY <1>1 DEF Elems
<1>2. ASSUME fd \in Peers \cup {NoPeer}
      PROVE  {p \in Peers : fate[p] = "held"} = {fd} \ {NoPeer}
               <=> \A p \in Peers : fate[p] = "held" <=> p = fd
  BY <1>2, LoopAssumption
<1>3. ASSUME queue \in Seq(Peers)
      PROVE  Elems(queue) = {p \in Peers : fate[p] = "queued"}
               <=> \A p \in Peers : fate[p] = "queued" <=> p \in Elems(queue)
  BY <1>1, <1>3
<1> QED BY <1>1, <1>2, <1>3 DEF TypeOK, PlainTypeOK, FatesAgree

\* The same after a step.
LEMMA TypeOKPartsNext == TypeOK' <=> PlainTypeOK' /\ FatesAgree'
BY TypeOKParts, PTL

\* A connection that was nowhere joins the backlog.
LEMMA QueueGrows ==
  ASSUME FatesAgree, NoRepeat(queue), NEW p \in Peers, fate[p] = "new"
  PROVE  queue' = Append(queue, p) =>
           /\ queue' \in Seq(Peers) /\ NoRepeat(queue')
           /\ Elems(queue') = Elems(queue) \cup {p}
<1>1. ASSUME queue' = Append(queue, p)
      PROVE  /\ queue' \in Seq(Peers) /\ NoRepeat(queue')
             /\ Elems(queue') = Elems(queue) \cup {p}
  <2>1. queue \in Seq(Peers) /\ p \notin Elems(queue)
    BY DEF FatesAgree
  <2>2. /\ queue' \in Seq(Peers) /\ Len(queue') = Len(queue) + 1 /\ queue'[Len(queue')] = p
        /\ \A k \in 1..Len(queue) : queue'[k] = queue[k]
    BY <1>1, <2>1
  <2> HIDE <1>1
  <2>3. Elems(queue') = Elems(queue) \cup {p} /\ NoRepeat(queue')
    BY <2>1, <2>2, AppendedProperties
  <2> QED BY <2>2, <2>3
<1> QED BY <1>1

\* The head of the backlog leaves it.
LEMMA QueueShrinks ==
  ASSUME FatesAgree, NoRepeat(queue), queue # <<>>, queue' = Tail(queue)
  PROVE  /\ Head(queue) \in Peers /\ fate[Head(queue)] = "queued"
         /\ queue' \in Seq(Peers) /\ NoRepeat(queue')
         /\ Elems(queue') = Elems(queue) \ {Head(queue)}
<1>1. queue \in Seq(Peers) /\ Len(queue) > 0
  BY DEF FatesAgree
<1>2. /\ Head(queue) \in Elems(queue) /\ queue' \in Seq(Peers) /\ NoRepeat(queue')
      /\ Elems(queue') = Elems(queue) \ {Head(queue)}
  BY <1>1, TailProperties
<1>3. Head(queue) \in Peers
  BY <1>1
<1> QED BY <1>2, <1>3 DEF FatesAgree

-----------------------------------------------------------------------------
(***************************************************************************)
(* The inductive invariant.                                                *)
(***************************************************************************)

\* Before anything has happened.
LEMMA IInvInit == Init => IInv
<1> SUFFICES ASSUME Init PROVE IInv
  OBVIOUS
<1> USE DEF Init
<1>1. queue = <<>> /\ queue \in Seq(Peers) /\ Elems(queue) = {} /\ NoRepeat(queue)
  BY DEF Elems, NoRepeat
<1>2. PlainTypeOK
  <2>1. loaded \in 0..file /\ asked \in 0..file /\ file \in 0..MaxVersion
    BY LoopAssumption
  <2>2. mpc \in PCs /\ fate \in [Peers -> Fates]
    BY DEF PCs, Fates
  <2> QED BY <2>1, <2>2 DEF PlainTypeOK
<1>3. FatesAgree
  BY <1>1, LoopAssumption DEF FatesAgree
<1>4. Course
  BY DEF Course
<1> QED BY <1>1, <1>2, <1>3, <1>4, TypeOKParts DEF IInv

\* Every step keeps the invariant.
LEMMA IInvNext == IInv /\ [Next]_vars => IInv'
<1> SUFFICES ASSUME IInv, [Next]_vars
             PROVE  PlainTypeOK' /\ FatesAgree' /\ NoRepeat(queue)' /\ Course'
  BY TypeOKPartsNext DEF IInv
<1> DEFINE Kept == PlainTypeOK' /\ FatesAgree' /\ NoRepeat(queue)' /\ Course'
<1>0. PlainTypeOK /\ FatesAgree /\ NoRepeat(queue) /\ Course /\ queue \in Seq(Peers)
  BY TypeOKParts DEF IInv, FatesAgree
<1>a. ASSUME UNCHANGED <<fd, queue, fate>>
      PROVE  FatesAgree' /\ NoRepeat(queue)'
  BY <1>0, <1>a DEF FatesAgree
<1> USE DEF flagVars, fileVars
<1>1. ASSUME NEW p \in Peers, Connect(p)
      PROVE  Kept
  <2>1. /\ queue' \in Seq(Peers) /\ NoRepeat(queue')
        /\ Elems(queue') = Elems(queue) \cup {p}
    BY <1>0, <1>1, QueueGrows DEF Connect
  <2>2. PlainTypeOK' /\ Course'
    BY <1>0, <1>1 DEF Connect, PlainTypeOK, Fates, Course
  <2>3. FatesAgree'
    BY <1>0, <1>1, <2>1 DEF Connect, FatesAgree, PlainTypeOK
  <2> QED BY <2>1, <2>2, <2>3
<1>2. CASE Edit \/ OnQuit \/ SetReloadFlag
  <2>1. PlainTypeOK'
    <3>1. CASE Edit
      BY <1>0, <3>1, LoopAssumption DEF Edit, PlainTypeOK
    <3>2. CASE OnQuit
      BY <1>0, <3>2 DEF OnQuit, Interrupt, PlainTypeOK, PCs
    <3>3. CASE SetReloadFlag
      BY <1>0, <3>3, LoopAssumption DEF SetReloadFlag, Interrupt, PlainTypeOK, PCs
    <3> QED BY <1>2, <3>1, <3>2, <3>3
  <2>2. Course'
    BY <1>0, <1>2 DEF Edit, OnQuit, SetReloadFlag, Interrupt, Course, PlainTypeOK, PCs
  <2> QED BY <1>a, <1>2, <2>1, <2>2 DEF Edit, OnQuit, SetReloadFlag
<1>3. CASE Test \/ Block \/ Check \/ TakeDown \/ LoadTpConfig
  <2>1. PlainTypeOK'
    BY <1>0, <1>3 DEF Test, Block, Check, TakeDown, LoadTpConfig, PlainTypeOK, PCs
  <2>2. Course'
    BY <1>0, <1>3 DEF Test, Block, Check, TakeDown, LoadTpConfig, Course, PlainTypeOK
  <2> QED BY <1>a, <1>3, <2>1, <2>2 DEF Test, Block, Check, TakeDown, LoadTpConfig
<1>4. CASE AcceptPeer
  <2>1. queue # <<>> /\ queue' = Tail(queue)
    BY <1>4 DEF AcceptPeer
  <2>2. /\ Head(queue) \in Peers /\ fate[Head(queue)] = "queued"
        /\ queue' \in Seq(Peers) /\ NoRepeat(queue')
        /\ Elems(queue') = Elems(queue) \ {Head(queue)}
    BY <1>0, <2>1, QueueShrinks
  <2>3. fd = NoPeer
    BY <1>0, <1>4 DEF AcceptPeer, Course
  <2>4. /\ fd' = Head(queue) /\ fate' = [fate EXCEPT ![Head(queue)] = "held"] /\ mpc' = "check"
        /\ UNCHANGED <<quit, reload, file, asked, loaded>>
    BY <1>4 DEF AcceptPeer
  <2> DEFINE h == Head(queue)
  <2>5. h \in Peers /\ fd' = h /\ fate' = [fate EXCEPT ![h] = "held"] /\ Elems(queue') = Elems(queue) \ {h}
    BY <2>2, <2>4
  <2> HIDE DEF h
  <2>6. PlainTypeOK'
    BY <1>0, <2>4, <2>5 DEF PlainTypeOK, PCs, Fates
  <2>7. FatesAgree'
    BY <1>0, <2>2, <2>3, <2>5, LoopAssumption DEF FatesAgree, PlainTypeOK
  <2>8. Course'
    BY <1>0, <2>4, <2>5, LoopAssumption DEF Course
  <2> QED BY <2>2, <2>6, <2>7, <2>8
<1>5. CASE AcceptError
  <2>1. CASE /\ queue # <<>> /\ queue' = Tail(queue)
             /\ fate' = [fate EXCEPT ![Head(queue)] = "reset"] /\ UNCHANGED quit
    <3>1. queue # <<>>
      BY <2>1
    <3>2. /\ Head(queue) \in Peers /\ fate[Head(queue)] = "queued"
          /\ queue' \in Seq(Peers) /\ NoRepeat(queue')
          /\ Elems(queue') = Elems(queue) \ {Head(queue)}
      BY <1>0, <2>1, <3>1, QueueShrinks
    <3>3. fd' = fd /\ mpc' = "check" /\ UNCHANGED <<reload, file, asked, loaded>>
      BY <1>5 DEF AcceptError
    <3> DEFINE h == Head(queue)
    <3>4. h \in Peers /\ fate[h] = "queued" /\ fate' = [fate EXCEPT ![h] = "reset"]
          /\ Elems(queue') = Elems(queue) \ {h}
      BY <2>1, <3>2
    <3> HIDE DEF h
    <3>5. PlainTypeOK'
      BY <1>0, <2>1, <3>3, <3>4 DEF PlainTypeOK, PCs, Fates
    <3>6. FatesAgree'
      BY <1>0, <3>2, <3>3, <3>4 DEF FatesAgree, PlainTypeOK
    <3>7. Course'
      BY <3>3 DEF Course
    <3> QED BY <3>2, <3>5, <3>6, <3>7
  <2>2. CASE quit' = TRUE /\ UNCHANGED <<queue, fate>>
    <3>1. fd' = fd /\ mpc' = "check" /\ UNCHANGED <<reload, file, asked, loaded>>
      BY <1>5 DEF AcceptError
    <3>2. PlainTypeOK' /\ Course'
      BY <1>0, <2>2, <3>1 DEF PlainTypeOK, PCs, Course
    <3> QED BY <1>a, <2>2, <3>1, <3>2
  <2> QED BY <1>5, <2>1, <2>2 DEF AcceptError
<1>6. CASE ClearReload
  <2>1. PlainTypeOK'
    BY <1>0, <1>6 DEF ClearReload, PlainTypeOK, PCs, Fates
  <2>2. FatesAgree' /\ NoRepeat(queue)'
    BY <1>0, <1>6, LoopAssumption DEF ClearReload, FatesAgree, PlainTypeOK
  <2>3. Course'
    BY <1>6 DEF ClearReload, Course
  <2> QED BY <2>1, <2>2, <2>3
<1>7. CASE Serve
  <2>1. PICK f \in {"served", "refused"} : fate' = [fate EXCEPT ![fd] = f]
    BY <1>7 DEF Serve
  <2>2. fd' = NoPeer /\ mpc' = "test" /\ UNCHANGED <<queue, quit, reload, file, asked, loaded>>
    BY <1>7 DEF Serve
  <2>3. PlainTypeOK' /\ Course'
    BY <1>0, <2>1, <2>2 DEF PlainTypeOK, PCs, Fates, Course
  <2>4. fd \in Peers
    BY <1>0, <1>7 DEF Serve, Course, PlainTypeOK
  <2>5. FatesAgree' /\ NoRepeat(queue)'
    BY <1>0, <2>1, <2>2, <2>4, LoopAssumption DEF FatesAgree, PlainTypeOK
  <2> QED BY <2>3, <2>5
<1>8. CASE Cleanup
  <2>1. /\ fate' = [p \in Peers |-> IF fate[p] \in {"queued", "held"} THEN "reset" ELSE fate[p]]
        /\ fd' = NoPeer /\ queue' = <<>> /\ mpc' = "done" /\ mpc = "cleanup"
        /\ UNCHANGED <<quit, reload, file, asked, loaded>>
    BY <1>8 DEF Cleanup
  <2>2. queue' \in Seq(Peers) /\ Elems(queue') = {} /\ NoRepeat(queue')
    BY <2>1 DEF Elems, NoRepeat
  <2>3. PlainTypeOK' /\ Course'
    BY <1>0, <2>1 DEF PlainTypeOK, PCs, Fates, Course
  <2>4. FatesAgree'
    BY <1>0, <2>1, <2>2, LoopAssumption DEF FatesAgree, PlainTypeOK
  <2> QED BY <2>2, <2>3, <2>4
<1>9. CASE AtRest \/ Done \/ UNCHANGED vars
  BY <1>0, <1>9 DEF AtRest, Done, vars, PlainTypeOK, FatesAgree, Course
<1> HIDE DEF Kept
<1> QED
  BY <1>1, <1>2, <1>3, <1>4, <1>5, <1>6, <1>7, <1>8, <1>9
     DEF Next, MainStep, Run, Wait, Kept

\* The inductive invariant holds in every reachable state.
LEMMA Invariance == Spec => []IInv
BY IInvInit, IInvNext, PTL DEF Spec

\* fd and the backlog agree with what became of the connections: what accept
\* returned last is the one connection in the main thread's hands, never served
\* twice nor used after it was handed over (main.c:131-194).
THEOREM FatesAreKnown == Spec => []TypeOK
<1>1. IInv => TypeOK
  BY DEF IInv
<1> QED BY <1>1, Invariance, PTL

\* A connection that accept returned is served or refused, unless a reload
\* overwrites its descriptor (main.c:178) or the program ends.
THEOREM HeldConnectionsAreServed == Spec => OnlyReloadDrops
<1> DEFINE Told == \A p \in Peers : fate[p] = "held" /\ fate'[p] # "held" =>
                     \/ fate'[p] \in {"served", "refused"}
                     \/ fate'[p] = "leaked" /\ reload
                     \/ fate'[p] = "reset" /\ quit
<1>1. IInv /\ [Next]_vars => [Told]_vars
  <2> SUFFICES ASSUME IInv, Next, NEW p \in Peers, fate[p] = "held", fate'[p] # "held"
               PROVE  \/ fate'[p] \in {"served", "refused"}
                      \/ fate'[p] = "leaked" /\ reload
                      \/ fate'[p] = "reset" /\ quit
    OBVIOUS
  <2>0. PlainTypeOK /\ FatesAgree /\ NoRepeat(queue) /\ Course
    BY TypeOKParts DEF IInv
  <2>1. ASSUME NEW q \in Peers, Connect(q)
        PROVE  FALSE
    BY <2>0, <2>1 DEF Connect, PlainTypeOK
  <2>2. CASE AcceptPeer
    BY <2>0, <2>2 DEF AcceptPeer, PlainTypeOK
  <2>3. CASE AcceptError
    <3>1. CASE UNCHANGED fate
      BY <3>1
    <3>2. CASE /\ queue # <<>> /\ queue' = Tail(queue)
               /\ fate' = [fate EXCEPT ![Head(queue)] = "reset"]
      <4>1. Head(queue) \in Peers /\ fate[Head(queue)] = "queued"
        BY <2>0, <3>2, QueueShrinks
      <4> QED BY <2>0, <3>2, <4>1 DEF PlainTypeOK
    <3> QED BY <2>3, <3>1, <3>2 DEF AcceptError
  <2>4. CASE ClearReload
    BY <2>0, <2>4 DEF ClearReload, PlainTypeOK, Course
  <2>5. CASE Serve
    BY <2>0, <2>5 DEF Serve, PlainTypeOK
  <2>6. CASE Cleanup
    BY <2>0, <2>6 DEF Cleanup, PlainTypeOK, Course
  <2>7. CASE UNCHANGED fate
    BY <2>7
  <2> QED
    BY <2>1, <2>2, <2>3, <2>4, <2>5, <2>6, <2>7
       DEF Next, MainStep, Run, Wait, Edit, OnQuit, SetReloadFlag, Test, Block, Check, TakeDown, LoadTpConfig,
           AtRest, Done, vars
<1> QED BY <1>1, Invariance, PTL DEF Spec, OnlyReloadDrops

=============================================================================
