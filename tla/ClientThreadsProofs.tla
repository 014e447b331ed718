------------------------ MODULE ClientThreadsProofs ------------------------
(***************************************************************************)
(* Proofs that the invariants of ClientThreads and ServedToTheEnd hold for *)
(* any clients and any MAX_CLIENTS.                                        *)
(*                                                                         *)
(* The inductive invariant IInv adds to the properties that the client the *)
(* main thread works with has no thread yet (CurIsNew), and that those it  *)
(* forgot never get one (ForgottenForGood).                                *)
(***************************************************************************)
EXTENDS ClientThreads, TLAPS

-----------------------------------------------------------------------------
(***************************************************************************)
(* Lists that hold a node once.                                            *)
(***************************************************************************)

\* Unlinking a node that is on the list once: pthread_dllistDelete.
LEMMA WithoutProperties ==
  ASSUME NEW S, NEW chain \in Seq(S), NEW c,
         NoRepeat(chain),
         c \in Elems(chain),
         NEW w, w = Without(chain, c)
  PROVE  /\ w \in Seq(S)
         /\ Len(w) = Len(chain) - 1
         /\ Elems(w) = Elems(chain) \ {c}
         /\ NoRepeat(w)
<1>1. PICK i \in 1..Len(chain) :
        /\ chain[i] = c
        /\ w = [j \in 1..(Len(chain) - 1) |-> IF j < i THEN chain[j] ELSE chain[j + 1]]
  BY DEF Without, Elems
<1>2. Len(chain) \in Nat \ {0}
  BY <1>1
<1>3. \A j \in 1..(Len(chain) - 1) : w[j] = IF j < i THEN chain[j] ELSE chain[j + 1]
  BY <1>1
<1>4. w \in Seq(S) /\ Len(w) = Len(chain) - 1
  BY <1>1, <1>2
<1>5. {w[k] : k \in 1..Len(w)} = {chain[k] : k \in 1..Len(chain)} \ {c}
  <2>1. ASSUME NEW k \in 1..Len(w)
        PROVE  w[k] \in {chain[m] : m \in 1..Len(chain)} \ {c}
    <3>1. CASE k < i
      BY <3>1, <1>1, <1>2, <1>3, <1>4 DEF NoRepeat
    <3>2. CASE k >= i
      <4>1. k + 1 \in 1..Len(chain) /\ w[k] = chain[k + 1] /\ k + 1 # i
        BY <3>2, <1>1, <1>2, <1>3, <1>4
      <4> QED BY <4>1, <1>1 DEF NoRepeat
    <3> QED BY <3>1, <3>2, <1>1, <1>2, <1>4
  <2>2. ASSUME NEW m \in 1..Len(chain), chain[m] # c
        PROVE  chain[m] \in {w[k] : k \in 1..Len(w)}
    <3>1. CASE m < i
      <4>1. m \in 1..Len(w) /\ w[m] = chain[m]
        BY <3>1, <1>1, <1>2, <1>3, <1>4
      <4> QED BY <4>1
    <3>2. CASE m > i
      <4>1. m - 1 \in 1..Len(w) /\ w[m - 1] = chain[m]
        BY <3>2, <1>1, <1>2, <1>3, <1>4
      <4> QED BY <4>1
    <3>3. m # i
      BY <1>1, <2>2
    <3> QED BY <3>1, <3>2, <3>3, <1>2
  <2> QED BY <2>1, <2>2
<1>6. ASSUME NEW j \in 1..Len(w), NEW k \in 1..Len(w), w[j] = w[k]
      PROVE  j = k
  BY <1>1, <1>2, <1>3, <1>4, <1>6 DEF NoRepeat
<1> QED BY <1>4, <1>5, <1>6 DEF Elems, NoRepeat

\* Appending a node that is on no list: pthread_dllistAppend.
LEMMA AppendedProperties ==
  ASSUME NEW S, NEW chain \in Seq(S), NEW c \in S,
         NoRepeat(chain),
         c \notin Elems(chain),
         NEW w \in Seq(S), Len(w) = Len(chain) + 1, w[Len(w)] = c,
         \A k \in 1..Len(chain) : w[k] = chain[k]
  PROVE  /\ Elems(w) = Elems(chain) \cup {c}
         /\ NoRepeat(w)
<1>1. Len(chain) \in Nat /\ Len(w) = Len(chain) + 1 /\ w[Len(chain) + 1] = c
  OBVIOUS
<1>2. ASSUME NEW k \in 1..Len(w)
      PROVE  w[k] \in {chain[m] : m \in 1..Len(chain)} \cup {c}
  BY <1>1
<1>3. ASSUME NEW m \in 1..Len(chain)
      PROVE  chain[m] \in {w[k] : k \in 1..Len(w)}
  BY <1>1
<1>4. c \in {w[k] : k \in 1..Len(w)}
  BY <1>1
<1>5. {w[k] : k \in 1..Len(w)} = {chain[k] : k \in 1..Len(chain)} \cup {c}
  BY <1>2, <1>3, <1>4
<1>6. ASSUME NEW j \in 1..Len(w), NEW k \in 1..Len(w), w[j] = w[k]
      PROVE  j = k
  <2>1. \A m \in 1..Len(chain) : chain[m] # c
    BY DEF Elems
  <2> QED BY <2>1, <1>1, <1>6 DEF NoRepeat
<1> QED BY <1>1, <1>5, <1>6 DEF Elems, NoRepeat

\* Between accept and pthread_create the client has no thread.
CurIsNew == mpc \in InHand => pc[cur] = "none"

\* A connection that was forgotten never gets a thread, nor back into newCl.
ForgottenForGood == \A k \in forgotten : pc[k] = "none" /\ k # cur

IInv ==
  /\ TypeOK
  /\ ListBound
  /\ ListedWhileAlive
  /\ SocketsAccounted
  /\ NoLostSignal
  /\ QuitIsQuiet
  /\ CurIsNew
  /\ ForgottenForGood

-----------------------------------------------------------------------------
(***************************************************************************)
(* The steps of a thread that change its program counter only.             *)
(***************************************************************************)

Walk(k) ==
  \E p \in ThreadPCs \ {"none", "signal"} :
    /\ pc[k] \notin {"none", "signal"}
    /\ p \in {"closed", "unlink"} <=> pc[k] \in {"closed", "unlink"}
    /\ Goto(k, p)

\* The steps of handleClient that do not touch the socket or the list are walks.
LEMMA Walks ==
  ASSUME NEW k \in Clients, TypeOK,
         \/ Poll(k) \/ Read(k) \/ Cancelled(k) \/ Gate(k) \/ SendMail(k) \/ Reply(k)
         \/ DropData(k)
         \/ pc[k] = "hangup" /\ Goto(k, "dead")
         \/ pc[k] = "gateWait" /\ Goto(k, "gate")
  PROVE  Walk(k)
<1>1. CASE Poll(k)
  BY <1>1 DEF Poll, Walk, ThreadPCs
<1>2. CASE Read(k)
  BY <1>2 DEF Read, Walk, ThreadPCs
<1>3. CASE Cancelled(k)
  BY <1>3 DEF Cancelled, Cancellable, Walk, ThreadPCs
<1>4. CASE Gate(k)
  BY <1>4 DEF Gate, Walk, ThreadPCs
<1>5. CASE SendMail(k)
  BY <1>5 DEF SendMail, Walk, ThreadPCs
<1>6. CASE Reply(k)
  BY <1>6 DEF Reply, Walk, ThreadPCs
<1>7. CASE DropData(k)
  BY <1>7 DEF DropData, Walk, ThreadPCs
<1>8. CASE pc[k] = "hangup" /\ Goto(k, "dead")
  BY <1>8 DEF Walk, ThreadPCs
<1>9. CASE pc[k] = "gateWait" /\ Goto(k, "gate")
  BY <1>9 DEF Walk, ThreadPCs
<1> QED BY <1>1, <1>2, <1>3, <1>4, <1>5, <1>6, <1>7, <1>8, <1>9

\* A walk keeps the invariant: the thread stays alive, and the rest stays.
LEMMA WalkKeepsIInv ==
  ASSUME IInv, NEW k \in Clients, Walk(k)
  PROVE  IInv'
<1> USE DEF IInv
<1>1. PICK p \in ThreadPCs \ {"none", "signal"} :
        /\ pc[k] \notin {"none", "signal"}
        /\ p \in {"closed", "unlink"} <=> pc[k] \in {"closed", "unlink"}
        /\ Goto(k, p)
  BY DEF Walk
<1>2. /\ UNCHANGED <<cancel, fds, forgotten, list, blocked, mpc, cur>>
      /\ pc' = [pc EXCEPT ![k] = p]
      /\ pc \in [Clients -> ThreadPCs]
  BY <1>1 DEF Goto, TypeOK
<1>3. /\ pc' \in [Clients -> ThreadPCs]
      /\ \A j \in Clients : j # k => pc'[j] = pc[j]
      /\ pc'[k] = p
  BY <1>2
<1>4. \A j \in Clients : pc[j] \in {"none", "signal"} <=> pc'[j] \in {"none", "signal"}
  BY <1>1, <1>3
<1>5. TypeOK'
  BY <1>2, <1>3 DEF TypeOK
<1>6. ListBound' /\ SocketsAccounted'
  <2>1. \A j \in Clients : pc[j] \in {"closed", "unlink"} <=> pc'[j] \in {"closed", "unlink"}
    BY <1>1, <1>3
  <2> QED BY <1>2, <2>1 DEF ListBound, SocketsAccounted, OnList
<1>7. ListedWhileAlive'
  BY <1>2, <1>4 DEF ListedWhileAlive, OnList
<1>8. NoLostSignal'
  <2>1. \A j \in Clients : pc[j] = "signal" => pc'[j] = "signal"
    BY <1>1, <1>3
  <2> QED BY <1>2, <2>1 DEF NoLostSignal
<1>9. QuitIsQuiet'
  BY <1>2, <1>4 DEF QuitIsQuiet
<1>10. CurIsNew'
  BY <1>1, <1>2, <1>3 DEF CurIsNew, TypeOK
<1>11. ForgottenForGood'
  BY <1>1, <1>2, <1>3 DEF ForgottenForGood, TypeOK
<1> QED BY <1>5, <1>6, <1>7, <1>8, <1>9, <1>10, <1>11

-----------------------------------------------------------------------------
(***************************************************************************)
(* The steps of freeCl.                                                    *)
(***************************************************************************)

\* Closing the socket, in freeCl called by a thread that is on the list.
LEMMA CloseKeepsIInv ==
  ASSUME IInv, NEW k \in Clients,
         pc[k] \in {"hangup", "exit"},
         pc' = [pc EXCEPT ![k] = "closed"],
         fds' = fds \ {k},
         UNCHANGED <<cancel, forgotten, list, blocked, mpc, cur>>
  PROVE  IInv'
<1> USE DEF IInv
<1>1. /\ pc' \in [Clients -> ThreadPCs]
      /\ \A j \in Clients : j # k => pc'[j] = pc[j]
      /\ pc'[k] = "closed"
  BY DEF TypeOK, ThreadPCs
<1>2. TypeOK'
  BY <1>1 DEF TypeOK
<1>3. ListBound'
  BY DEF ListBound
<1>8. SocketsAccounted'
  <2>1. k # cur /\ k \notin forgotten
    BY ClientsAssumption DEF CurIsNew, ForgottenForGood, TypeOK
  <2> QED BY <1>1, <2>1 DEF SocketsAccounted, OnList
<1>4. ListedWhileAlive'
  BY <1>1 DEF ListedWhileAlive, OnList
<1>5. NoLostSignal' /\ QuitIsQuiet'
  BY <1>1 DEF NoLostSignal, QuitIsQuiet
<1>6. CurIsNew'
  BY <1>1 DEF CurIsNew, TypeOK
<1>7. ForgottenForGood'
  BY <1>1 DEF ForgottenForGood, TypeOK
<1> QED BY <1>2, <1>3, <1>4, <1>5, <1>6, <1>7, <1>8

\* The critical section of pthread_dllistDelete: the node is on the list once.
LEMMA UnlinkKeepsIInv ==
  ASSUME IInv, NEW k \in Clients, Unlink(k)
  PROVE  IInv'
<1> USE DEF IInv
<1>1. /\ pc' \in [Clients -> ThreadPCs]
      /\ \A j \in Clients : j # k => pc'[j] = pc[j]
      /\ pc[k] = "unlink" /\ pc'[k] = "signal"
      /\ UNCHANGED <<cancel, fds, forgotten, blocked, mpc, cur>>
  BY DEF Unlink, TypeOK, ThreadPCs
<1>2. k \in Elems(list) /\ list \in Seq(Clients) /\ NoRepeat(list)
  BY <1>1 DEF ListedWhileAlive, OnList, TypeOK
<1>3. /\ list' \in Seq(Clients)
      /\ Len(list') = Len(list) - 1
      /\ Elems(list') = Elems(list) \ {k}
      /\ NoRepeat(list')
  BY <1>2, WithoutProperties DEF Unlink
<1>4. TypeOK'
  BY <1>1, <1>3 DEF TypeOK
<1>5. ListBound'
  BY <1>2, <1>3, ClientsAssumption DEF ListBound
<1>6. ~(mpc = "create" /\ cur = k)
  BY <1>1 DEF CurIsNew, InHand
<1>7. ListedWhileAlive'
  BY <1>1, <1>3, <1>6 DEF ListedWhileAlive, OnList
<1>8. SocketsAccounted'
  BY <1>1, <1>3 DEF SocketsAccounted, OnList
<1>9. NoLostSignal'
  BY <1>1 DEF NoLostSignal
<1>10. QuitIsQuiet' /\ CurIsNew' /\ ForgottenForGood'
  BY <1>1 DEF QuitIsQuiet, CurIsNew, ForgottenForGood, TypeOK
<1> QED BY <1>4, <1>5, <1>7, <1>8, <1>9, <1>10

\* The signal ends a wait of the main thread; nobody waits without a reason.
LEMMA SignalKeepsIInv ==
  ASSUME IInv, NEW k \in Clients, SignalMain(k)
  PROVE  IInv'
<1> USE DEF IInv
<1>1. /\ pc' \in [Clients -> ThreadPCs]
      /\ \A j \in Clients : j # k => pc'[j] = pc[j]
      /\ pc[k] = "signal" /\ pc'[k] = "none"
      /\ cancel' \in [Clients -> BOOLEAN]
      /\ UNCHANGED <<fds, forgotten, list, blocked, cur>>
  BY DEF SignalMain, TypeOK, ThreadPCs
<1>2. /\ mpc = "appendWait" => mpc' = "append"
      /\ mpc = "abortWait" => mpc' = "abort"
      /\ mpc \notin {"appendWait", "abortWait"} => mpc' = mpc
  BY DEF SignalMain
<1>3. TypeOK'
  BY <1>1, <1>2 DEF TypeOK, MainPCs, InHand
<1>4. ListBound' /\ SocketsAccounted'
  <2>1. ~OnList(k)
    BY <1>1 DEF ListedWhileAlive, CurIsNew, InHand
  <2> QED BY <1>1, <2>1 DEF ListBound, SocketsAccounted, OnList
<1>5. ListedWhileAlive'
  BY <1>1, <1>2 DEF ListedWhileAlive, OnList
<1>6. NoLostSignal'
  BY <1>2 DEF NoLostSignal, TypeOK, MainPCs
<1>7. QuitIsQuiet'
  BY <1>1, <1>2 DEF QuitIsQuiet
<1>8. CurIsNew'
  BY <1>1, <1>2 DEF CurIsNew, InHand, TypeOK
<1>9. ForgottenForGood'
  BY <1>1 DEF ForgottenForGood, TypeOK
<1> QED BY <1>3, <1>4, <1>5, <1>6, <1>7, <1>8, <1>9

\* Every step of a client thread keeps the invariant.
LEMMA ThreadKeepsIInv ==
  ASSUME IInv, NEW k \in Clients, ThreadStep(k) \/ Input(k)
  PROVE  IInv'
<1>0. TypeOK
  BY DEF IInv
<1>1. CASE Poll(k) \/ Read(k) \/ Cancelled(k) \/ Gate(k) \/ SendMail(k) \/ Reply(k)
           \/ DropData(k)
  BY <1>0, <1>1, Walks, WalkKeepsIInv
<1>2. CASE Hangup(k)
  <2>1. CASE pc[k] = "hangup" /\ Goto(k, "dead")
    BY <1>0, <2>1, Walks, WalkKeepsIInv
  <2>2. CASE ~cancel[k]
    <3>1. /\ pc[k] = "hangup"
          /\ pc' = [pc EXCEPT ![k] = "closed"]
          /\ fds' = fds \ {k}
          /\ UNCHANGED <<cancel, forgotten, list, blocked, mpc, cur>>
      BY <1>2, <2>2 DEF Hangup
    <3> QED BY <3>1, CloseKeepsIInv
  <2> QED BY <1>2, <2>1, <2>2 DEF Hangup
<1>3. CASE CloseFd(k)
  BY <1>3, CloseKeepsIInv DEF CloseFd
<1>4. CASE Unlink(k)
  BY <1>4, UnlinkKeepsIInv
<1>5. CASE SignalMain(k)
  BY <1>5, SignalKeepsIInv
<1> QED BY <1>1, <1>2, <1>3, <1>4, <1>5 DEF ThreadStep, Input

-----------------------------------------------------------------------------
(***************************************************************************)
(* The steps of the main thread.                                           *)
(***************************************************************************)

\* accept: the client that is accepted is new, and the socket it owns is its own.
LEMMA AcceptKeepsIInv ==
  ASSUME IInv, NEW k \in Clients, Accept(k)
  PROVE  IInv'
<1> USE DEF IInv
<1>1. /\ mpc = "accept" /\ mpc' = "accepted"
      /\ pc[k] = "none" /\ cur = NoClient /\ cur' = k
      /\ k \notin fds /\ fds' = fds \cup {k}
      /\ UNCHANGED <<pc, cancel, forgotten, list, blocked>>
  BY DEF Accept, TypeOK, InHand
<1>2. TypeOK'
  BY <1>1 DEF TypeOK, MainPCs, InHand
<1>3. SocketsAccounted' /\ ForgottenForGood'
  BY <1>1, ClientsAssumption DEF SocketsAccounted, ForgottenForGood, OnList, TypeOK
<1>4. ListBound' /\ ListedWhileAlive' /\ CurIsNew'
  BY <1>1 DEF ListBound, ListedWhileAlive, OnList, CurIsNew
<1>5. NoLostSignal' /\ QuitIsQuiet'
  BY <1>1 DEF NoLostSignal, QuitIsQuiet
<1> QED BY <1>2, <1>3, <1>4, <1>5

\* A reload or the exit: what was accepted has neither thread nor place and is left so.
LEMMA ForgetKeepsIInv ==
  ASSUME IInv, Forget,
         mpc' \in {"reload", "visit"},
         blocked' \in BOOLEAN,
         UNCHANGED <<pc, cancel, fds, list>>
  PROVE  IInv'
<1> USE DEF IInv
<1>1. /\ mpc \in {"accept", "accepted"}
      /\ cur' = NoClient
      /\ forgotten' = forgotten \cup ({cur} \ {NoClient})
      /\ cur # NoClient => cur \in Clients /\ pc[cur] = "none"
  BY DEF Forget, TypeOK, CurIsNew, InHand
<1>2. TypeOK'
  BY <1>1 DEF TypeOK, MainPCs, InHand
<1>3. SocketsAccounted'
  BY <1>1, ClientsAssumption DEF SocketsAccounted, OnList
<1>4. ForgottenForGood'
  BY <1>1, <1>2, ClientsAssumption DEF ForgottenForGood, TypeOK
<1>5. ListBound' /\ ListedWhileAlive' /\ CurIsNew'
  BY <1>1 DEF ListBound, ListedWhileAlive, OnList, CurIsNew, InHand
<1>6. NoLostSignal' /\ QuitIsQuiet'
  BY <1>1 DEF NoLostSignal, QuitIsQuiet
<1> QED BY <1>2, <1>3, <1>4, <1>5, <1>6

\* pthread_dllistAppend finds a place: the client gets on the list, once.
LEMMA AppendKeepsIInv ==
  ASSUME IInv, Append_, ~ListFull
  PROVE  IInv'
<1> USE DEF IInv
<1>1. /\ mpc = "append" /\ mpc' = "create"
      /\ cur \in Clients /\ pc[cur] = "none"
      /\ list' = Append(list, cur)
      /\ list \in Seq(Clients) /\ NoRepeat(list)
      /\ UNCHANGED <<pc, cancel, fds, forgotten, blocked, cur>>
  BY DEF Append_, TypeOK, CurIsNew, ListedWhileAlive, InHand
<1>2. cur \notin Elems(list)
  BY <1>1 DEF ListedWhileAlive, OnList
<1>3. /\ list' \in Seq(Clients) /\ Len(list') = Len(list) + 1
      /\ list'[Len(list')] = cur
      /\ \A j \in 1..Len(list) : list'[j] = list[j]
  BY <1>1
<1>4. Elems(list') = Elems(list) \cup {cur} /\ NoRepeat(list')
  <2> HIDE DEF IInv
  <2>1. cur \in Clients /\ list \in Seq(Clients) /\ NoRepeat(list)
    BY <1>1
  <2> QED BY <2>1, <1>2, <1>3, AppendedProperties
<1>5. TypeOK'
  BY <1>1, <1>3 DEF TypeOK, MainPCs, InHand
<1>6. ListBound'
  BY <1>1, <1>3, ClientsAssumption DEF ListBound, ListFull
<1>7. ListedWhileAlive'
  BY <1>1, <1>4 DEF ListedWhileAlive, OnList
<1>8. SocketsAccounted'
  BY <1>1, <1>4 DEF SocketsAccounted, OnList
<1>9. NoLostSignal' /\ QuitIsQuiet' /\ CurIsNew' /\ ForgottenForGood'
  BY <1>1 DEF NoLostSignal, QuitIsQuiet, CurIsNew, InHand, ForgottenForGood
<1> QED BY <1>5, <1>6, <1>7, <1>8, <1>9

\* pthread_create: the thread of a client starts when the client is on the list.
LEMMA CreateKeepsIInv ==
  ASSUME IInv, Create
  PROVE  IInv'
<1> USE DEF IInv
<1>1. /\ mpc = "create" /\ mpc' = "accept"
      /\ cur \in Clients /\ pc[cur] = "none" /\ cur' = NoClient
      /\ pc' \in [Clients -> ThreadPCs]
      /\ pc'[cur] = "poll"
      /\ \A j \in Clients : j # cur => pc'[j] = pc[j]
      /\ UNCHANGED <<cancel, fds, forgotten, list, blocked>>
  BY DEF Create, TypeOK, CurIsNew, ThreadPCs, InHand
<1>2. TypeOK'
  BY <1>1 DEF TypeOK, MainPCs, InHand
<1>3. ListedWhileAlive'
  BY <1>1 DEF ListedWhileAlive, OnList
<1>4. OnList(cur)
  BY <1>1 DEF ListedWhileAlive
<1>5. SocketsAccounted'
  <2>1. \A j \in Clients : j # NoClient
    BY ClientsAssumption
  <2> QED BY <1>1, <1>4, <2>1 DEF SocketsAccounted, OnList
<1>6. ListBound' /\ NoLostSignal' /\ QuitIsQuiet' /\ CurIsNew'
  BY <1>1 DEF ListBound, NoLostSignal, QuitIsQuiet, CurIsNew, InHand
<1>7. ForgottenForGood'
  BY <1>1, ClientsAssumption DEF ForgottenForGood, TypeOK
<1> QED BY <1>2, <1>3, <1>5, <1>6, <1>7

\* The client that found no place is closed and forgotten.
LEMMA RefuseKeepsIInv ==
  ASSUME IInv, Refuse
  PROVE  IInv'
<1> USE DEF IInv
<1>1. /\ mpc = "refuse" /\ mpc' = "accept"
      /\ cur \in Clients /\ pc[cur] = "none" /\ cur' = NoClient
      /\ fds' = fds \ {cur}
      /\ UNCHANGED <<pc, cancel, forgotten, list, blocked>>
  BY DEF Refuse, TypeOK, CurIsNew, InHand
<1>2. TypeOK'
  BY <1>1 DEF TypeOK, MainPCs, InHand
<1>3. SocketsAccounted'
  <2>1. ~OnList(cur) /\ cur \notin forgotten
    BY <1>1 DEF ListedWhileAlive, ForgottenForGood
  <2>2. \A j \in Clients : j # NoClient
    BY ClientsAssumption
  <2> QED BY <1>1, <2>1, <2>2 DEF SocketsAccounted, OnList
<1>4. ListBound' /\ ListedWhileAlive'
  BY <1>1 DEF ListBound, ListedWhileAlive, OnList
<1>5. NoLostSignal' /\ QuitIsQuiet' /\ CurIsNew' /\ ForgottenForGood'
  BY <1>1, ClientsAssumption DEF NoLostSignal, QuitIsQuiet, CurIsNew, InHand, ForgottenForGood, TypeOK
<1> QED BY <1>2, <1>3, <1>4, <1>5

\* Broadcast sends the clients at the gate on; nobody is born or dies by it.
LEMMA BroadcastKeepsIInv ==
  ASSUME IInv, Broadcast
  PROVE  IInv'
<1> USE DEF IInv
<1>1. /\ mpc = "unblock" /\ mpc' = "accept"
      /\ pc' \in [Clients -> ThreadPCs]
      /\ \A j \in Clients : pc'[j] = pc[j] \/ (pc[j] = "gateWait" /\ pc'[j] = "gate")
      /\ UNCHANGED <<cancel, fds, forgotten, list, blocked, cur>>
  <2>1. pc \in [Clients -> ThreadPCs]
    BY DEF TypeOK
  <2>2. "gate" \in ThreadPCs
    BY DEF ThreadPCs
  <2>3. pc' = [k \in Clients |-> IF pc[k] = "gateWait" THEN "gate" ELSE pc[k]]
    BY DEF Broadcast
  <2>4. pc' \in [Clients -> ThreadPCs]
    BY <2>1, <2>2, <2>3
  <2>5. \A j \in Clients : pc'[j] = pc[j] \/ (pc[j] = "gateWait" /\ pc'[j] = "gate")
    BY <2>3
  <2> HIDE DEF IInv
  <2> QED BY <2>4, <2>5 DEF Broadcast
<1>2. TypeOK'
  BY <1>1 DEF TypeOK, MainPCs, InHand
<1>3. ListedWhileAlive'
  BY <1>1 DEF ListedWhileAlive, OnList
<1>4. ListBound' /\ SocketsAccounted' /\ NoLostSignal' /\ QuitIsQuiet' /\ CurIsNew'
  BY <1>1 DEF ListBound, SocketsAccounted, OnList, NoLostSignal, QuitIsQuiet, CurIsNew, InHand
<1>5. ForgottenForGood'
  BY <1>1 DEF ForgottenForGood, TypeOK
<1> QED BY <1>2, <1>3, <1>4, <1>5

\* The main thread goes on, and threads and list stay as they are: what has to be
\* shown is that it waits with a reason, and quits when the list is empty.
LEMMA MainWalkKeepsIInv ==
  ASSUME IInv,
         UNCHANGED <<pc, fds, forgotten, list, cur>>,
         blocked' \in BOOLEAN,
         cancel' \in [Clients -> BOOLEAN],
         mpc' \in MainPCs,
         mpc \in InHand <=> mpc' \in InHand,
         mpc # "create" /\ mpc' # "create" /\ mpc # "refuse",
         mpc' = "appendWait" => ListFull,
         mpc' = "abortWait" => Len(list) > 0,
         mpc' = "quitted" => Len(list) = 0
  PROVE  IInv'
<1> USE DEF IInv
<1>1. TypeOK'
  BY DEF TypeOK
<1>2. ListBound' /\ SocketsAccounted' /\ ListedWhileAlive' /\ ForgottenForGood'
  BY DEF ListBound, SocketsAccounted, ListedWhileAlive, OnList, ForgottenForGood
<1>3. NoLostSignal'
  BY DEF NoLostSignal, ListFull
<1>4. QuitIsQuiet'
  <2>1. Len(list) = 0 => Elems(list) = {}
    BY DEF Elems
  <2> QED BY <2>1 DEF QuitIsQuiet, ListedWhileAlive, OnList
<1>5. CurIsNew'
  BY DEF CurIsNew
<1> QED BY <1>1, <1>2, <1>3, <1>4, <1>5

\* Every step of the main thread, and every return of a wait, keeps the invariant.
LEMMA MainKeepsIInv ==
  ASSUME IInv, MainStep \/ Request \/ Spurious
  PROVE  IInv'
<1>0. TypeOK
  BY DEF IInv
<1>1. CASE Append_
  <2>1. CASE ListFull
    BY <1>0, <1>1, <2>1, MainWalkKeepsIInv DEF Append_, TypeOK, MainPCs, InHand
  <2> QED BY <1>1, <2>1, AppendKeepsIInv
<1>2. CASE AppendTimedOut
  BY <1>0, <1>2, MainWalkKeepsIInv DEF AppendTimedOut, TypeOK, MainPCs, InHand
<1>3. CASE UnblockClients
  BY <1>0, <1>3, MainWalkKeepsIInv DEF UnblockClients, TypeOK, MainPCs, InHand
<1>4. CASE CancelAll
  BY <1>0, <1>4, MainWalkKeepsIInv DEF CancelAll, TypeOK, MainPCs, InHand
<1>5. CASE AwaitEmpty
  <2>1. Len(list) \in Nat
    BY <1>0 DEF TypeOK
  <2> QED BY <1>0, <1>5, <2>1, MainWalkKeepsIInv DEF AwaitEmpty, TypeOK, MainPCs, InHand
<1>6. CASE BlockClients
  BY <1>6, ForgetKeepsIInv DEF BlockClients
<1>7. CASE Quit
  BY <1>0, <1>7, ForgetKeepsIInv DEF Quit, TypeOK
<1>9. CASE NewCl
  BY <1>0, <1>9, MainWalkKeepsIInv DEF NewCl, TypeOK, MainPCs, InHand
<1>8. CASE Spurious
  <2>1. CASE \E k \in Clients : pc[k] = "gateWait" /\ Goto(k, "gate")
    BY <1>0, <2>1, Walks, WalkKeepsIInv
  <2>2. CASE /\ \/ mpc = "appendWait" /\ mpc' = "append"
                \/ mpc = "abortWait" /\ mpc' = "abort"
             /\ UNCHANGED <<pc, cancel, fds, forgotten, list, blocked, cur>>
    BY <1>0, <2>2, MainWalkKeepsIInv DEF TypeOK, MainPCs, InHand
  <2> QED BY <1>8, <2>1, <2>2 DEF Spurious
<1> QED BY <1>1, <1>2, <1>3, <1>4, <1>5, <1>6, <1>7, <1>8, <1>9, AcceptKeepsIInv, CreateKeepsIInv,
           RefuseKeepsIInv, BroadcastKeepsIInv DEF MainStep, Request

-----------------------------------------------------------------------------
(***************************************************************************)
(* The theorems.                                                           *)
(***************************************************************************)

\* IInv is an inductive invariant of the client threads.
THEOREM IInvHolds == Spec => []IInv
<1>1. Init => IInv
  <2> SUFFICES ASSUME Init PROVE IInv
    OBVIOUS
  <2>1. /\ Elems(list) = {} /\ NoRepeat(list)
        /\ list \in Seq(Clients) /\ Len(list) = 0
    BY DEF Init, Elems, NoRepeat
  <2>2. /\ mpc = "accept" /\ fds = {} /\ forgotten = {} /\ cur = NoClient
        /\ \A k \in Clients : pc[k] = "none"
    BY DEF Init
  <2>3. TypeOK
    BY <2>1, <2>2 DEF Init, TypeOK, ThreadPCs, MainPCs, InHand
  <2>4. ListBound
    BY <2>1, ClientsAssumption DEF ListBound
  <2>5. ListedWhileAlive
    BY <2>1, <2>2 DEF ListedWhileAlive, OnList
  <2>6. SocketsAccounted /\ NoLostSignal /\ QuitIsQuiet /\ CurIsNew /\ ForgottenForGood
    BY <2>1, <2>2, ClientsAssumption
       DEF SocketsAccounted, OnList, NoLostSignal, QuitIsQuiet, CurIsNew, InHand, ForgottenForGood
  <2> QED BY <2>3, <2>4, <2>5, <2>6 DEF IInv
<1>2. IInv /\ [Next]_vars => IInv'
  <2> SUFFICES ASSUME IInv, [Next]_vars PROVE IInv'
    OBVIOUS
  <2>1. CASE UNCHANGED vars
    BY <2>1 DEF vars, IInv, TypeOK, ListBound, ListedWhileAlive, OnList, SocketsAccounted,
                NoLostSignal, QuitIsQuiet, CurIsNew, ForgottenForGood
  <2> QED BY <2>1, ThreadKeepsIInv, MainKeepsIInv DEF Next, Stopped
<1> QED BY <1>1, <1>2, PTL DEF Spec

\* Every variable has its type, in particular the main thread works with a client
\* exactly from accept to pthread_create or refusal, for any clients.
THEOREM TypeCorrect == Spec => []TypeOK
BY IInvHolds, PTL DEF IInv

\* Never more than MAX_CLIENTS clients are on the list.
THEOREM ListIsBounded == Spec => []ListBound
BY IInvHolds, PTL DEF IInv

\* A client is on the list exactly while its thread can still use its node, and once.
THEOREM ListIsExact == Spec => []ListedWhileAlive
BY IInvHolds, PTL DEF IInv

\* A socket is open exactly while its thread has yet to close it or newCl has it in
\* hand, or it was accepted together with a reload or the exit and forgotten: for any
\* clients, the branches of main.c:158-178 are the only place where a socket is lost.
THEOREM SocketsAreAccounted == Spec => []SocketsAccounted
BY IInvHolds, PTL DEF IInv

\* The main thread never waits on clients->cond for a signal that was sent before.
THEOREM SignalsAreNotLost == Spec => []NoLostSignal
BY IInvHolds, PTL DEF IInv

\* When abortClients has returned, no client thread is left in sendMail.
THEOREM QuitFindsNobody == Spec => []QuitIsQuiet
BY IInvHolds, PTL DEF IInv

\* A mail that was read to its end is answered: cancellation is never taken between.
THEOREM MailsAreServed == Spec => ServedToTheEnd
<1> DEFINE Served == \A k \in Clients :
                        pc[k] \in Serving /\ pc'[k] \notin Serving => pc[k] = "reply"
<1>1. IInv /\ [Next]_vars => [Served]_vars
  <2> SUFFICES ASSUME IInv, Next, NEW j \in Clients,
                      pc[j] \in Serving, pc'[j] \notin Serving
               PROVE  pc[j] = "reply"
    BY DEF vars
  <2>1. pc \in [Clients -> ThreadPCs]
    BY DEF IInv, TypeOK
  <2>2. ASSUME NEW k \in Clients, ThreadStep(k)
        PROVE  pc[j] = "reply"
    <3>1. CASE Gate(k)
      BY <2>1, <3>1 DEF Gate, Goto, Serving
    <3>2. CASE SendMail(k)
      BY <2>1, <3>2 DEF SendMail, Goto, Serving
    <3>3. CASE Reply(k)
      BY <2>1, <3>3 DEF Reply, Goto, Serving
    <3>4. CASE Cancelled(k)
      BY <2>1, <3>4 DEF Cancelled, Cancellable, Goto, Serving
    <3>5. CASE Hangup(k) \/ CloseFd(k) \/ DropData(k) \/ Unlink(k) \/ SignalMain(k)
      BY <2>1, <3>5 DEF Hangup, CloseFd, DropData, Unlink, SignalMain, Goto, Serving
    <3> QED BY <2>2, <3>1, <3>2, <3>3, <3>4, <3>5 DEF ThreadStep
  <2>3. ASSUME NEW k \in Clients, Input(k)
        PROVE  pc[j] = "reply"
    BY <2>1, <2>3 DEF Input, Poll, Read, Goto, Serving
  <2>4. CASE MainStep
    <3>1. CASE Create
      <4>1. pc[cur] = "none" /\ pc' = [pc EXCEPT ![cur] = "poll"]
        BY <3>1 DEF Create, IInv, CurIsNew, InHand
      <4> QED BY <2>1, <4>1 DEF Serving
    <3>2. CASE Broadcast
      BY <3>2 DEF Broadcast, Serving
    <3>3. CASE ~Create /\ ~Broadcast
      BY <2>4, <3>3 DEF MainStep, NewCl, Append_, AppendTimedOut, Refuse, UnblockClients,
                        CancelAll, AwaitEmpty
    <3> QED BY <3>1, <3>2, <3>3
  <2>5. CASE Request
    BY <2>5 DEF Request, Accept, BlockClients, Quit
  <2>6. CASE Spurious
    BY <2>1, <2>6 DEF Spurious, Goto, Serving
  <2>7. CASE Stopped
    BY <2>7 DEF Stopped, vars
  <2> QED BY <2>2, <2>3, <2>4, <2>5, <2>6, <2>7 DEF Next
<1> QED BY <1>1, IInvHolds, PTL DEF Spec, ServedToTheEnd

=============================================================================
