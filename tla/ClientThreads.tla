---------------------------- MODULE ClientThreads ----------------------------
(***************************************************************************)
(* The threads that serve the applications (src/src/client.c) and the list *)
(* the main thread keeps them on (src/src/pthread_dllist.c).               *)
(*                                                                         *)
(* The main thread appends a client for every connection it accepts, closes*)
(* and opens the gate around a reload (blockClients, unblockClients), and  *)
(* cancels the clients at exit (abortClients).  A client thread dies at a  *)
(* cancellation point, and takes itself off the list in freeCl.            *)
(*                                                                         *)
(* One action is one critical section, or one step outside of them that    *)
(* another thread can tell from its neighbours.                            *)
(***************************************************************************)
EXTENDS Integers, Sequences, FiniteSets, NodeLists

CONSTANTS
  Clients,   \* names for cl_t objects, each with its thread and its fd
  NoClient,  \* no client
  maxNodes   \* MAX_CLIENTS

ASSUME ClientsAssumption ==
  /\ NoClient \notin Clients
  /\ maxNodes \in Nat \ {0}

VARIABLES
  pc,       \* pc[k]: where the thread of client k is
  cancel,   \* cancel[k]: pthread_cancel was called for it
  fds,      \* the clients whose socket is open
  forgotten,\* history: those the main thread accepted and neither served nor closed
  list,     \* clients->head ... clients->tail; clients->count is its length
  blocked,  \* blocked
  mpc,      \* where the main thread is
  cur       \* the client the main thread has accepted

vars == <<pc, cancel, fds, forgotten, list, blocked, mpc, cur>>

ThreadPCs == {"none", "poll", "read", "gate", "gateWait", "sending", "reply",
              "hangup", "exit", "closed", "unlink", "signal", "dead"}
MainPCs   == {"accept", "accepted", "append", "appendWait", "create", "refuse", "reload",
              "unblock", "visit", "abort", "abortWait", "quitted", "crashed"}

\* An accepted connection that is not served yet.
InHand == {"accepted", "append", "appendWait", "create", "refuse"}

\* A complete mail was read, its answer is not written yet.
Serving == {"gate", "gateWait", "sending", "reply"}

\* Mutant of Cancellable: cancellation is left enabled; what sendMail and the answer
\* call (poll, recv, pthread_cond_timedwait, write) are cancellation points.
CancellableWhileServing == {"poll", "read", "gateWait", "sending", "reply"}

\* Stopped at a cancellation point, with cancellation enabled and freeCl pushed
\* as a cleanup handler; pthread_setcancelstate disables it while Serving.
Cancellable == {"poll", "read"}

Init ==
  /\ pc = [k \in Clients |-> "none"]
  /\ cancel = [k \in Clients |-> FALSE]
  /\ fds = {} /\ forgotten = {}
  /\ list = <<>>
  /\ blocked = FALSE
  /\ mpc = "accept"
  /\ cur = NoClient

-----------------------------------------------------------------------------
(***************************************************************************)
(* handleClient.                                                           *)
(***************************************************************************)

\* Only the program counter of the thread changes.
Goto(k, p) ==
  /\ pc' = [pc EXCEPT ![k] = p]
  /\ UNCHANGED <<cancel, fds, forgotten, list, blocked, mpc, cur>>

\* poll: input, a hangup without input, or pthread_exit (timeout, error).
Poll(k) ==
  /\ pc[k] = "poll"
  /\ \E p \in {"read", "hangup", "exit"} : Goto(k, p)

\* read: the end of the mail, a part of it, or pthread_exit (n <= 0).
Read(k) ==
  /\ pc[k] = "read"
  /\ \E p \in {"gate", "poll", "exit"} : Goto(k, p)

\* A pending cancellation takes effect; the cleanup handlers run.
Cancelled(k) ==
  /\ pc[k] \in Cancellable
  /\ cancel[k]
  /\ Goto(k, "exit")

\* The block check under blockMtx.
Gate(k) ==
  /\ pc[k] = "gate"
  /\ Goto(k, IF blocked THEN "gateWait" ELSE "sending")

\* sendMail: ConnPool has its steps.
SendMail(k) ==
  /\ pc[k] = "sending"
  /\ Goto(k, "reply")

\* Mutant of Reply: the thread exits without freeCl.
ReplyWithoutFreeCl(k) ==
  /\ pc[k] = "reply"
  /\ \E p \in {"poll", "none"} : Goto(k, p)

\* The answer is written: on to the next mail.  If it cannot be, freeCl is
\* called with cancellation still disabled, like a cleanup handler.
Reply(k) ==
  /\ pc[k] = "reply"
  /\ \E p \in {"poll", "exit"} : Goto(k, p)

\* freeCl called without a cleanup handler pushed, cancellation enabled: close
\* is a cancellation point, and a thread that dies there stays on the list.
Hangup(k) ==
  /\ pc[k] = "hangup"
  /\ \/ /\ cancel[k]
        /\ Goto(k, "dead")
     \/ /\ ~cancel[k]
        /\ pc' = [pc EXCEPT ![k] = "closed"]
        /\ fds' = fds \ {k}
        /\ UNCHANGED <<cancel, forgotten, list, blocked, mpc, cur>>

\* Mutant of CloseFd: the socket is left open.
CloseNothing(k) ==
  /\ pc[k] = "exit"
  /\ pc' = [pc EXCEPT ![k] = "closed"]
  /\ UNCHANGED <<cancel, fds, forgotten, list, blocked, mpc, cur>>

\* freeCl in a thread that exits already.
CloseFd(k) ==
  /\ pc[k] = "exit"
  /\ pc' = [pc EXCEPT ![k] = "closed"]
  /\ fds' = fds \ {k}
  /\ UNCHANGED <<cancel, forgotten, list, blocked, mpc, cur>>

\* pthread_dllistDelete sets node->data to NULL before it takes the mutex.
DropData(k) ==
  /\ pc[k] = "closed"
  /\ Goto(k, "unlink")

HasNull(k) == pc[k] = "unlink"

Unlink(k) ==
  /\ pc[k] = "unlink"
  /\ list' = Without(list, k)
  /\ pc' = [pc EXCEPT ![k] = "signal"]
  /\ UNCHANGED <<cancel, fds, forgotten, blocked, mpc, cur>>

\* Mutant of SignalMain: the signal is forgotten.
LeaveQuietly(k) ==
  /\ pc[k] = "signal"
  /\ pc' = [pc EXCEPT ![k] = "none"]
  /\ cancel' = [cancel EXCEPT ![k] = FALSE]
  /\ UNCHANGED <<fds, forgotten, list, blocked, mpc, cur>>

\* Mutant of SignalMain: abortClients takes the first signal for the last one.
SignalMainNoLoop(k) ==
  /\ pc[k] = "signal"
  /\ pc' = [pc EXCEPT ![k] = "none"]
  /\ cancel' = [cancel EXCEPT ![k] = FALSE]
  /\ mpc' = CASE mpc = "appendWait" -> "append"
              [] mpc = "abortWait" -> "quitted"
              [] OTHER -> mpc
  /\ UNCHANGED <<fds, forgotten, list, blocked, cur>>

\* pthread_cond_signal(&clients->cond) after the unlock: the main thread is the
\* only one that ever waits on it.  The node and the cl_t are freed.
SignalMain(k) ==
  /\ pc[k] = "signal"
  /\ pc' = [pc EXCEPT ![k] = "none"]
  /\ cancel' = [cancel EXCEPT ![k] = FALSE]
  /\ mpc' = CASE mpc = "appendWait" -> "append"
              [] mpc = "abortWait" -> "abort"
              [] OTHER -> mpc
  /\ UNCHANGED <<fds, forgotten, list, blocked, cur>>

-----------------------------------------------------------------------------
(***************************************************************************)
(* The main thread.                                                        *)
(***************************************************************************)

\* accept returns a connection, under a name that nobody has.
Accept(k) ==
  /\ mpc = "accept"
  /\ pc[k] = "none" /\ k \notin fds
  /\ fds' = fds \cup {k}
  /\ cur' = k
  /\ mpc' = "accepted"
  /\ UNCHANGED <<pc, cancel, forgotten, list, blocked>>

\* Neither quit nor reload is set: newCl allocates a cl_t.
NewCl ==
  /\ mpc = "accepted"
  /\ mpc' = "append"
  /\ UNCHANGED <<pc, cancel, fds, forgotten, list, blocked, cur>>

\* quit or reload is set: the connection that accept returned, if it did, is
\* neither served nor closed.
Forget ==
  /\ mpc \in {"accept", "accepted"}
  /\ forgotten' = forgotten \cup ({cur} \ {NoClient})
  /\ cur' = NoClient

\* Mutant of ListFull: one too many.
ListFullOffByOne == Len(list) > maxNodes

ListFull == Len(list) = maxNodes

\* pthread_dllistAppend.
Append_ ==
  /\ mpc = "append"
  /\ IF ListFull
       THEN mpc' = "appendWait" /\ UNCHANGED list
       ELSE mpc' = "create" /\ list' = Append(list, cur)
  /\ UNCHANGED <<pc, cancel, fds, forgotten, blocked, cur>>

\* MAX_WAIT seconds are over: pthread_dllistAppend returns 0.
AppendTimedOut ==
  /\ mpc = "appendWait"
  /\ mpc' = "refuse"
  /\ UNCHANGED <<pc, cancel, fds, forgotten, list, blocked, cur>>

\* "500 proxy: too many connections".
Refuse ==
  /\ mpc = "refuse"
  /\ fds' = fds \ {cur}
  /\ cur' = NoClient
  /\ mpc' = "accept"
  /\ UNCHANGED <<pc, cancel, forgotten, list, blocked>>

\* Mutant of Create: the accepted client is kept as if it were not served yet.
CreateKeepsCur ==
  /\ mpc = "create"
  /\ pc' = [pc EXCEPT ![cur] = "poll"]
  /\ mpc' = "accept"
  /\ UNCHANGED <<cancel, fds, forgotten, list, blocked, cur>>

\* pthread_create, taken to succeed.
Create ==
  /\ mpc = "create"
  /\ pc' = [pc EXCEPT ![cur] = "poll"]
  /\ cur' = NoClient
  /\ mpc' = "accept"
  /\ UNCHANGED <<cancel, fds, forgotten, list, blocked>>

\* A reload: ConnPool has what happens between the two.
BlockClients ==
  /\ Forget
  /\ blocked' = TRUE
  /\ mpc' = "reload"
  /\ UNCHANGED <<pc, cancel, fds, list>>

UnblockClients ==
  /\ mpc = "reload"
  /\ blocked' = FALSE
  /\ mpc' = "unblock"
  /\ UNCHANGED <<pc, cancel, fds, forgotten, list, cur>>

\* Mutant of Broadcast: pthread_cond_signal wakes one of the clients.
SignalOne ==
  /\ mpc = "unblock"
  /\ \/ \E k \in Clients : pc[k] = "gateWait" /\ pc' = [pc EXCEPT ![k] = "gate"]
     \/ (\A k \in Clients : pc[k] # "gateWait") /\ UNCHANGED pc
  /\ mpc' = "accept"
  /\ UNCHANGED <<cancel, fds, forgotten, list, blocked, cur>>

\* pthread_cond_broadcast(&unblockCond) after the unlock.
Broadcast ==
  /\ mpc = "unblock"
  /\ pc' = [k \in Clients |-> IF pc[k] = "gateWait" THEN "gate" ELSE pc[k]]
  /\ mpc' = "accept"
  /\ UNCHANGED <<cancel, fds, forgotten, list, blocked, cur>>

Quit ==
  /\ Forget
  /\ mpc' = "visit"
  /\ UNCHANGED <<pc, cancel, fds, list, blocked>>

OnList(k) == k \in Elems(list)

\* abortCl for every node, under the mutex of the list; a node without its data
\* is a null pointer to it.
CancelAll ==
  /\ mpc = "visit"
  /\ IF \E k \in Clients : OnList(k) /\ HasNull(k)
       THEN mpc' = "crashed" /\ UNCHANGED cancel
       ELSE /\ mpc' = "abort"
            /\ cancel' = [k \in Clients |-> cancel[k] \/ OnList(k)]
  /\ UNCHANGED <<pc, fds, forgotten, list, blocked, cur>>

\* abortClients waits for the list to be empty.
AwaitEmpty ==
  /\ mpc = "abort"
  /\ mpc' = IF Len(list) > 0 THEN "abortWait" ELSE "quitted"
  /\ UNCHANGED <<pc, cancel, fds, forgotten, list, blocked, cur>>

\* POSIX lets a condition wait return without a signal.
Spurious ==
  \/ \E k \in Clients : pc[k] = "gateWait" /\ Goto(k, "gate")
  \/ /\ \/ mpc = "appendWait" /\ mpc' = "append"
        \/ mpc = "abortWait" /\ mpc' = "abort"
     /\ UNCHANGED <<pc, cancel, fds, forgotten, list, blocked, cur>>

Stopped == mpc \in {"quitted", "crashed"} /\ UNCHANGED vars

-----------------------------------------------------------------------------
ThreadStep(k) ==
  \/ Cancelled(k) \/ Gate(k) \/ SendMail(k) \/ Reply(k) \/ Hangup(k)
  \/ CloseFd(k) \/ DropData(k) \/ Unlink(k) \/ SignalMain(k)

\* What the application on the other side brings about.
Input(k) == Poll(k) \/ Read(k)

MainStep ==
  \/ NewCl \/ Append_ \/ AppendTimedOut \/ Refuse \/ Create
  \/ UnblockClients \/ Broadcast \/ CancelAll \/ AwaitEmpty

\* A signal or a connection.
Request == (\E k \in Clients : Accept(k)) \/ BlockClients \/ Quit

Next ==
  \/ \E k \in Clients : ThreadStep(k) \/ Input(k)
  \/ MainStep
  \/ Request
  \/ Spurious
  \/ Stopped

Spec == Init /\ [][Next]_vars

\* Threads are scheduled and sendMail ends (ConnPool); what the applications
\* send, connections and signals need not come.  A thread does not pass its
\* cancellation points for ever while its cancellation is pending.
Fairness ==
  /\ WF_vars(MainStep)
  /\ \A k \in Clients : WF_vars(ThreadStep(k)) /\ SF_vars(Cancelled(k))

FairSpec == Spec /\ Fairness

-----------------------------------------------------------------------------
(***************************************************************************)
(* Properties.                                                             *)
(***************************************************************************)

TypeOK ==
  /\ pc \in [Clients -> ThreadPCs]
  /\ cancel \in [Clients -> BOOLEAN]
  /\ fds \in SUBSET Clients /\ forgotten \in SUBSET Clients
  /\ list \in Seq(Clients)
  /\ blocked \in BOOLEAN
  /\ mpc \in MainPCs
  /\ IF mpc \in InHand THEN cur \in Clients ELSE cur = NoClient

\* MAX_CLIENTS bounds the clients that are served at a time.
ListBound == Len(list) <= maxNodes

\* A client is on the list from before its thread starts until the thread has
\* unlinked it, and once: nobody is unlinked twice, or cancelled after it left.
ListedWhileAlive ==
  /\ \A k \in Clients :
       OnList(k) <=> pc[k] \notin {"none", "signal"} \/ (mpc = "create" /\ cur = k)
  /\ NoRepeat(list)

\* A socket is open exactly as long as somebody is there for it: the client thread,
\* from before it starts until it closes it, once, or the main thread on its way
\* through newCl.  Or it stays open for good because the loop came out of accept with
\* a connection and with reload or quit set (main.c:158-178), which serves and closes
\* nothing: in no other way is a socket lost.
SocketsAccounted ==
  \A k \in Clients :
    k \in fds <=> \/ OnList(k) /\ pc[k] \notin {"closed", "unlink"}
                 \/ k = cur
                 \/ k \in forgotten

\* The main thread waits on clients->cond only for what is still to come, or
\* the signal is under way.
NoLostSignal ==
  /\ mpc = "appendWait" => Len(list) = maxNodes \/ \E k \in Clients : pc[k] = "signal"
  /\ mpc = "abortWait" => Len(list) > 0 \/ \E k \in Clients : pc[k] = "signal"

\* transport.c:463-464 after abortClients the clients are gone: none of them is
\* in sendMail when the main thread goes on to take the connections down.
QuitIsQuiet == mpc = "quitted" => \A k \in Clients : pc[k] \in {"none", "signal"}

\* A mail that was read to its end is answered, or its answer cannot be written:
\* the cancellation at exit does not come between.
ServedToTheEnd ==
  [][\A k \in Clients : pc[k] \in Serving /\ pc'[k] \notin Serving => pc[k] = "reply"]_vars

\* Every client held up by a reload goes on when the last reload is over.
GateOpens ==
  <>[](~blocked) => \A k \in Clients : pc[k] = "gateWait" ~> pc[k] = "sending"

\* transport.c:464 abortClients waits until all clients have disconnected: that
\* comes to an end unless a thread dies in the close of client.c:226, the one
\* place where a cancellation leaves a client on the list.
AbortClientsEnds ==
  mpc = "visit" ~> mpc \in {"quitted", "crashed"} \/ \E k \in Clients : pc[k] = "dead"

=============================================================================
