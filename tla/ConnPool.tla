------------------------------ MODULE ConnPool ------------------------------
(***************************************************************************)
(* One transport's pool of SMTP connections (src/src/transport.c).         *)
(*                                                                         *)
(* Client threads borrow a connection to send one mail (tpSendMail), every *)
(* connection has a thread of its own that keeps it alive with NOOP        *)
(* (connNOOP), and the main thread takes the whole pool down before a      *)
(* reload or at exit (abortTransportsConns, freeTransports).               *)
(*                                                                         *)
(* One action is one critical section of tp->mtx, or one step taken        *)
(* outside of it: the SMTP dialogue, or a signal sent after the unlock.    *)
(* newConn connects while it holds tp->mtx, so it is part of the section.  *)
(* A thread blocked in pthread_cond_wait has a program counter that says   *)
(* so; a signal moves it to the point where it takes the mutex again.      *)
(***************************************************************************)
EXTENDS Integers, Sequences, FiniteSets, NodeLists

CONSTANTS
  Clients,         \* client threads (handleClient)
  Conns,           \* names for tpConn_t objects
  NoConn,          \* the null tpConn_t pointer
  maxConn,         \* tp->maxConn
  maxSendPerConn,  \* tp->maxSendPerConn; 0 or less never matches a counter
  maxNoop,         \* tp->maxNoop; 0 or less never matches a counter
  Requests         \* what the main thread may be asked: "reload", "quit"

\* checkTp rejects maxConn < 1; the other two may be any integer (atoi).
ASSUME PoolAssumption ==
  /\ maxConn \in Nat \ {0}
  /\ maxSendPerConn \in Int
  /\ maxNoop \in Int
  /\ NoConn \notin Conns
  /\ IsFiniteSet(Clients)
  /\ Clients \cap {"closed", "pool", "keeper"} = {}
  /\ Requests \subseteq {"reload", "quit"}

VARIABLES
  pc,         \* pc[t]: where client thread t is
  conn,       \* conn[t]: the connection tpSendMail of t works with
  waiting,    \* tp->waiting
  status,     \* status[c]: conn->status, "NONE" while c is not allocated
  endFlag,    \* endFlag[c]: conn->endFlag
  sendCount,  \* sendCount[c]: conn->sendCount
  noopCount,  \* noopCount[c]: conn->noopCount
  npc,        \* npc[c]: where the NOOP thread of c is
  busyConns,  \* tp->busyConns, whose order is never used
  idleConns,  \* tp->idleConns, taken from the head
  noopConns,  \* tp->noopConns, whose order is never used
  mpc,        \* where the main thread is
  request     \* the request the main thread is serving

clientVars == <<pc, conn, waiting>>
connVars   == <<status, endFlag, sendCount, noopCount, npc>>
listVars   == <<busyConns, idleConns, noopConns>>
mainVars   == <<mpc, request>>
vars == <<clientVars, connVars, listVars, mainVars>>

ClientPCs == {"out", "found", "asleep", "woken", "timedout",
              "sending", "idling", "ending", "bcast", "signal"}
NoopPCs   == {"none", "top", "parked", "noop", "back", "closing",
              "bcast", "endSignal", "endBcast"}
MainPCs   == {"run", "drain", "drainWait", "reap", "reapWait",
              "free", "load", "exited", "undefined"}

Holding == {"sending", "idling", "ending"}     \* owns conn[t]
Waiting == {"asleep", "woken", "timedout"}     \* counted in tp->waiting

Init ==
  /\ pc = [t \in Clients |-> "out"]
  /\ conn = [t \in Clients |-> NoConn]
  /\ waiting = 0
  /\ status = [c \in Conns |-> "NONE"]
  /\ endFlag = [c \in Conns |-> FALSE]
  /\ sendCount = [c \in Conns |-> 0]
  /\ noopCount = [c \in Conns |-> 0]
  /\ npc = [c \in Conns |-> "none"]
  /\ busyConns = {}
  /\ idleConns = <<>>
  /\ noopConns = {}
  /\ mpc = "run"
  /\ request = "none"

(***************************************************************************)
(* Condition variables: what a signal or a broadcast does to the waiters.  *)
(***************************************************************************)

\* pthread_cond_broadcast(&tp->idleCond): clients in getAnIdleConn and the
\* main thread in the first loop of abortTpConns wait on it.
BroadcastIdleCond(pcs) ==
  /\ pc' = [u \in Clients |-> IF pcs[u] = "asleep" THEN "woken" ELSE pcs[u]]
  /\ mpc' = IF mpc = "drainWait" THEN "drain" ELSE mpc

\* pthread_cond_signal(&conn->cond): only the connection's own thread waits.
SignalConn(c) ==
  npc' = [npc EXCEPT ![c] = IF @ = "parked" THEN "top" ELSE @]

InUse == Cardinality(busyConns) + Cardinality(noopConns)

\* The condition getAnIdleConn waits under.
NothingToTake == Len(idleConns) = 0 /\ InUse = maxConn

-----------------------------------------------------------------------------
(***************************************************************************)
(* Client threads.                                                         *)
(***************************************************************************)

\* handleClient found the clients unblocked and the transport by name; it has
\* not taken tp->mtx yet.  blockClients closes the gate when mpc leaves "run".
PassGate(t) ==
  /\ pc[t] = "out"
  /\ mpc = "run"
  /\ pc' = [pc EXCEPT ![t] = "found"]
  /\ UNCHANGED <<conn, waiting, connVars, listVars, mainVars>>

\* The head of idleConns becomes busy.
TakeIdle(t) ==
  LET c == Head(idleConns)
  IN  /\ Len(idleConns) > 0
      /\ status' = [status EXCEPT ![c] = "BUSY"]
      /\ idleConns' = Tail(idleConns)
      /\ busyConns' = busyConns \cup {c}
      /\ conn' = [conn EXCEPT ![t] = c]
      /\ pc' = [pc EXCEPT ![t] = "sending"]
      /\ UNCHANGED <<endFlag, sendCount, noopCount, npc, noopConns>>

\* newConn: connect, EHLO and AUTH under tp->mtx; any of them may fail.
NewConn(t) ==
  \/ \E c \in Conns :
       /\ npc[c] = "none"
       /\ status' = [status EXCEPT ![c] = "BUSY"]
       /\ npc' = [npc EXCEPT ![c] = "top"]
       /\ busyConns' = busyConns \cup {c}
       /\ conn' = [conn EXCEPT ![t] = c]
       /\ pc' = [pc EXCEPT ![t] = "sending"]
       /\ UNCHANGED <<endFlag, sendCount, noopCount, idleConns, noopConns>>
  \/ /\ pc' = [pc EXCEPT ![t] = "out"]
     /\ UNCHANGED <<conn, connVars, listVars>>

\* Mutant of HasRoom: the connections of the NOOP threads are forgotten.
HasRoomBusyOnly == Cardinality(busyConns) < maxConn

\* newConn is allowed: the idle list is known to be empty here.
HasRoom == InUse < maxConn

\* getAnIdleConn up to its wait loop.
GetAnIdleConn(t) ==
  /\ pc[t] = "found"
  /\ \/ /\ TakeIdle(t)
        /\ UNCHANGED waiting
     \/ /\ Len(idleConns) = 0
        /\ HasRoom
        /\ NewConn(t)
        /\ UNCHANGED waiting
     \/ /\ Len(idleConns) = 0
        /\ ~HasRoom
        /\ waiting' = waiting + 1
        /\ pc' = [pc EXCEPT ![t] = "asleep"]
        /\ UNCHANGED <<conn, connVars, listVars>>
  /\ UNCHANGED mainVars

\* Mutant of TimeOut: a plain pthread_cond_wait.
TimeOutNever(t) ==
  /\ FALSE
  /\ pc' = [pc EXCEPT ![t] = "timedout"]
  /\ UNCHANGED <<conn, waiting, connVars, listVars, mainVars>>

\* The 90 seconds are over; the thread still has to take tp->mtx.
TimeOut(t) ==
  /\ pc[t] = "asleep"
  /\ pc' = [pc EXCEPT ![t] = "timedout"]
  /\ UNCHANGED <<conn, waiting, connVars, listVars, mainVars>>

\* Mutant of GiveUp: without the return, the second decrement is reached too.
GiveUpTwice(t) ==
  /\ pc[t] = "timedout"
  /\ waiting' = waiting - 2
  /\ pc' = [pc EXCEPT ![t] = "out"]
  /\ UNCHANGED <<conn, connVars, listVars, mainVars>>

\* Mutant of GiveUp: the early return forgets the decrement.
GiveUpStillCounted(t) ==
  /\ pc[t] = "timedout"
  /\ pc' = [pc EXCEPT ![t] = "out"]
  /\ UNCHANGED <<conn, waiting, connVars, listVars, mainVars>>

\* ETIMEDOUT: answer "500 proxy too busy", whatever the lists hold by now.
GiveUp(t) ==
  /\ pc[t] = "timedout"
  /\ waiting' = waiting - 1
  /\ pc' = [pc EXCEPT ![t] = "out"]
  /\ UNCHANGED <<conn, connVars, listVars, mainVars>>

\* Woken on idleCond: test again, then wait on or leave the loop.
Retest(t) ==
  /\ pc[t] = "woken"
  /\ \/ /\ NothingToTake
        /\ pc' = [pc EXCEPT ![t] = "asleep"]
        /\ UNCHANGED <<conn, waiting, connVars, listVars>>
     \/ /\ ~NothingToTake
        /\ waiting' = waiting - 1
        /\ \/ TakeIdle(t)
           \/ Len(idleConns) = 0 /\ NewConn(t)
  /\ UNCHANGED mainVars

\* The SMTP dialogue of tpSendMail, from conn->noopCount = 0 to its outcome.
Send(t) ==
  LET c == conn[t]
  IN  /\ pc[t] = "sending"
      /\ noopCount' = [noopCount EXCEPT ![c] = 0]
      /\ \/ /\ sendCount' = [sendCount EXCEPT ![c] = @ + 1]
            /\ pc' = [pc EXCEPT ![t] =
                        IF sendCount'[c] = maxSendPerConn THEN "ending" ELSE "idling"]
         \/ /\ pc' = [pc EXCEPT ![t] = "ending"]
            /\ UNCHANGED sendCount
      /\ UNCHANGED <<conn, waiting, status, endFlag, npc, listVars, mainVars>>

\* busy -> idle, after a mail that was sent.
BusyToIdle(t) ==
  LET c == conn[t]
  IN  /\ pc[t] = "idling"
      /\ status' = [status EXCEPT ![c] = "IDLE"]
      /\ busyConns' = busyConns \ {c}
      /\ idleConns' = Append(idleConns, c)
      /\ pc' = [pc EXCEPT ![t] = "bcast"]
      /\ UNCHANGED <<conn, waiting, endFlag, sendCount, noopCount, npc, noopConns, mainVars>>

\* Mutant of BusyToEnd: moved to noopConns with its status left at busy.
BusyToEndStaleStatus(t) ==
  LET c == conn[t]
  IN  /\ pc[t] = "ending"
      /\ endFlag' = [endFlag EXCEPT ![c] = TRUE]
      /\ busyConns' = busyConns \ {c}
      /\ noopConns' = noopConns \cup {c}
      /\ pc' = [pc EXCEPT ![t] = "signal"]
      /\ UNCHANGED <<conn, waiting, status, sendCount, noopCount, npc, idleConns, mainVars>>

\* Mutant of BusyToEnd: the client closes the connection itself.
BusyToClosed(t) ==
  LET c == conn[t]
  IN  /\ pc[t] = "ending"
      /\ endFlag' = [endFlag EXCEPT ![c] = TRUE]
      /\ status' = [status EXCEPT ![c] = "NONE"]
      /\ busyConns' = busyConns \ {c}
      /\ pc' = [pc EXCEPT ![t] = "signal"]
      /\ UNCHANGED <<conn, waiting, sendCount, noopCount, npc, idleConns, noopConns, mainVars>>

\* busy -> noop with endFlag set, for the connection's thread to end.
BusyToEnd(t) ==
  LET c == conn[t]
  IN  /\ pc[t] = "ending"
      /\ endFlag' = [endFlag EXCEPT ![c] = TRUE]
      /\ status' = [status EXCEPT ![c] = "NOOP"]
      /\ busyConns' = busyConns \ {c}
      /\ noopConns' = noopConns \cup {c}
      /\ pc' = [pc EXCEPT ![t] = "signal"]
      /\ UNCHANGED <<conn, waiting, sendCount, noopCount, npc, idleConns, mainVars>>

\* pthread_cond_broadcast(&tp->idleCond), after the unlock.
AnnounceIdle(t) ==
  /\ pc[t] = "bcast"
  /\ BroadcastIdleCond([pc EXCEPT ![t] = "signal"])
  /\ UNCHANGED <<conn, waiting, connVars, listVars, request>>

\* Mutant of SignalAndReturn: the thread of the connection is not woken.
ReturnWithoutSignal(t) ==
  /\ pc[t] = "signal"
  /\ pc' = [pc EXCEPT ![t] = "out"]
  /\ conn' = [conn EXCEPT ![t] = NoConn]
  /\ UNCHANGED <<waiting, connVars, listVars, mainVars>>

\* pthread_cond_signal(&conn->cond), after the unlock; tpSendMail returns.  If
\* the connection was freed in between, the signal is taken to have no effect.
SignalAndReturn(t) ==
  /\ pc[t] = "signal"
  /\ SignalConn(conn[t])
  /\ pc' = [pc EXCEPT ![t] = "out"]
  /\ conn' = [conn EXCEPT ![t] = NoConn]
  /\ UNCHANGED <<waiting, status, endFlag, sendCount, noopCount, listVars, mainVars>>

-----------------------------------------------------------------------------
(***************************************************************************)
(* The thread of a connection (connNOOP) and endConn.                      *)
(***************************************************************************)

\* endConn inside tp->mtx, then conn->cond and conn itself are gone.
EndConn(c) ==
  /\ noopConns' = noopConns \ {c}
  /\ status' = [status EXCEPT ![c] = "NONE"]
  /\ endFlag' = [endFlag EXCEPT ![c] = FALSE]
  /\ sendCount' = [sendCount EXCEPT ![c] = 0]
  /\ noopCount' = [noopCount EXCEPT ![c] = 0]
  /\ npc' = [npc EXCEPT ![c] = "endSignal"]

\* Mutant of LeaveAlone: the busy status is not looked at.
LeaveAloneIdleOnly(c) == status[c] = "IDLE" /\ waiting > 0

\* The thread leaves the connection alone while a client uses it, and while
\* clients wait for an idle one.
LeaveAlone(c) == status[c] = "BUSY" \/ (status[c] = "IDLE" /\ waiting > 0)

NoopPark(c) ==
  /\ npc[c] = "top"
  /\ LeaveAlone(c)
  /\ npc' = [npc EXCEPT ![c] = "parked"]
  /\ UNCHANGED <<clientVars, status, endFlag, sendCount, noopCount, listVars, mainVars>>

\* idle -> noop, unless tpSendMail put it there already; end it if flagged.
NoopClaim(c) ==
  /\ npc[c] = "top"
  /\ ~LeaveAlone(c)
  /\ idleConns' = IF status[c] = "IDLE" THEN Without(idleConns, c) ELSE idleConns
  /\ \/ /\ endFlag[c]
        /\ EndConn(c)
     \/ /\ ~endFlag[c]
        /\ status' = [status EXCEPT ![c] = "NOOP"]
        /\ noopConns' = noopConns \cup {c}
        /\ npc' = [npc EXCEPT ![c] = "noop"]
        /\ UNCHANGED <<endFlag, sendCount, noopCount>>
  /\ UNCHANGED <<clientVars, busyConns, mainVars>>

\* One NOOP command, outside of tp->mtx.
NoopSend(c) ==
  /\ npc[c] = "noop"
  /\ noopCount' = [noopCount EXCEPT ![c] = @ + 1]
  /\ \/ npc' = [npc EXCEPT ![c] = "closing"]
     \/ /\ noopCount'[c] # maxNoop
        /\ npc' = [npc EXCEPT ![c] = "back"]
  /\ UNCHANGED <<clientVars, status, endFlag, sendCount, listVars, mainVars>>

\* endConn(conn, 0): the socket is closed, tp->mtx is taken only now.
NoopClose(c) ==
  /\ npc[c] = "closing"
  /\ EndConn(c)
  /\ UNCHANGED <<clientVars, busyConns, idleConns, mainVars>>

\* noop -> idle, or end if somebody set endFlag meanwhile.
NoopBack(c) ==
  /\ npc[c] = "back"
  /\ \/ /\ endFlag[c]
        /\ EndConn(c)
        /\ UNCHANGED idleConns
     \/ /\ ~endFlag[c]
        /\ status' = [status EXCEPT ![c] = "IDLE"]
        /\ noopConns' = noopConns \ {c}
        /\ idleConns' = Append(idleConns, c)
        /\ npc' = [npc EXCEPT ![c] = "bcast"]
        /\ UNCHANGED <<endFlag, sendCount, noopCount>>
  /\ UNCHANGED <<clientVars, busyConns, mainVars>>

\* Broadcast after the unlock; the sleep that follows is the time until "top".
NoopAnnounce(c) ==
  /\ npc[c] = "bcast"
  /\ BroadcastIdleCond(pc)
  /\ npc' = [npc EXCEPT ![c] = "top"]
  /\ UNCHANGED <<conn, waiting, status, endFlag, sendCount, noopCount, listVars, request>>

\* Mutant of EndSignal: the main thread is not told.
EndSignalNobody(c) ==
  /\ npc[c] = "endSignal"
  /\ npc' = [npc EXCEPT ![c] = "endBcast"]
  /\ UNCHANGED <<clientVars, status, endFlag, sendCount, noopCount, listVars, mainVars>>

\* The two signals at the end of endConn; conn is already freed.
EndSignal(c) ==
  /\ npc[c] = "endSignal"
  /\ npc' = [npc EXCEPT ![c] = "endBcast"]
  /\ mpc' = IF mpc = "reapWait" THEN "reap" ELSE mpc
  /\ UNCHANGED <<clientVars, status, endFlag, sendCount, noopCount, listVars, request>>

\* Mutant of EndAnnounce: the broadcast that transport.c:225-231 argues for.
EndQuietly(c) ==
  /\ npc[c] = "endBcast"
  /\ npc' = [npc EXCEPT ![c] = "none"]
  /\ UNCHANGED <<clientVars, status, endFlag, sendCount, noopCount, listVars, mainVars>>

EndAnnounce(c) ==
  /\ npc[c] = "endBcast"
  /\ BroadcastIdleCond(pc)
  /\ npc' = [npc EXCEPT ![c] = "none"]
  /\ UNCHANGED <<conn, waiting, status, endFlag, sendCount, noopCount, listVars, request>>

-----------------------------------------------------------------------------
(***************************************************************************)
(* The main thread.                                                        *)
(***************************************************************************)

\* blockClients before a reload; abortClients, which returns only when every
\* client thread is gone, before the exit.
StartAbort(r) ==
  /\ mpc = "run"
  /\ r = "quit" => \A t \in Clients : pc[t] = "out"
  /\ request' = r
  /\ mpc' = "drain"
  /\ UNCHANGED <<clientVars, connVars, listVars>>

Remaining == Cardinality(noopConns) + Len(idleConns)

\* abortTpConns: wait while somebody sends or waits; then flag every connection
\* left and wait for their threads to end, all in one critical section.
Drain ==
  /\ mpc = "drain"
  /\ \/ /\ busyConns # {} \/ waiting > 0
        /\ mpc' = "drainWait"
        /\ UNCHANGED endFlag
     \/ /\ busyConns = {} /\ waiting = 0
        /\ endFlag' = [c \in Conns |->
                         endFlag[c] \/ c \in noopConns \/ \E i \in 1..Len(idleConns) : idleConns[i] = c]
        /\ mpc' = IF Remaining > 0 THEN "reapWait" ELSE "free"
  /\ UNCHANGED <<clientVars, status, sendCount, noopCount, npc, listVars, request>>

Reap ==
  /\ mpc = "reap"
  /\ mpc' = IF Remaining > 0 THEN "reapWait" ELSE "free"
  /\ UNCHANGED <<clientVars, connVars, listVars, request>>

\* Threads that still use tp, its lists or its condition variables.
StillUsed ==
  \/ \E t \in Clients : pc[t] # "out"
  \/ \E c \in Conns : npc[c] # "none"

\* freeTransports.  Freeing a tp in use is undefined: the main thread is taken
\* no further and the others run on as if the memory were still intact.
FreeTransports ==
  /\ mpc = "free"
  /\ mpc' = IF StillUsed THEN "undefined" ELSE IF request = "quit" THEN "exited" ELSE "load"
  /\ UNCHANGED <<clientVars, connVars, listVars, request>>

\* loadTpConfig creates the transport anew; unblockClients.
Reload ==
  /\ mpc = "load"
  /\ waiting' = 0
  /\ busyConns' = {} /\ idleConns' = <<>> /\ noopConns' = {}
  /\ mpc' = "run"
  /\ request' = "none"
  /\ UNCHANGED <<pc, conn, connVars>>

\* POSIX lets every condition wait return without a signal.
SpuriousWakeup ==
  \/ /\ \E t \in Clients : pc[t] = "asleep" /\ pc' = [pc EXCEPT ![t] = "woken"]
     /\ UNCHANGED <<npc, mpc>>
  \/ /\ \E c \in Conns : npc[c] = "parked" /\ npc' = [npc EXCEPT ![c] = "top"]
     /\ UNCHANGED <<pc, mpc>>
  \/ /\ mpc = "drainWait" /\ mpc' = "drain"
     /\ UNCHANGED <<pc, npc>>
  \/ /\ mpc = "reapWait" /\ mpc' = "reap"
     /\ UNCHANGED <<pc, npc>>

Spurious ==
  /\ SpuriousWakeup
  /\ UNCHANGED <<conn, waiting, status, endFlag, sendCount, noopCount, listVars, request>>

\* The process has exited, or its main thread ran into undefined behaviour.
Stopped ==
  /\ mpc \in {"exited", "undefined"}
  /\ UNCHANGED vars

-----------------------------------------------------------------------------
ClientStep(t) ==
  \/ GetAnIdleConn(t) \/ TimeOut(t) \/ GiveUp(t) \/ Retest(t) \/ Send(t)
  \/ BusyToIdle(t) \/ BusyToEnd(t) \/ AnnounceIdle(t) \/ SignalAndReturn(t)

NoopStep(c) ==
  \/ NoopPark(c) \/ NoopClaim(c) \/ NoopSend(c) \/ NoopClose(c) \/ NoopBack(c)
  \/ NoopAnnounce(c) \/ EndSignal(c) \/ EndAnnounce(c)

MainStep == Drain \/ Reap \/ FreeTransports \/ Reload

Next ==
  \/ \E t \in Clients : PassGate(t) \/ ClientStep(t)
  \/ \E c \in Conns : NoopStep(c)
  \/ \E r \in Requests : StartAbort(r)
  \/ MainStep
  \/ Spurious
  \/ Stopped

Spec == Init /\ [][Next]_vars

\* Threads are scheduled, I/O has timeouts, and the mutex is only ever held
\* across one action; arrivals, requests and spurious wakeups need not happen.
\* The deadline of getAnIdleConn is absolute: a client that is woken and goes
\* back to sleep again and again times out in the end.
Fairness ==
  /\ \A t \in Clients : WF_vars(ClientStep(t)) /\ SF_vars(TimeOut(t))
  /\ \A c \in Conns : WF_vars(NoopStep(c))
  /\ WF_vars(MainStep)

FairSpec == Spec /\ Fairness

-----------------------------------------------------------------------------
(***************************************************************************)
(* Properties.                                                             *)
(***************************************************************************)

TypeOK ==
  /\ pc \in [Clients -> ClientPCs]
  /\ conn \in [Clients -> Conns \cup {NoConn}]
  /\ waiting \in Nat
  /\ status \in [Conns -> {"NONE", "BUSY", "IDLE", "NOOP"}]
  /\ endFlag \in [Conns -> BOOLEAN]
  /\ sendCount \in [Conns -> Nat]
  /\ noopCount \in [Conns -> Nat]
  /\ npc \in [Conns -> NoopPCs]
  /\ busyConns \in SUBSET Conns /\ IsFiniteSet(busyConns)
  /\ idleConns \in Seq(Conns)
  /\ noopConns \in SUBSET Conns /\ IsFiniteSet(noopConns)
  /\ mpc \in MainPCs
  /\ request \in {"none", "reload", "quit"}

\* The proxy exists to keep at most maxConn connections to the server: the
\* three lists together never hold more.
PoolBound == Len(idleConns) + InUse <= maxConn

\* Every connection is on exactly the list its status names, once, so that
\* dllistMvNode and dllistDelete always unlink from the list that holds it.
ListsMatchStatus ==
  /\ busyConns = {c \in Conns : status[c] = "BUSY"}
  /\ noopConns = {c \in Conns : status[c] = "NOOP"}
  /\ Elems(idleConns) = {c \in Conns : status[c] = "IDLE"}
  /\ NoRepeat(idleConns)

\* Two dialogues never run on one connection: not two clients', and not a
\* client's and the NOOP of the connection's own thread.
OneDialogue ==
  \A t \in Clients : pc[t] \in Holding =>
    /\ status[conn[t]] = "BUSY"
    /\ npc[conn[t]] \notin {"noop", "back", "closing", "endSignal", "endBcast", "none"}
    /\ \A u \in Clients \ {t} : pc[u] \in Holding => conn[u] # conn[t]

\* tp->waiting counts exactly the clients inside the wait loop, whichever way
\* they leave it; the NOOP threads and abortTpConns rely on it.
WaitingIsExact == waiting = Cardinality({t \in Clients : pc[t] \in Waiting})

\* A broadcast on idleCond that is still to come, after its unlock.
BroadcastDue ==
  \/ \E t \in Clients : pc[t] = "bcast"
  \/ \E c \in Conns : npc[c] \in {"bcast", "endSignal", "endBcast"}

\* A client asleep in getAnIdleConn has nothing to take, or a broadcast is on
\* its way: the wakeups of tpSendMail, connNOOP and endConn leave no gap.
NoLostWakeup ==
  (\E t \in Clients : pc[t] = "asleep") => NothingToTake \/ BroadcastDue

\* The client that works with connection c.
Holds(t, c) == pc[t] \in Holding /\ conn[t] = c

\* Who has connection c, in the terms of LeasedPool.
Owner(c) ==
  CASE status[c] = "NONE" -> "closed"
    [] \E t \in Clients : Holds(t, c) -> CHOOSE t \in Clients : Holds(t, c)
    [] status[c] = "IDLE" -> "pool"
    [] OTHER -> "keeper"

Owners == [c \in Conns |-> Owner(c)]

Leased == INSTANCE LeasedPool WITH owner <- Owners

\* The pool keeps the promise of LeasedPool: exclusive leases, at most maxConn
\* open connections, and none closed while a client works with it.
ImplementsLeasedPool == Leased!Spec

\* Sending is synchronous: a client that handed over a mail gets its answer.
EveryMailAnswered == \A t \in Clients : pc[t] = "found" ~> pc[t] = "out"

\* The capacity comes back: a connection does not stay on noopConns, neither
\* after its NOOP nor after a mail that failed or was its last.
NoopConnLeaves == \A c \in Conns : status[c] = "NOOP" ~> status[c] # "NOOP"

\* transport.c:441 the main thread waits for the mails that are being sent or
\* waited for to be done; so that wait ends.
DrainEnds == mpc = "drainWait" ~> mpc \notin {"drain", "drainWait"}

\* The thread of an idle connection sleeps on conn->cond.
Stranded(c) == npc[c] = "parked" /\ status[c] = "IDLE"

\* The wait for the connections' threads ends, at a reload and at the exit, unless
\* one of them sleeps on: it parked for clients that waited, they have gone by
\* timeout, and abortTpConns sets its endFlag without a signal (446-453).
AbortEnds ==
  (\A c \in Conns : []<>(~Stranded(c)))
    => (mpc \in {"reap", "reapWait"} ~> mpc \notin {"reap", "reapWait"})

\* transport.c:461 blockClients was called first, so no mail is under way once
\* the main thread has seen the busy connections and the waiters go.
NoNewMailAfterBlock ==
  mpc \in {"reap", "reapWait", "free", "load"} =>
    \A t \in Clients : pc[t] \notin {"found"} \cup Holding \cup Waiting


=============================================================================
