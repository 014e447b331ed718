------------------------------ MODULE MainLoop ------------------------------
(***************************************************************************)
(* The main thread's accept loop (mainLoop in src/src/main.c) with the two *)
(* flags its signal handlers set, the listen backlog of the proxy's port   *)
(* and the configuration file a reload reads.                              *)
(*                                                                         *)
(* A signal sent by stop.sh or reload.sh runs its handler in the main      *)
(* thread, where Linux delivers it: it ends an accept that is blocked (the *)
(* handlers are installed with siginterrupt) and only sets the flag        *)
(* anywhere else, also between the test of the flag and the accept.        *)
(***************************************************************************)
EXTENDS Integers, Sequences

CONSTANTS
  Peers,       \* applications that connect, each once
  NoPeer,      \* fd == -1
  backlog,     \* BACKLOG
  MaxVersion   \* bound on the edits of transport.ini

ASSUME LoopAssumption ==
  /\ NoPeer \notin Peers
  /\ backlog \in Nat \ {0}
  /\ MaxVersion \in Nat

VARIABLES
  mpc,     \* where the main thread is
  quit,    \* quit
  reload,  \* reload
  fd,      \* fd: the connection accept returned
  queue,   \* connections in the backlog
  fate,    \* fate[p]: what became of the connection of p
  file,    \* version of transport.ini on disk, which reload.sh has tested
  asked,   \* version on disk when the last SIGHUP was sent
  loaded   \* version in force

flagVars == <<quit, reload>>
fileVars == <<file, asked, loaded>>
vars == <<mpc, fd, queue, fate, flagVars, fileVars>>

\* "enter" is the time between the test of quit and the blocking of accept.
PCs == {"test", "enter", "blocked", "check", "block", "load", "clear",
        "serve", "cleanup", "done"}
Fates == {"new", "queued", "held", "served", "refused", "leaked", "reset"}

Init ==
  /\ mpc = "test"
  /\ quit = FALSE /\ reload = FALSE
  /\ fd = NoPeer
  /\ queue = <<>>
  /\ fate = [p \in Peers |-> "new"]
  /\ file = 0 /\ asked = 0 /\ loaded = 0

-----------------------------------------------------------------------------
(***************************************************************************)
(* The world outside of the process.                                       *)
(***************************************************************************)

\* An application connects; the kernel completes it while the port is open.
Connect(p) ==
  /\ fate[p] = "new"
  /\ mpc \notin {"done"}
  /\ Len(queue) < backlog
  /\ queue' = Append(queue, p)
  /\ fate' = [fate EXCEPT ![p] = "queued"]
  /\ UNCHANGED <<mpc, fd, flagVars, fileVars>>

Edit ==
  /\ file < MaxVersion
  /\ file' = file + 1
  /\ UNCHANGED <<mpc, fd, queue, fate, flagVars, asked, loaded>>

\* accept returns EINTR to a main thread that is blocked in it.
Interrupt == mpc' = IF mpc = "blocked" THEN "check" ELSE mpc

\* onQuit: SIGINT or SIGTERM.
OnQuit ==
  /\ mpc # "done"
  /\ ~quit
  /\ quit' = TRUE
  /\ Interrupt
  /\ UNCHANGED <<fd, queue, fate, reload, fileVars>>

\* setReloadFlag: SIGHUP, sent after an edit.
SetReloadFlag ==
  /\ mpc # "done"
  /\ asked < file
  /\ asked' = file
  /\ reload' = TRUE
  /\ Interrupt
  /\ UNCHANGED <<fd, queue, fate, quit, file, loaded>>

-----------------------------------------------------------------------------
(***************************************************************************)
(* The main thread.                                                        *)
(***************************************************************************)

\* Mutant of Test: while (1).
TestNothing ==
  /\ mpc = "test"
  /\ mpc' = "enter"
  /\ UNCHANGED <<fd, queue, fate, flagVars, fileVars>>

\* while (!quit).
Test ==
  /\ mpc = "test"
  /\ mpc' = IF quit THEN "cleanup" ELSE "enter"
  /\ UNCHANGED <<fd, queue, fate, flagVars, fileVars>>

\* accept finds nobody and blocks.
Block ==
  /\ mpc = "enter"
  /\ queue = <<>>
  /\ mpc' = "blocked"
  /\ UNCHANGED <<fd, queue, fate, flagVars, fileVars>>

\* accept returns a connection.
AcceptPeer ==
  /\ mpc \in {"enter", "blocked"}
  /\ queue # <<>>
  /\ fd' = Head(queue)
  /\ queue' = Tail(queue)
  /\ fate' = [fate EXCEPT ![Head(queue)] = "held"]
  /\ mpc' = "check"
  /\ UNCHANGED <<flagVars, fileVars>>

\* accept returns an error: one that is ignored (ECONNABORTED: the peer gave
\* up), or one that ends the program (EMFILE and the rest, also while nobody
\* is in the backlog).
AcceptError ==
  /\ mpc \in {"enter", "blocked"}
  /\ \/ /\ queue # <<>>
        /\ queue' = Tail(queue)
        /\ fate' = [fate EXCEPT ![Head(queue)] = "reset"]
        /\ UNCHANGED quit
     \/ /\ quit' = TRUE
        /\ UNCHANGED <<queue, fate>>
  /\ mpc' = "check"
  /\ UNCHANGED <<fd, reload, fileVars>>

\* Mutant of Check: the reload flag is cleared before the reload is carried out.
CheckAndForget ==
  /\ mpc = "check"
  /\ mpc' = CASE quit -> "cleanup"
              [] ~quit /\ fd # NoPeer -> "serve"
              [] ~quit /\ fd = NoPeer -> "test"
  /\ reload' = FALSE
  /\ UNCHANGED <<fd, queue, fate, quit, fileVars>>

\* The flags, in this order, then the connection.
Check ==
  /\ mpc = "check"
  /\ mpc' = CASE quit -> "cleanup"
              [] ~quit /\ reload -> "block"
              [] ~quit /\ ~reload /\ fd # NoPeer -> "serve"
              [] ~quit /\ ~reload /\ fd = NoPeer -> "test"
  /\ UNCHANGED <<fd, queue, fate, flagVars, fileVars>>

\* blockClients, abortTransportsConns, freeTransports: see ConnPool.  The drain
\* of the connections may last for good.
TakeDown ==
  /\ mpc = "block"
  /\ mpc' = "load"
  /\ UNCHANGED <<fd, queue, fate, flagVars, fileVars>>

\* loadTpConfig of a valid file; unblockClients.
LoadTpConfig ==
  /\ mpc = "load"
  /\ loaded' = file
  /\ mpc' = "clear"
  /\ UNCHANGED <<fd, queue, fate, flagVars, file, asked>>

\* reload = 0; continue: an fd that accept returned is overwritten by the next.
ClearReload ==
  /\ mpc = "clear"
  /\ reload' = FALSE
  /\ fate' = IF fd = NoPeer THEN fate ELSE [fate EXCEPT ![fd] = "leaked"]
  /\ fd' = NoPeer
  /\ mpc' = "test"
  /\ UNCHANGED <<queue, quit, fileVars>>

\* Mutant of Serve: no answer to a connection that newCl has no place for.
ServeOrForget ==
  /\ mpc = "serve"
  /\ \E f \in {"served", "leaked"} : fate' = [fate EXCEPT ![fd] = f]
  /\ fd' = NoPeer
  /\ mpc' = "test"
  /\ UNCHANGED <<queue, flagVars, fileVars>>

\* Mutant of Serve: fd is not overwritten when the next accept fails.
ServeKeepsFd ==
  /\ mpc = "serve"
  /\ \E f \in {"served", "refused"} : fate' = [fate EXCEPT ![fd] = f]
  /\ mpc' = "test"
  /\ UNCHANGED <<fd, queue, flagVars, fileVars>>

\* newCl and pthread_create, or "500 proxy: too many connections".
Serve ==
  /\ mpc = "serve"
  /\ \E f \in {"served", "refused"} : fate' = [fate EXCEPT ![fd] = f]
  /\ fd' = NoPeer
  /\ mpc' = "test"
  /\ UNCHANGED <<queue, flagVars, fileVars>>

\* abortClients and abortTransportsConns, whose waits may last for good; then the
\* exit closes the sockets, also the one accept returned last.
Cleanup ==
  /\ mpc = "cleanup"
  /\ fate' = [p \in Peers |-> IF fate[p] \in {"queued", "held"} THEN "reset" ELSE fate[p]]
  /\ queue' = <<>>
  /\ fd' = NoPeer
  /\ mpc' = "done"
  /\ UNCHANGED <<flagVars, fileVars>>

Done == mpc = "done" /\ UNCHANGED vars

\* Nothing comes in any more: the main thread stays in accept.
AtRest == mpc = "blocked" /\ UNCHANGED vars

-----------------------------------------------------------------------------
\* What the main thread does on its own.
Run ==
  \/ Test \/ Block \/ AcceptPeer \/ Check
  \/ LoadTpConfig \/ ClearReload \/ Serve

\* What waits for the threads of clients and connections.
Wait == TakeDown \/ Cleanup

MainStep == Run \/ Wait \/ AcceptError

Next ==
  \/ \E p \in Peers : Connect(p)
  \/ Edit \/ OnQuit \/ SetReloadFlag
  \/ MainStep
  \/ AtRest \/ Done

Spec == Init /\ [][Next]_vars

\* The main thread runs on.  Connections, errors, edits and signals need not come,
\* and the waits of a reload and of the exit need not end (DrainEnds and AbortEnds
\* of ConnPool, AbortClientsEnds of ClientThreads say when they do not).
FairSpec == Spec /\ WF_vars(Run)

-----------------------------------------------------------------------------
(***************************************************************************)
(* Properties.                                                             *)
(***************************************************************************)

\* fd and the fates agree: what accept returned last is neither served twice
\* nor used after it was handed over, and the backlog has only what waits in it.
TypeOK ==
  /\ mpc \in PCs
  /\ quit \in BOOLEAN /\ reload \in BOOLEAN
  /\ fate \in [Peers -> Fates]
  /\ fd \in Peers \cup {NoPeer}
  /\ {p \in Peers : fate[p] = "held"} = {fd} \ {NoPeer}
  /\ queue \in Seq(Peers)
  /\ {queue[i] : i \in 1..Len(queue)} = {p \in Peers : fate[p] = "queued"}
  /\ loaded \in 0..file /\ asked \in 0..file /\ file \in 0..MaxVersion

\* No reload waits for good in the drain of the connections.
DrainsEnd == []<>(mpc # "block")

\* A stop that arrives while the main thread is busy, or that ends its accept,
\* brings the loop to its end without another connection having to come in,
\* unless the drain of a reload lasts for good.
QuitHonoured ==
  DrainsEnd => (quit /\ mpc \notin {"enter", "blocked"} ~> mpc \in {"cleanup", "done"})

\* A connection that accept returned is served or refused; only a reload or the
\* end of the program comes between.
OnlyReloadDrops ==
  [][\A p \in Peers : fate[p] = "held" /\ fate'[p] # "held" =>
       \/ fate'[p] \in {"served", "refused"}
       \/ fate'[p] = "leaked" /\ reload
       \/ fate'[p] = "reset" /\ quit]_vars

\* A reload that ends an accept brings the file as it then was into force, unless
\* the program stops.  No reload is forgotten: it is carried out, or the flag is up
\* and the next connection will find it, unless its SIGHUP comes after the file
\* was read and before reload = 0 (main.c:177).  All this if drains end.
NoReloadLost ==
  DrainsEnd =>
    \A v \in 1..MaxVersion :
      /\ reload /\ mpc = "check" /\ asked = v ~> loaded >= v \/ mpc \in {"cleanup", "done"}
      /\ reload /\ mpc # "clear" /\ asked = v
           ~> loaded >= v \/ mpc \in {"cleanup", "done"} \/ (mpc = "blocked" /\ reload)

=============================================================================
