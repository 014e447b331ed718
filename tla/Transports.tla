---------------------------- MODULE Transports ----------------------------
(***************************************************************************)
(* The list of transports and who goes through it: the main thread, which  *)
(* fills it from transport.ini (loadTpConfig) and empties it               *)
(* (freeTransports, both in src/src/transport.c), the monitor thread       *)
(* (src/src/main.c, src/src/report.c), the timer's thread and the clients' *)
(* look-ups (sendMail in src/src/client.c).                                *)
(*                                                                         *)
(* transportsMtx is held by loadTpConfig, the monitor and the timer, not   *)
(* by freeTransports and the look-ups.  A transport and its node have one  *)
(* number, given once; the numbers rise along the list.  A thread that     *)
(* touches what was freed is at "undefined"; what happens afterwards is    *)
(* not constrained.                                                        *)
(***************************************************************************)
EXTENDS NodeLists, FiniteSets

CONSTANTS
  Clients,
  Files,       \* contents transport.ini may have: sequences of [section, item, value]
  Sections,    \* names of transports that mails are sent to
  Plain,       \* items that are required: host, port, username, password
  Checked,     \* items with one of some values: ssl, auth
  ItemLen,     \* ItemLen[name]: the length of a transport's item in a report
  HeadLens,    \* lengths the items with the numbers of clients and transports may have
  maxlen,      \* report->maxlen
  MaxReloads   \* bound on the reloads

\* ini_parse hands over sections of which each has an item in a report, and the
\* value of maxConn goes through atoi.
ASSUME TransportsAssumption ==
  /\ \A f \in Files :
       /\ f \in Seq({f[i] : i \in 1..Len(f)})
       /\ \A i \in 1..Len(f) : ItemLen[f[i].section] \in Nat
                             /\ (f[i].item = "maxConn" => f[i].value \in Int)
  /\ "maxConn" \notin Plain \cup Checked
  /\ HeadLens \subseteq Nat
  /\ maxlen \in Nat /\ MaxReloads \in Nat
  /\ {"monitor", "timer"} \cap Clients = {}

VARIABLES
  mpc,         \* where the main thread is
  file,        \* transport.ini as it was last read
  todo,        \* what ini_parse has not yet read of it
  iniError,    \* its result is not 0
  transports,  \* the list of transports
  tp,          \* tp[i]: the transport with number i
  live,        \* transports that are not freed
  cur,         \* where abortTransportsConns or freeTransports is in its visit
  mtx,         \* who holds transportsMtx
  blocked,     \* the clients' gate
  reloads,     \* reloads so far
  quitting,    \* the loop has ended
  pc, pos,     \* where each of the other threads is, and at which node
  want,        \* want[c]: the sender of c's mail
  report,      \* the monitor's report: its length and the transports in it
  overtaken    \* history: threads that what is freed was not kept for

confVars == <<file, todo, iniError, transports, tp, live>>
mainVars == <<mpc, cur, blocked, reloads, quitting>>
vars == <<mainVars, confVars, mtx, pc, pos, want, report, overtaken>>

Visitors == {"monitor", "timer"}
Threads == Visitors \cup Clients
None == 0

\* The first node, and the node after i.
First == IF transports = <<>> THEN None ELSE transports[1]
After(i) ==
  LET k == CHOOSE j \in 1..Len(transports) : transports[j] = i
  IN  IF k = Len(transports) THEN None ELSE transports[k + 1]

Goto(v, where, node) ==
  /\ pc' = [pc EXCEPT ![v] = where]
  /\ pos' = [pos EXCEPT ![v] = node]

Init ==
  /\ mpc = "lock" /\ cur = None /\ blocked = TRUE /\ reloads = 0 /\ quitting = FALSE
  /\ file = <<>> /\ todo = <<>> /\ iniError = FALSE
  /\ transports = <<>> /\ tp = <<>> /\ live = {}
  /\ mtx = "free"
  /\ pc = [v \in Threads |-> "off"]
  /\ pos = [v \in Threads |-> None]
  /\ want \in [Clients -> Sections]
  /\ report = [len |-> 0, shown |-> {}]
  /\ overtaken = {}

-----------------------------------------------------------------------------
(***************************************************************************)
(* loadTpConfig.                                                           *)
(***************************************************************************)

LoadLock ==
  /\ mpc = "lock"
  /\ mtx = "free"
  /\ mtx' = "main"
  /\ \E f \in Files : file' = f /\ todo' = f
  /\ iniError' = FALSE
  /\ mpc' = "parse"
  /\ UNCHANGED <<transports, tp, live, cur, blocked, reloads, quitting, pc, pos, want, report, overtaken>>

\* calloc; load is a history field, the load that made it.
EmptyTp(name) == [load |-> reloads, name |-> name, str |-> [i \in Plain \cup Checked |-> "NULL"], maxConn |-> 0]

\* HANDLE_STR_ITEM and HANDLE_INT_ITEM; the other numbers are not checked.
Set(t, e) ==
  CASE e.item \in Plain \cup Checked -> [t EXCEPT !.str[e.item] = e.value]
    [] e.item = "maxConn" -> [t EXCEPT !.maxConn = e.value]
    [] OTHER -> t

Known(e) == e.item \in Plain \cup Checked \cup {"maxConn", "number"}

\* Mutant of FindSection: only the transport read last is looked at.
FindSectionLast(name) ==
  {transports[i] : i \in {j \in 1..Len(transports) : j = Len(transports) /\ tp[transports[j]].name = name}}

\* dllistVisit(transports, findTpByName, section).
FindSection(name) == {i \in Elems(transports) : tp[i].name = name}

\* tpIniHandler: newTp where the section is new.
TpIniHandler ==
  LET e     == Head(todo)
      found == FindSection(e.section)
      new   == Len(tp) + 1
  IN  /\ mpc = "parse"
      /\ todo # <<>>
      /\ todo' = Tail(todo)
      /\ \/ found = {}
            /\ transports' = Append(transports, new)
            /\ tp' = Append(tp, Set(EmptyTp(e.section), e))
            /\ live' = live \cup {new}
         \/ \E i \in found : tp' = [tp EXCEPT ![i] = Set(@, e)]
            /\ UNCHANGED <<transports, live>>
      /\ iniError' = (iniError \/ ~Known(e))
      /\ UNCHANGED <<mainVars, file, mtx, pc, pos, want, report, overtaken>>

\* checkTp.
CheckTp(t) ==
  /\ \A i \in Plain : t.str[i] # "NULL"
  /\ \A i \in Checked : t.str[i] = "good"
  /\ t.maxConn >= 1

\* The whole program ends at the first mistake.
Loaded ==
  /\ mpc = "parse"
  /\ todo = <<>>
  /\ IF iniError \/ \E i \in Elems(transports) : ~CheckTp(tp[i])
       THEN mpc' = "failed" /\ UNCHANGED mtx
       ELSE mpc' = "unblock" /\ mtx' = "free"
  /\ UNCHANGED <<cur, blocked, reloads, quitting, confVars, pc, pos, want, report, overtaken>>

-----------------------------------------------------------------------------
(***************************************************************************)
(* The main thread otherwise.                                              *)
(***************************************************************************)

\* unblockClients; at the start, mainLoop makes the monitor.
Unblock ==
  /\ mpc = "unblock"
  /\ blocked' = FALSE
  /\ mpc' = "run"
  /\ pc' = [pc EXCEPT !["monitor"] = IF @ = "off" THEN "accept" ELSE @]
  /\ UNCHANGED <<cur, reloads, quitting, confVars, mtx, pos, want, report, overtaken>>

\* Mutant of StartReload: the clients are not blocked.
StartReloadUnblocked ==
  /\ mpc = "run"
  /\ reloads < MaxReloads
  /\ mpc' = "drain"
  /\ cur' = First
  /\ UNCHANGED <<blocked, reloads, quitting, confVars, mtx, pc, pos, want, report, overtaken>>

\* blockClients.
StartReload ==
  /\ mpc = "run"
  /\ reloads < MaxReloads
  /\ blocked' = TRUE
  /\ mpc' = "drain"
  /\ cur' = First
  /\ UNCHANGED <<reloads, quitting, confVars, mtx, pc, pos, want, report, overtaken>>

\* pthread_cancel of the monitor.
StartQuit ==
  /\ mpc = "run"
  /\ quitting' = TRUE
  /\ mpc' = "join"
  /\ UNCHANGED <<cur, blocked, reloads, confVars, mtx, pc, pos, want, report, overtaken>>

\* pthread_join; timer_delete, which does not wait for a timer's thread.
Join ==
  /\ mpc = "join"
  /\ pc["monitor"] = "ended"
  /\ mpc' = "clients"
  /\ UNCHANGED <<cur, blocked, reloads, quitting, confVars, mtx, pc, pos, want, report, overtaken>>

\* abortClients: their mails are answered and no thread of a client is left (see
\* ClientThreads).
AbortClients ==
  /\ mpc = "clients"
  /\ \A c \in Clients : pc[c] = "off"
  /\ mpc' = "drain"
  /\ cur' = First
  /\ UNCHANGED <<blocked, reloads, quitting, confVars, mtx, pc, pos, want, report, overtaken>>

\* abortTpConns of one transport: its busy connections and its waiting clients have
\* gone, and endFlag is set ...
TpQuiet ==
  /\ mpc = "drain"
  /\ cur # None
  /\ \A c \in Clients : ~(pc[c] = "pool" /\ pos[c] = cur)
  /\ mpc' = "ends"
  /\ UNCHANGED <<cur, blocked, reloads, quitting, confVars, mtx, pc, pos, want, report, overtaken>>

\* ... and all its connections have ended: nobody waits for a client that has come
\* since, or that has still a signal to send.
TpEnded ==
  /\ mpc = "ends"
  /\ mpc' = "drain"
  /\ cur' = After(cur)
  /\ overtaken' = overtaken \cup {c \in Clients : pc[c] = "signal" /\ pos[c] = cur}
  /\ UNCHANGED <<blocked, reloads, quitting, confVars, mtx, pc, pos, want, report>>

\* The transports for whose clients nobody waits any more.
Drained ==
  {i \in Elems(transports) :
     \/ mpc = "drain" /\ (cur = None \/ i < cur)
     \/ mpc = "ends" /\ i <= cur}

\* The end of abortTransportsConns: a client that has not found its transport comes
\* too late.
ConnsAborted ==
  /\ mpc = "drain"
  /\ cur = None
  /\ mpc' = "freeTp"
  /\ cur' = First
  /\ overtaken' = overtaken \cup {c \in Clients : pc[c] = "find"}
  /\ UNCHANGED <<blocked, reloads, quitting, confVars, mtx, pc, pos, want, report>>

\* Who is in a visit under transportsMtx.
InVisit == {v \in Visitors : pc[v] \in {"handle", "next"}}

\* dllistVisit(transports, freeTp): one transport.
FreeTp ==
  /\ mpc = "freeTp"
  /\ cur # None
  /\ live' = live \ {cur}
  /\ cur' = After(cur)
  /\ overtaken' = overtaken \cup InVisit
  /\ UNCHANGED <<mpc, blocked, reloads, quitting, file, todo, iniError, transports, tp, mtx, pc, pos,
                 want, report>>

\* The loop over the nodes: one of them.
FreeNode ==
  /\ mpc = "freeTp"
  /\ cur = None
  /\ transports # <<>>
  /\ transports' = Tail(transports)
  /\ overtaken' = overtaken \cup InVisit
  /\ UNCHANGED <<mainVars, file, todo, iniError, tp, live, mtx, pc, pos, want, report>>

\* The end of it.
Freed ==
  /\ mpc = "freeTp"
  /\ cur = None
  /\ transports = <<>>
  /\ mpc' = IF quitting THEN "freeList" ELSE "lock"
  /\ reloads' = IF quitting THEN reloads ELSE reloads + 1
  /\ UNCHANGED <<cur, blocked, quitting, confVars, mtx, pc, pos, want, report, overtaken>>

\* free(transports): the thread of an expiry may still be on its way to the list.
FreeList ==
  /\ mpc = "freeList"
  /\ mpc' = "exit"
  /\ overtaken' = overtaken \cup InVisit \cup {v \in Visitors : pc[v] = "lock"}
  /\ UNCHANGED <<cur, blocked, reloads, quitting, confVars, mtx, pc, pos, want, report>>

Exit ==
  /\ mpc = "exit"
  /\ mpc' = "quitted"
  /\ UNCHANGED <<cur, blocked, reloads, quitting, confVars, mtx, pc, pos, want, report, overtaken>>

-----------------------------------------------------------------------------
(***************************************************************************)
(* A visit: the handler gets node->data, then node->next is read.          *)
(***************************************************************************)

\* The node v is at, and for a handler its transport too, is not freed.
Sound(v) == pos[v] \in Elems(transports)
SoundTp(v) == Sound(v) /\ pos[v] \in live

Undefined(v) ==
  \/ pc[v] \in {"handle", "find"} /\ pos[v] # None /\ ~SoundTp(v)
  \/ pc[v] = "next" /\ ~Sound(v)
  \/ pc[v] \in {"pool", "signal"} /\ pos[v] \notin live
  \/ pc[v] = "lock" /\ mpc = "exit" /\ mtx = "free"

GoUndefined(v) ==
  /\ Undefined(v)
  /\ Goto(v, "undefined", None)
  /\ UNCHANGED <<mainVars, confVars, mtx, want, report, overtaken>>

\* Mutant of VisitNext: the node stays the same.
VisitNextNot(v) ==
  /\ pc[v] = "next"
  /\ Sound(v)
  /\ Goto(v, "handle", pos[v])
  /\ UNCHANGED <<mainVars, confVars, mtx, want, report, overtaken>>

\* dllistVisit goes on.
VisitNext(v) ==
  /\ pc[v] = "next"
  /\ Sound(v)
  /\ Goto(v, "handle", After(pos[v]))
  /\ UNCHANGED <<mainVars, confVars, mtx, want, report, overtaken>>

\* pthread_mutex_lock(&transportsMtx), and list->head.
Lock(v) ==
  /\ pc[v] = "lock"
  /\ mtx = "free"
  /\ mpc # "exit"
  /\ mtx' = v
  /\ Goto(v, "handle", First)
  /\ overtaken' = IF mpc = "freeTp" THEN overtaken \cup {v} ELSE overtaken
  /\ UNCHANGED <<mainVars, confVars, want>>

-----------------------------------------------------------------------------
(***************************************************************************)
(* The monitor: monitor, collectReport, addReportItem, reportTp.           *)
(***************************************************************************)

\* accept returns a connection, or an error that ends the monitor, or the
\* cancellation is due in it.
MonitorAccept ==
  /\ pc["monitor"] = "accept"
  /\ \/ ~quitting /\ Goto("monitor", "collect", None)
     \/ Goto("monitor", "ended", None)
  /\ UNCHANGED <<mainVars, confVars, mtx, want, report, overtaken>>

\* Mutant of AddItem: off by one.
AddItemOffByOne(r, len, shown) ==
  IF r.len + len > maxlen + 1 THEN r ELSE [len |-> r.len + len + 1, shown |-> r.shown \cup shown]

\* addReportItem: an item that does not fit is dropped.
AddItem(r, len, shown) ==
  IF r.len + len > maxlen THEN r ELSE [len |-> r.len + len + 1, shown |-> r.shown \cup shown]

\* The report starts with the number of clients and, under transportsMtx, the
\* number of transports.
MonitorCollect ==
  /\ pc["monitor"] = "collect"
  /\ \E n \in HeadLens : report' = AddItem([len |-> 0, shown |-> {}], n, {})
  /\ Goto("monitor", "lock", None)
  /\ UNCHANGED <<mainVars, confVars, mtx, want, overtaken>>

MonitorLock ==
  /\ Lock("monitor")
  /\ \E n \in HeadLens : report' = AddItem(report, n, {})

\* reportTp.
ReportTp ==
  /\ pc["monitor"] = "handle"
  /\ SoundTp("monitor")
  /\ report' = AddItem(report, ItemLen[tp[pos["monitor"]].name], {pos["monitor"]})
  /\ Goto("monitor", "next", pos["monitor"])
  /\ UNCHANGED <<mainVars, confVars, mtx, want, overtaken>>

MonitorUnlock ==
  /\ pc["monitor"] = "handle"
  /\ pos["monitor"] = None
  /\ mtx' = "free"
  /\ Goto("monitor", "write", None)
  /\ overtaken' = overtaken \ {"monitor"}
  /\ UNCHANGED <<mainVars, confVars, want, report>>

\* write and close, or the cancellation.
MonitorWrite ==
  /\ pc["monitor"] = "write"
  /\ \/ Goto("monitor", "accept", None)
     \/ quitting /\ Goto("monitor", "ended", None)
  /\ UNCHANGED <<mainVars, confVars, mtx, want, report, overtaken>>

-----------------------------------------------------------------------------
(***************************************************************************)
(* The timer's thread: resetTodaySendCounter.                              *)
(***************************************************************************)

\* The timer expires, if it has been made and not yet deleted.
TimerExpires ==
  /\ pc["timer"] = "off"
  /\ pc["monitor"] # "off"
  /\ ~quitting \/ mpc = "join"
  /\ Goto("timer", "lock", None)
  /\ UNCHANGED <<mainVars, confVars, mtx, want, report, overtaken>>

TimerLock == Lock("timer") /\ UNCHANGED report

\* resetTpTodaySendCounter.
ResetTp ==
  /\ pc["timer"] = "handle"
  /\ SoundTp("timer")
  /\ Goto("timer", "next", pos["timer"])
  /\ UNCHANGED <<mainVars, confVars, mtx, want, report, overtaken>>

TimerUnlock ==
  /\ pc["timer"] = "handle"
  /\ pos["timer"] = None
  /\ mtx' = "free"
  /\ Goto("timer", "off", None)
  /\ overtaken' = overtaken \ {"timer"}
  /\ UNCHANGED <<mainVars, confVars, want, report>>

-----------------------------------------------------------------------------
(***************************************************************************)
(* A client's sendMail.                                                    *)
(***************************************************************************)

\* abortClients waits for the clients; afterwards there are none.
ClientsGone == quitting /\ mpc \notin {"join", "clients"}

\* The gate, and the head of the list.
PassGate(c) ==
  /\ pc[c] = "off"
  /\ ~blocked /\ ~ClientsGone
  /\ Goto(c, "find", First)
  /\ UNCHANGED <<mainVars, confVars, mtx, want, report, overtaken>>

\* findTpByName, and tp->mtx of the transport that is found.
FindTpByName(c) ==
  /\ pc[c] = "find"
  /\ SoundTp(c)
  /\ \/ /\ tp[pos[c]].name = want[c]
        /\ Goto(c, "pool", pos[c])
        /\ overtaken' = IF pos[c] \in Drained THEN overtaken \cup {c} ELSE overtaken
     \/ /\ tp[pos[c]].name # want[c]
        /\ Goto(c, "find", After(pos[c]))
        /\ UNCHANGED overtaken
  /\ UNCHANGED <<mainVars, confVars, mtx, want, report>>

\* "500 invalid transport".
NotFound(c) ==
  /\ pc[c] = "find"
  /\ pos[c] = None
  /\ Goto(c, "answer", None)
  /\ UNCHANGED <<mainVars, confVars, mtx, want, report, overtaken>>

\* The client, which neither uses a connection nor waits for one any more, unlocks
\* tp->mtx: idleCond or the log may be left to do, or nothing.
LeavePool(c) ==
  /\ pc[c] = "pool"
  /\ pos[c] \in live
  /\ Goto(c, "signal", pos[c]) \/ Goto(c, "answer", None)
  /\ UNCHANGED <<mainVars, confVars, mtx, want, report, overtaken>>

\* pthread_cond_broadcast(&tp->idleCond), or tp->name for the log.
Signal(c) ==
  /\ pc[c] = "signal"
  /\ pos[c] \in live
  /\ Goto(c, "answer", None)
  /\ UNCHANGED <<mainVars, confVars, mtx, want, report, overtaken>>

\* The mail is answered; the client may have another one, for another sender.
Answer(c) ==
  /\ pc[c] = "answer"
  /\ Goto(c, "off", None)
  /\ \E s \in Sections : want' = [want EXCEPT ![c] = s]
  /\ overtaken' = overtaken \ {c}
  /\ UNCHANGED <<mainVars, confVars, mtx, report>>

-----------------------------------------------------------------------------
MainStep ==
  \/ LoadLock \/ TpIniHandler \/ Loaded \/ Unblock
  \/ Join \/ ConnsAborted \/ FreeTp \/ FreeNode \/ Freed \/ FreeList \/ Exit

\* What waits for the clients and the connections.
DrainStep == AbortClients \/ TpQuiet \/ TpEnded

VisitorStep(v) == VisitNext(v) \/ GoUndefined(v)
MonitorStep ==
  \/ VisitorStep("monitor") \/ MonitorCollect \/ MonitorLock \/ ReportTp \/ MonitorUnlock \/ MonitorWrite
  \/ quitting /\ MonitorAccept
TimerStep == VisitorStep("timer") \/ TimerLock \/ ResetTp \/ TimerUnlock
ClientStep(c) ==
  FindTpByName(c) \/ NotFound(c) \/ LeavePool(c) \/ Signal(c) \/ Answer(c) \/ GoUndefined(c)

Over == mpc \in {"failed", "quitted"}

\* A thread has used freed memory, maybe with the mutex held.
Broken == \E v \in Threads : pc[v] = "undefined"

Next ==
  \/ /\ ~Over
     /\ \/ MainStep \/ DrainStep \/ StartReload \/ StartQuit
        \/ MonitorStep \/ MonitorAccept
        \/ TimerStep \/ TimerExpires
        \/ \E c \in Clients : ClientStep(c) \/ PassGate(c)
  \/ (Over \/ Broken) /\ UNCHANGED vars

Spec == Init /\ [][Next]_vars

\* All threads run on, and a mutex that is free again and again is got in the end;
\* reloads, stops, look-ups, monitors and expiries need not come.  abortClients and
\* abortTpConns may wait for good (see ClientThreads and ConnPool!DrainEnds).
FairSpec ==
  /\ Spec
  /\ SF_vars(~Over /\ MainStep)
  /\ SF_vars(~Over /\ MonitorStep)
  /\ WF_vars(~Over /\ TimerStep)
  /\ \A c \in Clients : WF_vars(~Over /\ ClientStep(c))

-----------------------------------------------------------------------------
(***************************************************************************)
(* Properties.                                                             *)
(***************************************************************************)

\* The transports transport.ini asks for: one per section, in the order in which
\* they come up, with the last value of each item.
Asked(f) ==
  LET firsts == {i \in 1..Len(f) : \A j \in 1..(i - 1) : f[j].section # f[i].section}
      Last(s, item) == {f[i].value : i \in {i \in 1..Len(f) : /\ f[i].section = s /\ f[i].item = item
                          /\ \A j \in (i + 1)..Len(f) : f[j].section = s => f[j].item # item}}
      One(S, otherwise) == IF S = {} THEN otherwise ELSE CHOOSE x \in S : TRUE
      nth(k) == CHOOSE i \in firsts : Cardinality({j \in firsts : j < i}) = k - 1
  IN  [k \in 1..Cardinality(firsts) |->
        LET s == f[nth(k)].section
        IN  [load |-> reloads, name |-> s, str |-> [i \in Plain \cup Checked |-> One(Last(s, i), "NULL")],
             maxConn |-> One(Last(s, "maxConn"), 0)]]

Valid(f) ==
  /\ \A i \in 1..Len(f) : Known(f[i])
  /\ \A k \in 1..Len(Asked(f)) :
       /\ \A i \in Plain : Asked(f)[k].str[i] # "NULL"
       /\ \A i \in Checked : Asked(f)[k].str[i] = "good"
       /\ Asked(f)[k].maxConn > 0

InForce == Valid(file) /\ [k \in 1..Len(transports) |-> tp[transports[k]]] = Asked(file)

\* While mails are let through, the list is what the file asks for: a section is
\* not split over two transports, no item of another section or of the last
\* configuration is left, and every transport may have a connection (the
\* assumption ConnPool makes).  A load ends the program exactly if the file
\* asks for something else.
InForceAsAsked ==
  /\ mpc \in {"unblock", "run", "join", "clients", "drain", "ends"} => InForce
  /\ mpc = "failed" => ~Valid(file)

\* Whoever goes through the list under transportsMtx finds all of a checked
\* configuration, or none, and nothing that was freed, but for one case:
\* freeTransports, which does not take transportsMtx, runs during the visit, or at
\* the exit the list itself is freed before it.
VisitsAreSafe ==
  \A v \in Visitors \ overtaken :
    /\ pc[v] # "undefined"
    /\ mtx = v => /\ transports = <<>> \/ InForce
                  /\ pos[v] # None => SoundTp(v)

\* A report that is written, even by a monitor that freeTransports ran into, has
\* all transports of one load, as far as they fit, or none.  With the newline of
\* its last item it stays within the buffer, whose size is maxlen + 2, and a NUL
\* for the next strcat follows it.
ReportWhole ==
  /\ report.len <= maxlen + 1
  /\ pc["monitor"] = "write" =>
       \A i \in report.shown, j \in 1..Len(tp) :
         IF j \in report.shown
           THEN tp[j].load = tp[i].load
           ELSE tp[j].load # tp[i].load \/ report.len + ItemLen[tp[j].name] > maxlen

\* Without a mutex a client finds its transport, whole and not freed, and has it
\* until its connection is given back, unless it passed the gate before a reload and
\* got into the pool only when this pool had been drained, or not at all (see
\* ConnPool!NoNewMailAfterBlock); a client that was in the pool has the transport also
\* for its last signal, unless the pool was drained before it.  A look-up searches
\* what the file asks for, and a sender is told that its transport does not exist
\* only if the file has no section of that name.
LookupsAreSafe ==
  \A c \in Clients \ overtaken :
    /\ pc[c] # "undefined"
    /\ pc[c] = "find" =>
         /\ InForce
         /\ IF pos[c] = None THEN want[c] \notin {file[i].section : i \in 1..Len(file)}
                             ELSE SoundTp(c)
    /\ pc[c] \in {"pool", "signal"} => SoundTp(c) /\ tp[pos[c]].name = want[c] /\ CheckTp(tp[pos[c]])

\* Nobody else comes by what was freed.
NoUseAfterFree == VisitsAreSafe /\ LookupsAreSafe

\* Once the clients and the connections have let it, a reload ends and the exit comes
\* to its end, unless freed memory was used; a file that is not valid ends the program.
MainGoesOn ==
  mpc \in {"join", "freeTp"} ~> mpc \in {"clients", "run", "failed", "quitted"} \/ Broken

\* A connection to the monitor's port gets its report, in the same sense.
MonitorAnswers == pc["monitor"] = "collect" ~> pc["monitor"] \in {"accept", "ended"} \/ Over \/ Broken

\* The main thread and the monitor, which wait for each other's mutex, go on.
NobodyStuck == MainGoesOn /\ MonitorAnswers

=============================================================================
