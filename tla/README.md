# our-smtp-proxy: specification and proofs

our-smtp-proxy keeps a bounded number of SMTP connections per mail account
("transport") and sends the mails of any number of applications over them,
synchronously: an application hands over a mail and waits for the server's
answer. This directory holds TLA+ models of the proxy's parts, the TLC
configurations that check them on small instances, and theorems about them that
TLAPS checks for every instance. Line numbers refer to `src/src/` unless a path
says otherwise.

## Inventory

| Part | Code | State | Operations | Model |
|---|---|---|---|---|
| main loop | `main.c` | `quit`, `reload`, `fd`, listen backlog, version of `transport.ini` in force | accept, signal handlers, reload, exit | `MainLoop` |
| client threads | `client.c` | a thread, a socket and a cancel state per application; `blocked` | poll, read, block gate, send, answer, `freeCl`, cancellation | `ClientThreads` |
| client list | `pthread_dllist.c` | nodes, `count`, `maxNodes`, mutex, condition | append with timeout, delete, visit | `ClientThreads`, `NodeLists` |
| connection pool | `transport.c` | per transport: three lists, `waiting`, `mtx`, `idleCond`, `endCond`; per connection: `status`, `endFlag`, counters, `cond`, a thread | `getAnIdleConn`, `newConn`, `tpSendMail`, `connNOOP`, `endConn`, `abortTpConns`, `freeTransports` | `ConnPool`, `LeasedPool` |
| SMTP dialogue | `smtp.c`, `transport.c` | step of the dialogue, bytes in the socket | `smtpWrite`, `smtpExpect`, set-up, mail, NOOP | `SmtpSession` |
| day counter | `transport.c` 526-567 | `todaySend`, a timer | send, expiry, reload | `TodayCounter` |
| transport configuration | `transport.c` 17-202, 470-503 | `transports`, `transportsMtx` | parse, check, free, look up | `Transports`; its version in `MainLoop` |
| monitor and report | `main.c` 84-113, `report.c` | a thread, a text buffer | accept, collect, write | `Transports` |
| unlocked list | `dllist.c` | `head`, `tail`, `count`, links | append, delete, move, visit | `DList`; as sequences in `NodeLists`, as sets in `ConnPool` |
| mail buffer, request parsing | `client.c` 48-82, 132-223 | `buf`, `ptr`, lengths | grow, find the end, split | `MailRequest`, `MailFormat` |
| recipient list | `rcpt.c` | a singly linked list of one thread | append, free | a sequence in `MailFormat` |
| base64, log, ini | `smtp.c` 220-256, `log.c`, `ini.c` | none shared | pure functions and output | not modelled |
| PHP client | `php-scripts/Transport.php` | a connection to the proxy | compose and write a mail, wait for the answer | `MailFormat`, `MailRequest`; `Success` in `SmtpSession` |
| scripts | `bin/` | - | send a signal | actions of `MainLoop` |

### How the parts interact

- The **main thread** accepts a connection, puts a `cl_t` on the client list
  (waiting up to `MAX_WAIT` seconds for a place) and starts a **client thread**.
- A client thread reads a mail, passes the block gate and calls `tpSendMail`: it
  takes an idle **connection** of the pool, makes a new one, or waits for up to
  90 seconds; it runs the **SMTP dialogue** and puts the connection back, or
  flags it for its own thread to end.
- Every connection has a **NOOP thread** that moves it from the idle to the noop
  list and back, and that is the only one to close it. `tp->mtx` guards the
  lists; `idleCond` wakes clients and the main thread, `conn->cond` the NOOP
  thread, `endCond` the main thread. Signals are sent after the unlock.
- `SIGHUP` and `SIGINT`/`SIGTERM` set a flag and end a blocked accept. A reload
  closes the gate, waits until nobody sends or waits, flags the connections,
  waits for their threads, frees the transports, reads the file and opens the
  gate. The exit cancels the clients instead of blocking them.
- A **timer** resets the counters of the day in a thread of its own; the
  **monitor** thread reads all counts. Both visit the list of transports under
  `transportsMtx`, as `loadTpConfig` does. `freeTransports` and the clients'
  look-ups do not take it: the gate keeps the look-ups away from a reload, and
  nothing keeps the visitors away from `freeTransports`.
- An **application** writes mails to its connection and waits for one line each.
  Neither side sends anything to tell one mail or answer from the next.

Hard to get right and hard to test: three kinds of threads on one mutex with
signals sent outside of it; timeouts that race wakeups; a reload among running
mails; cancellation; signal handlers against a blocking call; replies that TCP
cuts up and runs together. `PROJECT.json` lists the hazards by line.

### What makes each part correct

- pool: never more than `maxConn` connections; one dialogue at a time on each;
  a node is unlinked from the list it is on; `waiting` is exact; no wakeup is
  lost; every mail is answered; a reload and the exit come to their end.
- client threads: at most `MAX_CLIENTS`; on the list exactly while alive; a mail
  that was read is answered; nobody stays behind the gate; the exit ends.
- main loop: an accepted connection is served or refused; no signal is lost.
- dialogue: what is reported as sent was taken by the server, for every
  recipient, and the reverse; replies and commands stay in step.
- day counter: no mail of yesterday in "today send".
- lists: the pointers are those of the sequence asked for, after any calls.
- requests: what the server takes is what the application meant, however TCP
  cuts it up, and an answer is the answer to the mail it is taken for.
- transports: the list is what the file asks for, all of it; nobody meets a
  transport or a node that was freed; a report shows one configuration, whole.

## Modules

**`ConnPool`** has one transport. `busyConns` and `noopConns` are sets, because
their order is never used, `idleConns` is a sequence, taken from its head. One
action is one critical section of `tp->mtx` or one step outside of it; a thread
in `pthread_cond_wait` has a program counter that says so (`asleep`, `parked`,
`drainWait`, `reapWait`), and a signal moves it to where it takes the mutex
again. `newConn` holds the mutex all the while, so it is part of its critical
section. A client is at `found` when it has passed the gate of `handleClient`.
The end of a connection is in three actions, `EndConn` inside another one, then
`EndSignal` and `EndAnnounce`, because other threads run between. Freeing a
transport that is still in use leaves the main thread at `undefined` while the
others run on: what they do afterwards is not constrained by the code.

**`LeasedPool`** is what the pool promises: a connection has one owner (a client,
the pool, its keeper, nobody), goes only from one to the other by a few steps,
and at most `maxConn` are open. `ConnPool!ImplementsLeasedPool` maps status and
holders to owners.

**`ClientThreads`** has `handleClient`, the list as a sequence, the gate and the
main thread's calls. `pthread_dllistDelete` is three actions: the write to
`node->data` before the mutex (`DropData`), the critical section (`Unlink`), the
signal after it (`SignalMain`). A thread can be cancelled where cancellation is
enabled and it is at a cancellation point; in `Hangup` it is so without cleanup
handlers. The main thread is at `accepted` between `accept` and the tests of the
flags; if one is up, the connection it holds is in `forgotten` from then on
(`main.c` 158-178): neither served nor closed. `SocketsAccounted` says exactly whose
the open sockets are.

**`NodeLists`** has the linked lists of `dllist.c` and `pthread_dllist.c` as
sequences of their nodes; `ConnPool` and `ClientThreads` extend it.

**`MainLoop`** has the accept loop with a program counter per test of a flag; the
signal handlers are actions that may come between any two of them. `file` is the
version of `transport.ini` on disk, `asked` the version when `SIGHUP` was last
sent, `loaded` the version in force. A reload's inside is `ConnPool`'s, the exit's
`ClientThreads`'s; here they are one step each (`TakeDown`, `Cleanup`) that need not
ever be taken.

**`SmtpSession`** has one connection against a server that answers commands in
order. The settings `ssl` and `split` are chosen once: a reply
is one piece or, with `split`, may be two; `smtpExpect` takes everything
that has arrived (one record with TLS) and judges its last line. `taken` records
for which recipients the server took a mail.

**`TodayCounter`** has the time in seconds, the expiry the formula of
`initTodaySendResetTimer` yields, and the counter against history variables that
start anew at local midnight: the mails taken since, and those that were then taken
but not counted. A mail is taken (`Taken`, `transport.c` 391) before it is counted
(`Count`, 405): the client sleeps and waits for `tp->mtx` in between. An expiry
(`Expire`) and the reset its thread carries out (`Reset`) are two actions, because the
reset waits for `transportsMtx` and for `tp->mtx`.

**`DList`** has the pointers of `dllist.c`: `mem` is `head`, `tail` and `count` of
the lists and `next` and `prev` of the nodes, and the functions of the source
are operators on it, `dllistDeleteNode` in its four cases. `order` is a history
variable, the sequence of nodes that the calls have put on each list; the
properties relate the two. Callers are those `ConnPool!ListsMatchStatus`
describes: a node is unlinked from the list that holds it.

**`MailFormat`** has a mail as a sequence of tokens (an end of line, a dot, a NUL,
the word DATA, a piece of text), what `Transport.php` writes for it, what
`prepareSendMail` makes of that, and what a server does with the data. A token is
never cut in two.

**`MailRequest`** has one application and its client thread. `wire` and `back` are
the two directions of the connection; a read takes any number of tokens that fit.
`l` holds the locals of `handleClient`, the buffer token by token, with `ptr` as an
offset. The gate, cancellation and the hangup are `ClientThreads`'s.

**`Transports`** has the list of transports from `loadTpConfig` to
`freeTransports`, one action per line of the file, per transport and per node,
because the monitor, the timer's thread and a client's look-up run between them.
A visit is a handler call and a step to the next node, and goes to `undefined` if
either touches freed memory. Of a transport it has what `checkTp` tests; a report
is a length and the transports in it. `abortTransportsConns` drains one transport after
the other (`cur`), each in its two waits (`TpQuiet`, `TpEnded`); what happens in a pool
is `ConnPool`'s, here a client is in it or not, and may have its last signal on
`idleCond` still to send (`Signal`). Three steps of the exit come after `freeTransports`,
so that a late expiry can meet the list before, while and after it is freed.
`overtaken` is a history variable, the threads the frees do not wait for: visits
`freeTransports` or `free(transports)` overlaps; look-ups that go on when the drain is over; clients that
come to a pool already drained, or that have a signal left when it is. The
properties say that everything else is safe.

`ConnPoolProofs`, `ClientThreadsProofs`, `MainLoopProofs`, `SmtpSessionProofs`, `TransportsProofs`,
`DListProofs`, `MailRequestProofs` and `TodayCounterProofs` hold the theorems. The `MC` modules add
symmetry and sets of values for TLC.

## Runs

| Run | Question | Result |
|---|---|---|
| `pool_safety` | bound, lists, waiter count, exclusive dialogues and wakeups, with reloads and the exit; does the pool implement `LeasedPool` | hold |
| `pool_liveness` | is every mail answered, does every connection leave `noopConns`; does the wait for the connections' threads end unless one of them stays parked (`transport.c` 246, 449) | yes |
| `pool_drain` | does a reload's wait for senders and waiters end | no: a waiter that leaves without a connection tells nobody (`transport.c` 345) |
| `pool_block` | are there no new mails after `blockClients` | no: a client between gate and mutex (`client.c` 192) |
| `clients` | list bound, listed while alive, whose every open socket is, signals, quiet exit, answers; does every held-up client go on; does `abortClients` end unless a thread dies in the `close` of a hangup (`client.c` 226) | hold |
| `loop` | is an accepted connection served or refused unless a reload or the exit comes between; are stops and reloads that the loop has seen carried out; is no reload forgotten but one asked for between the reading of the file and `reload = 0` (`main.c` 177), both if no drain lasts for good | yes |
| `smtp` | is what counts as sent taken; in step, and success true, for replies in one piece; rejections kept in TLS records; does every mail end | hold |
| `smtp_rejected` | is every rejection reported in clear text | no: a reply in two pieces shifts the dialogue (`smtp.c` 75) |
| `today` | if the timer was armed: is no mail of an earlier day in the counter once the expiries are carried out, but those that were being counted at midnight | holds |
| `lists` | after any appends, moves, deletions, repeated ones too, are pointers and count those of the list that was asked for | yes |
| `request` | room in the buffer, its end, nothing lost; is a mail delivered as it was meant exactly if it has a recipient, no NUL and no dot at the start of its body; does an answer belong to its mail; does the wait end | hold |
| `transports` | is the list what the file asks for; do the monitor, the timer and clients meet only what is there, but for those that are overtaken, and do look-ups find what the file has; is a report whole and within its buffer; once the drains are over, do reload, exit and report end | hold |

Each "no" is a finding in `PROJECT.json`, with the line of the code and the words
of the comment, script or README it disagrees with.

### Weak points the models contain

Some properties hold but for a case, which the property names; these cases, and
others the models reach, are:

- The thread of an idle connection may stay parked when the clients it made room
  for have left (`transport.c` 246): the connection gets no NOOP until it is used,
  and a reload or the exit that sets its `endFlag` (449) waits for it for good,
  because nobody signals `conn->cond`: the condition in `AbortEnds`.
- After a hangup `freeCl` runs with the cleanup handlers popped and cancellation
  enabled. A thread cancelled in its `close` (`client.c` 226, 118) stays on the
  list, and `abortClients` waits for good: the condition in `AbortClientsEnds`.
- A `SIGHUP` between the reading of the file and `reload = 0` (`main.c` 177) is
  forgotten: the condition in `NoReloadLost`.
- `freeTransports` runs without `transportsMtx` (`transport.c` 496): a monitor or
  a timer in its visit meets freed transports (`pc` = `undefined`), and one that
  comes between the frees a list without its head. `timer_delete` (`main.c` 200)
  does not wait for an expiry, so that the exit has both cases too, and the list
  itself may be gone before the expiry's thread reads it (`main.c` 218).
- The transports are drained one after the other (`transport.c` 467): a client past
  the gate may enter the pool of one that is done with while another is waited for,
  and `freeTransports` frees it. A client's last broadcast (409) comes after the
  unlock that lets the drain end. Both are the `overtaken` of `LookupsAreSafe`.
- `Transport.php:26` escapes dots after a newline, so not one at the very start of
  the body: it is dropped by the server, and a first line of one dot ends the mail
  early. A NUL in a body cuts the mail off, the server then waits for its end.
  `DeliveredAsMeant` says that nothing else goes wrong.
- An application that goes on after a timeout (`Transport.php:47`) reads the late
  answer for that of its next mail; and if both mails come with one read, the
  server takes the text of the second for commands: the mails `AnswersMatch` and
  `DeliveredAsMeant` leave out (`InStep`), as they do a mail with a line of one dot
  at the start of its body, which is answered in two parts (`Splits`), and all mails
  after it on the same connection.
- `freeTransports` may come between the two last signals of `endConn` (224, 232);
  `ConnPool` shows it as `mpc = "undefined"`.
- `pthread_dllistDelete` clears `node->data` before it takes the mutex (85);
  `ClientThreads` shows a visitor that meets it as `mpc = "crashed"`.
- A connection that comes out of `accept` while a flag is up is neither served nor
  closed (`main.c` 158-178): the `forgotten` of `SocketsAccounted`. It and the one
  that waits in `newCl` are missing in the formula of README.md:33; when descriptors run
  out, `accept` ends the program (`main.c` 151-155).
- A `SIGHUP` outside of `accept`, or a `SIGINT` between the test of `quit` and
  `accept`, waits for the next connection (`main.c` 141-142): `QuitHonoured`
  and `NoReloadLost` leave out exactly these windows.
- A connection that comes out of `accept` with the reload flag raised is
  overwritten by the next (`main.c` 178): the `leaked` of `OnlyReloadDrops`.
- A reply cut in two can make a failed mail look like a success to
  `Transport.php` (`smtp.c` 105): `SuccessIsTrue` is stated for replies in one piece.
- A late reply to the mail itself reports a mail as failed that the server took.
- A proxy started between 00:00 and 08:00 local time never resets the counter
  (`transport.c` 559), though the comment above it (546-548) claims the local day for any
  start: `fireAt # 0` in `CountsToday`; `TodayLeftIsRight` says exactly when the formula
  is right.
- A mail the server took before midnight may be counted after the reset, and a reset
  that is late wipes mails of the new day too: `CountsToday` bounds the counter from
  above only, and lets in the first kind (`overnight`).

### Bounds

- `maxConn = 2` with three connection names and two clients: each may hold a
  connection, both may wait while NOOPs are sent, and a name whose thread is still
  sending its last signals can be missing while another takes its place. The
  temporal runs use one connection: one client works, the other waits. The
  invariants are proved for any number of each.
- `maxSendPerConn = 2` and `maxNoop = 2`: a connection is reused once, and ends by
  each of its limits.
- Three applications for two places on the client list: full list, refusal, and
  a place that becomes free while the main thread waits.
- Two edits of the file: one `SIGHUP` during the reload another one asked for.
- Two recipients: one refused, one taken. Two mails and a NOOP on a connection:
  a reply that is left over meets the next mail.
- `lists`: four nodes and four pieces of data on three lists: every case of
  `dllistDeleteNode`, with a node on each side of the middle one, and a list to
  move to and from.
- `request`: blocks of 4 tokens and mails of 12 to 18: a buffer grows three
  times or more, ends within a block and at its end, the end mark is cut at each place,
  and a NUL stands in the last place of a block. Two mails: one late, one after it.
- `transports`: one client, one reload and the exit; six files: one or two
  sections, the two mixed up, so that a client of the first is late while the second
  is drained; files that lack an item, have a wrong one, an unknown one, or no
  connections. A report of 9 characters holds one transport of 3 and one of 1 with
  the shorter head only.
- Times are full hours of three days (all 24 start hours, steps of one or twelve
  hours): every start hour, two midnights, and resets and counts that are a day late.

Client counters, connection counters and the versions are bounded by these
constants; nothing else is cut off.

### Fairness

`ConnPool` and `ClientThreads` assume weak fairness of each thread: the scheduler
runs it, the mutexes are held across one action only, and every network wait in
the code has a timeout (`smtpExpect`) or is taken to return (`connect`, `send`).
`TimeOut` has strong fairness: the deadline of `getAnIdleConn` is an absolute
time, so that a client woken and put to sleep again and again times out in the
end. Nothing is assumed of applications, signals, connections and edits, nor of
spurious wakeups. A thread does not pass its cancellation points for ever while it is cancelled:
`Cancelled` has strong fairness. In `Transports` the main thread and the monitor
have strong fairness: each gets a mutex that is free again and again. Nothing is
assumed there of `DrainStep`, the waits of `abortClients` and of `abortTpConns`, which
can last for good (`DrainEnds`, `AbortEnds`, `AbortClientsEnds`): `NobodyStuck` begins
where they are over.
`MailRequest` assumes that the client thread and `fgets` go on, not that a
timeout passes. `MainLoop` assumes that the main thread goes on, but not that `accept`
ever fails, and nothing of its
waits (`TakeDown`, `Cleanup`), for the same reason: `QuitHonoured` and `NoReloadLost`
reach up to the exit's waits and suppose that no drain of a reload lasts for good
(`DrainsEnd`). `SmtpSession` assumes that the proxy goes on, and nothing of the server.

## Proofs

`ConnPoolProofs` proves, for any finite set of clients, any set of connection
names, any `maxConn > 0` and any limits (the named assumption `PoolAssumption`),
that `TypeOK`, `PoolBound`, `ListsMatchStatus`, `OneDialogue`, `WaitingIsExact` and
`NoLostWakeup` are invariants. None of them is inductive alone. The inductive
invariant `IInv` joins them with:

- `Threads`: the NOOP thread's program counter fits the status of its connection
  (only a connection that does not exist has a thread with nothing left but its
  signals);
- `Held`: what a client works with is busy, and no one else works with it;
- `LoadIsQuiet`: while a transport is being made anew nobody is in the old one.

The argument for the lists goes by *moves*: every action leaves the lists alone
or makes one of a few moves between them (`StepMoves`), and each move keeps them
well-formed, in step with the status and within the bound (`MovesKeepLists`).
`WaitingIsExact` goes the same way over the ways a client enters and leaves the
wait loop. `NoLostWakeup` is shown action by action: what gives a sleeping client
something to take leaves a broadcast due, and what sends the last broadcast
wakes everybody.

`PoolImplementsLeasedPool` shows for the same constants that the pool implements
`LeasedPool`; `PoolAssumption` adds that no client is called "closed", "pool" or
"keeper", the owners `LeasedPool` knows besides the clients. The owner of a
connection follows from its status and from who works with it (`Owners`). Every
step gives at most one connection a new owner (`LeaseStep`), and the refinement
needs the invariant: `Held` so that a lease has one client, `PoolBound` and
`ListsMatchStatus` so that a connection is opened within the bound.

`ClientThreadsProofs` proves, for any clients and any `MAX_CLIENTS > 0` (the named
assumption `ClientsAssumption`), that `TypeOK`, `ListBound`, `ListedWhileAlive`,
`SocketsAccounted`, `NoLostSignal` and `QuitIsQuiet` are invariants, and the action
property `ServedToTheEnd`. Its `IInv` adds that the client the main thread works
with has no thread yet (`CurIsNew`: otherwise it could get on the list twice, or be
started while it serves) and that `freeCl` closes the socket before it unlinks the
node (`ClosedBeforeUnlink`: otherwise a socket would stay that nobody on the list
owns), and that the names of forgotten sockets are not given again (`ForgottenForGood`).
Most steps are *walks*: they change a live thread's program counter and
nothing else. `QuitIsQuiet` follows from `ListedWhileAlive` when the list is empty.

`MainLoopProofs` proves, for any connections, any `backlog > 0` and any number of
edits, that `TypeOK` is an invariant (`FatesAreKnown`), and the action property
`OnlyReloadDrops`. `TypeOK` relates `fd` and the backlog to the fates; it is
inductive with two facts more: nobody is in the backlog twice (else its head, once
accepted, would still wait in it), and `Course`, which says at which places of the
loop `fd` is set and the flags are up: an accepted connection can be overwritten
only where `reload` is up.

`SmtpSessionProofs` proves, for any numbers of recipients, mails and NOOPs and any
choice of encryption and cuts, that `SentIsTaken`, `NothingLeftUnread`,
`SuccessIsTrue` and `RecordsKeepRejections` are invariants. What the socket has and
what is on its way to it are taken as one `Stream`, so that an arrival changes
nothing (`ArriveStream`). The inductive invariant says what may be in the stream
and among the commands that are not answered yet:

- `DataMarks`: 354 is answered to `DATA` only. With replies cut in two the dialogue
  slips by a reply, but never past 354: `BODY` is written only if the server waits
  for it, and the answer that `smtpExpect` takes for the mail's is the mail's.
  `SentIsTaken` rests on it, in every mode.
- `RcptsKept`: where a read is one piece (`OneByOne`: TLS, or replies not cut) and no
  refusal is on its way, every recipient whose command is written is on its way to
  the server or accepted there.
- `InStep`: replies in one piece come one at a time, to the command of the step.

`IInv` was first checked by TLC, with the constants of the run `smtp`.

`TransportsProofs` proves, for any clients, files, lengths of items and of the report and
any number of reloads, that `InForceAsAsked`, `NoUseAfterFree` and `ReportWhole` are
invariants. `TransportsAssumption` asks of a file only that it is a sequence of lines
whose sections have a length in a report, and that a `maxConn` is an integer.

- `Numbered`: transports are numbered as they are made, so the list is always the end of
  `tp`, and `dllistVisit` goes from a number to the next one. `Loads` says what each load
  made: the list, and nothing behind it.
- `Parsed`: while `ini_parse` runs, the list is what the lines read so far ask for:
  there is a sequence of the first lines of the sections, and each transport has the
  last value of each of its items (`Lists`, `Made`). `LineMakes` shows that a line keeps
  this, for a new section and for an old one. `ParsedIsAsked` shows that after the last
  line it is `Asked(file)`: the places of the sections, which `Asked` finds by counting,
  are counted by a bijection (`FirstsCounted`).
- `Main`: what is freed at which place of the main thread, and that the gate is open only
  in `run`. `Visit` and `LookUp`: a thread that has not been overtaken is in a list of
  which nothing is freed, because a load excludes it by the mutex and a reload
  marks it; a client that is not marked is in no pool that is drained, so that
  when the drain is over none is in any; a look-up has another name behind it, so
  that one that comes to the end knows that the file has no section of its own.
- `Reporting`: the report holds the transports of this load up to the node the monitor
  is at, as far as they fit (`UpTo`), and after the last node all of them (`Complete`). A
  load keeps that true of a report that is still to be written, because what it
  makes belongs to a later load.

`IInv` was first checked by TLC with the constants of the run `transports`.

`DListProofs` proves, for any lists, nodes and data (`ListsAssumption`: NULL is
neither a node nor data), that `TypeOK`, `WellLinked` and `NoDangling` (of which
`BothPoint` is a part) are invariants of the pointers. `AppendFields` and `UnlinkFields` first show that
the two cases of `dllistAppendNode` and the four of `dllistDeleteNode` each come to
one description of every field (`Appended`, `Unlinked`). From it a list that is
changed stays linked as its new sequence (`AppendKeepsList`, `UnlinkKeepsList`),
and every other list as it was, because the lists share no node
(`AppendKeepsOthers`, `UnlinkKeepsOthers`). Hence the inductive `IInv`: disjoint
lists (`Linked`), a node allocated exactly while it is on one, and `BothPoint`,
without which a delete could unlink a node of other data.

`ConnPoolProofs`, `ClientThreadsProofs`, `MainLoopProofs` and `DListProofs` begin with the
lemmas on lists they need: what appending, unlinking and taking the head do to
the set of nodes of a list that holds each of them once.

`MailRequestProofs` proves, for any tokens, mails of any length, any number of them and
blocks of any size, that `BufferBounds`, `NothingLost`, `AnswersMatch` and `DeliveredAsMeant`
are invariants. `RequestAssumption` gives the constants their types, and
`MailsAssumption` says what `Transport.php` is called with: addresses of one line without NUL, no recipient
called DATA, a header without NUL in which no line starts with a dot. Of
bodies nothing is assumed; what a NUL or a dot at its start does to a mail is part of
`DeliveredAsMeant`.

- `Buffers`: `BufferBounds`, and that nothing but NULs is behind what the thread has of a mail, in its
  buffer and in those it has handed over. Hence a read appends what it reads
  (`FilledHolds`), and growing the buffer or going on in it changes nothing
  (`GrownHolds`, `ContinuedHolds`). `NothingLost` is inductive with it.
- `Order`: of the mails in step, those before which none was left without its answer and none
  splits. While the application waits for the answer to the last of them, either the
  thread has some of it and the rest is on the way, or it was handed over whole and only its
  answer is on its way, or the thread has ended (`Turn`); otherwise nothing is on its way
  in either direction (`Quiet`). The requests and answers so far belong to the mails of
  the same number (`RequestsAreMails`, `AnswersAreOwn`). That a read does not run past the end of
  a mail, and does not stop before it, is `MarkEnds`: the mark is found once.
- `DeliveredAsMeant` follows from `IInv` and from a fact about texts alone, `TakenAsMeant`:
  the lines before the DATA line are the addresses (`HeadsAreLines`, line by line), and it
  is the first one, also if a NUL cuts the mail off behind it (`RequestIsTaken`); of a mail
  that is cut off no end mark arrives (`CutOffWaits`), of a whole one it is the one
  at the end (`WholeIsTaken`); and dropping the dots at the starts of lines undoes
  `Escaped`, but for a dot the body begins with (`TakenFromEscaped`, token by token).

Facts of the kind "token by token" are proved by induction over the numbers `n` for which the
fact holds of the first `n` tokens: `Induction` states this for a set of
numbers, and follows from the well-foundedness of `<`. `FlattenUnfolds` and `FlattenLonger` do the same for
`FlattenSeq`: there is exactly one function that its recursive definition
describes, so an element more at the end of a sequence adds itself to the result.

`IInv` was first checked by TLC with three mails of the run `request`, and `TakenAsMeant` on all
mails of a few tokens.

`TodayCounterProofs` proves when `todayLeft` is right (`TodayLeftIsRight`: exactly
when the UTC time of the day is below `Day - TZDIFF`, and not positive otherwise), and
`CountsToday` for every start, any length of the day and any time difference
(`TimeAssumption`). Its inductive invariant says that an armed timer expires at the
next local midnight, or is due; and that what was counted before the last midnight
is gone when the last reset is.

Only model-checked: liveness (`EveryMailAnswered`, `NoopConnLeaves`, `AbortEnds`,
`GateOpens`, `AbortClientsEnds`, `QuitHonoured`, `NoReloadLost`,
`MailEnds`, `WaitEnds`, `NobodyStuck`), which the proof system does not reach. Every
invariant and every action property the passing runs check is also proved.

## Plan

1. Done: `ConnPool`, `LeasedPool`, `ClientThreads`, `MainLoop`, `SmtpSession`,
   `TodayCounter`, `DList`, `MailFormat`, `MailRequest`, `Transports`; the proofs of
   the pool and of its refinement of `LeasedPool`, of the client threads, of the main
   loop, of the SMTP dialogue, of the transports, of the lists, of the mail buffer and its
   requests, and of the counter.
2. `base64_encode` against a reference definition over bounded inputs.
3. Failures of `pthread_create` in `ConnPool` and `ClientThreads`.

## Not modelled

Log output, `base64_encode`, the third-party ini parser, TLS itself, memory (leaks of `newConn`
and of the buffers), `SIGPIPE`, failures of `pthread_create`, the `-t` option
(`doTestTp`) and `daemon`, the manual test programs: they have no state another part depends on, or their failure ends or
starves the process as a whole. Access to freed memory is shown up to the point
where it happens (`mpc = "undefined"`), not what follows from it.
