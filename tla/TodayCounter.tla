---------------------------- MODULE TodayCounter ----------------------------
(***************************************************************************)
(* tp->todaySend of one transport, the number of mails sent today that the *)
(* monitor shows, and the timer that sets it back at the end of every      *)
(* local day (initTodaySendResetTimer in src/src/transport.c).  Times are  *)
(* in seconds since 1970-01-01 00:00 UTC; the local time is UTC + TZDIFF.  *)
(*                                                                         *)
(* A mail is counted some time after the server took it, when the client   *)
(* has slept and has tp->mtx; an expiry is carried out some time after it  *)
(* was due, when its thread has transportsMtx and tp->mtx.                 *)
(***************************************************************************)
EXTENDS Integers

CONSTANTS
  Day,      \* 86400
  TZDIFF,   \* TZDIFF, 8*3600
  Starts,   \* the times the proxy may be started at
  Steps,    \* the steps time may take in the model
  Horizon,  \* bound on the time
  MaxSend   \* bound on the mails of a day and on those counted or to be counted

ASSUME TimeAssumption ==
  /\ Day \in Nat \ {0}
  /\ TZDIFF \in 0..(Day - 1)
  /\ Starts \subseteq Nat
  /\ Steps \subseteq Nat \ {0}
  /\ Horizon \in Nat
  /\ MaxSend \in Nat

VARIABLES
  now,        \* time(NULL)
  fireAt,     \* next expiry of the timer, 0 if it is not armed
  resets,     \* expiries whose thread has not yet come to this transport
  sending,    \* mails the server has taken and todaySend does not count yet
  todaySend,  \* tp->todaySend
  takenToday, \* history: mails taken since the last local midnight
  overnight   \* history: mails that were in "sending" at that midnight

vars == <<now, fireAt, resets, sending, todaySend, takenToday, overnight>>

\* Mutant of TodayLeft: the local time is taken to be UTC.
TodayLeftUTC(t) == Day - (t % Day)

\* The seconds it.it_value is set to.
TodayLeft(t) == Day - ((t % Day) + TZDIFF)

\* timer_settime: 0 disarms the timer, a negative time is refused (EINVAL).
FirstExpiry(t) == IF TodayLeft(t) > 0 THEN t + TodayLeft(t) ELSE 0

Init ==
  /\ now \in Starts
  /\ fireAt = FirstExpiry(now)
  /\ resets = 0
  /\ sending = 0 /\ todaySend = 0
  /\ takenToday = 0 /\ overnight = 0

LocalDay(t) == (t + TZDIFF) \div Day

\* Time goes on, up to an expiry; the histories start anew with a local day.
Tick(d) ==
  /\ now + d <= Horizon
  /\ fireAt = 0 \/ now + d <= fireAt
  /\ now' = now + d
  /\ \/ LocalDay(now') = LocalDay(now) /\ UNCHANGED <<takenToday, overnight>>
     \/ LocalDay(now') # LocalDay(now) /\ takenToday' = 0 /\ overnight' = sending
  /\ UNCHANGED <<fireAt, resets, sending, todaySend>>

\* The timer expires: a thread for resetTodaySendCounter, and the next expiry
\* it_interval later.
Expire ==
  /\ fireAt # 0
  /\ now = fireAt
  /\ resets' = resets + 1
  /\ fireAt' = fireAt + Day
  /\ UNCHANGED <<now, sending, todaySend, takenToday, overnight>>

\* smtpDATA returns: the mail is taken, and the client sleeps or waits for tp->mtx.
Taken ==
  /\ takenToday < MaxSend /\ todaySend + sending < MaxSend
  /\ sending' = sending + 1
  /\ takenToday' = takenToday + 1
  /\ UNCHANGED <<now, fireAt, resets, todaySend, overnight>>

\* busy -> idle, or busy -> end after the last mail of a connection.
Count ==
  /\ sending > 0
  /\ sending' = sending - 1
  /\ todaySend' = todaySend + 1
  /\ UNCHANGED <<now, fireAt, resets, takenToday, overnight>>

\* resetTpTodaySendCounter under both mutexes: what was counted since the expiry
\* goes too.
Reset ==
  /\ resets > 0
  /\ resets' = resets - 1
  /\ todaySend' = 0
  /\ UNCHANGED <<now, fireAt, sending, takenToday, overnight>>

\* A reload waits for the connections that are busy and creates the transport anew;
\* an expiry's thread that comes in between finds an empty list.
Reload ==
  /\ sending = 0
  /\ todaySend' = 0
  /\ resets' \in 0..resets
  /\ UNCHANGED <<now, fireAt, sending, takenToday, overnight>>

Next == (\E d \in Steps : Tick(d)) \/ Expire \/ Taken \/ Count \/ Reset \/ Reload

Spec == Init /\ [][Next]_vars

-----------------------------------------------------------------------------
TypeOK ==
  /\ now \in Nat /\ fireAt \in Nat /\ resets \in Nat
  /\ sending \in Nat /\ todaySend \in Nat
  /\ takenToday \in Nat /\ overnight \in Nat

\* Every mail counted was taken today, or before midnight and counted only after it.
OfToday == todaySend <= takenToday + overnight

\* An expiry is due or on its way to the counter.
ResetDue == now = fireAt \/ resets > 0

\* If the timer was armed at the start (transport.c:559 arms it only from 08:00 local
\* time on, see TodayLeftIsRight), the counter holds no mail of an earlier local
\* day once the expiries so far are carried out, however long a client sleeps before
\* it counts its mail and an expiry waits for the mutexes, and over reloads.
CountsToday == fireAt # 0 /\ ~ResetDue => OfToday

=============================================================================
