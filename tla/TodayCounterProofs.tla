------------------------- MODULE TodayCounterProofs -------------------------
(***************************************************************************)
(* The counter of a day is right for every proxy whose timer was armed,    *)
(* and it is armed for those started at a local time of 08:00 or later.    *)
(***************************************************************************)
EXTENDS TodayCounter, TLAPS

\* Started between 00:00 and 16:00 UTC, for a TZDIFF of eight hours.
StartedInTime(t) == (t % Day) < Day - TZDIFF

\* Quotient and remainder are the only ones.
LEMMA DivMod ==
  ASSUME NEW d \in Nat \ {0}, NEW q \in Int, NEW r \in 0..(d - 1),
         NEW x \in Int, x = d * q + r
  PROVE  x % d = r /\ x \div d = q
  OBVIOUS

\* A number without remainder is a multiple.
LEMMA Multiple ==
  ASSUME NEW d \in Nat \ {0}, NEW x \in Int, x % d = 0
  PROVE  \E q \in Int : x = d * q
  OBVIOUS

\* TodayLeft is the time to the next local midnight, if there is any left to
\* the end of the UTC day shifted by TZDIFF, and is not positive otherwise: the
\* timer of a proxy started between 00:00 and 08:00 local time is never armed.
THEOREM TodayLeftIsRight ==
  ASSUME NEW t \in Nat
  PROVE  /\ StartedInTime(t) =>
              /\ TodayLeft(t) \in 1..Day
              /\ (t + TodayLeft(t) + TZDIFF) % Day = 0
              /\ LocalDay(t + TodayLeft(t)) = LocalDay(t) + 1
         /\ ~StartedInTime(t) => TodayLeft(t) <= 0 /\ FirstExpiry(t) = 0
<1>1. PICK q \in Int, r \in 0..(Day - 1) : t = Day * q + r /\ t % Day = r
  <2>1. t \div Day \in Int /\ t % Day \in 0..(Day - 1) /\ t = Day * (t \div Day) + (t % Day)
    BY TimeAssumption
  <2> QED
    BY <2>1
<1>2. TodayLeft(t) = Day - (r + TZDIFF)
  BY <1>1 DEF TodayLeft
<1>3. ASSUME StartedInTime(t)
      PROVE  /\ TodayLeft(t) \in 1..Day
             /\ (t + TodayLeft(t) + TZDIFF) % Day = 0
             /\ LocalDay(t + TodayLeft(t)) = LocalDay(t) + 1
  <2>1. r + TZDIFF < Day
    BY <1>1, <1>3, TimeAssumption DEF StartedInTime
  <2>2. TodayLeft(t) \in 1..Day
    BY <1>1, <1>2, <2>1, TimeAssumption
  <2>3. t + TodayLeft(t) + TZDIFF = Day * (q + 1) + 0
    BY <1>1, <1>2, TimeAssumption
  <2>4. t + TZDIFF = Day * q + (r + TZDIFF)
    BY <1>1, TimeAssumption
  <2>7. q + 1 \in Int /\ 0 \in 0..(Day - 1) /\ r + TZDIFF \in 0..(Day - 1)
    BY <1>1, <2>1, TimeAssumption
  <2>8. t + TodayLeft(t) + TZDIFF \in Int /\ t + TZDIFF \in Int /\ Day \in Nat \ {0}
    BY <2>2, TimeAssumption
  <2>5. (t + TodayLeft(t) + TZDIFF) % Day = 0 /\ (t + TodayLeft(t) + TZDIFF) \div Day = q + 1
    BY <2>7, <2>8, <2>3, DivMod
  <2>6. (t + TZDIFF) \div Day = q
    BY <1>1, <2>7, <2>8, <2>4, DivMod
  <2> QED
    BY <2>2, <2>5, <2>6 DEF LocalDay
<1>4. ASSUME ~StartedInTime(t)
      PROVE  TodayLeft(t) <= 0 /\ FirstExpiry(t) = 0
  <2>1. TodayLeft(t) <= 0
    BY <1>1, <1>2, <1>4, TimeAssumption DEF StartedInTime
  <2> QED
    BY <1>1, <1>2, <2>1, TimeAssumption DEF FirstExpiry
<1> QED
  BY <1>3, <1>4

\* The next expiry is the end of the local day that now belongs to.
Armed ==
  /\ (fireAt + TZDIFF) % Day = 0
  /\ now <= fireAt
  /\ fireAt - now <= Day

\* A mail still to be counted was taken today or is one of those of the night, and so
\* is a mail counted since the last reset.
Accounted ==
  /\ sending <= takenToday + overnight
  /\ fireAt # 0 /\ ~ResetDue => todaySend + sending <= takenToday + overnight

IInv == TypeOK /\ (fireAt # 0 => Armed) /\ Accounted

\* Between two midnights the local day stays the same.
LEMMA SameDay ==
  ASSUME NEW f \in Nat, NEW s \in Nat, NEW t \in Nat,
         (f + TZDIFF) % Day = 0, f - s <= Day, s <= t, t < f
  PROVE  LocalDay(t) = LocalDay(s)
<1>1. PICK q \in Int : f + TZDIFF = Day * q
  <2>1. Day \in Nat \ {0} /\ f + TZDIFF \in Int
    BY TimeAssumption
  <2> QED
    BY <2>1, Multiple
<1>2. ASSUME NEW x \in Nat, x < f, f - x <= Day
      PROVE  LocalDay(x) = q - 1
  <2>1. PICK r \in 0..(Day - 1), p \in Int : r = Day - (f - x) /\ p = q - 1
    BY <1>2, TimeAssumption
  <2>2. x + TZDIFF = Day * p + r
    BY <1>1, <1>2, <2>1, TimeAssumption
  <2>3. x + TZDIFF \in Int /\ Day \in Nat \ {0}
    BY <1>2, TimeAssumption
  <2>4. (x + TZDIFF) \div Day = p
    <3>1. \A y \in Int : y = Day * p + r => y \div Day = p
      <4>1. p \in Int /\ r \in 0..(Day - 1) /\ Day \in Nat \ {0}
        BY <2>1, <2>3
      <4> QED
        BY <4>1, DivMod
    <3> QED
      BY <2>2, <2>3, <3>1
  <2> QED
    BY <2>1, <2>4 DEF LocalDay
<1>3. s < f /\ f - t <= Day
  BY TimeAssumption
<1> QED
  BY <1>2, <1>3

\* Init establishes the inductive invariant, whenever the proxy is started.
LEMMA IInvInit ==
  ASSUME Init
  PROVE  IInv
<1>1. now \in Nat /\ TodayLeft(now) \in Int
  BY TimeAssumption DEF Init, TodayLeft
<1>2. TypeOK
  BY <1>1 DEF Init, FirstExpiry, TypeOK
<1>3. ASSUME fireAt # 0
      PROVE  Armed
  <2>1. StartedInTime(now)
    BY <1>1, <1>3, TodayLeftIsRight DEF Init
  <2>2. TodayLeft(now) \in 1..Day /\ (now + TodayLeft(now) + TZDIFF) % Day = 0
    BY <1>1, <2>1, TodayLeftIsRight
  <2>3. fireAt = now + TodayLeft(now)
    BY <2>2, TimeAssumption DEF Init, FirstExpiry
  <2> QED
    BY <1>1, <2>2, <2>3, TimeAssumption DEF Armed
<1>4. Accounted
  BY DEF Init, Accounted
<1> QED
  BY <1>2, <1>3, <1>4 DEF IInv

\* The expiry after the end of a day is the end of the next one.
LEMMA NextMidnight ==
  ASSUME NEW f \in Nat, (f + TZDIFF) % Day = 0
  PROVE  (f + Day + TZDIFF) % Day = 0
<1>1. f + TZDIFF \in Int /\ Day \in Nat \ {0}
  BY TimeAssumption
<1>2. PICK q \in Int : f + TZDIFF = Day * q
  BY <1>1, Multiple
<1>3. PICK p \in Int, r \in 0..(Day - 1), g \in Int :
        p = q + 1 /\ r = 0 /\ g = f + Day + TZDIFF
  BY <1>1, TimeAssumption
<1>4. g = Day * p + r
  BY <1>1, <1>2, <1>3, TimeAssumption
<1>5. g % Day = r
  <2>1. \A y \in Int : y = Day * p + r => y % Day = r
    <3>1. p \in Int /\ r \in 0..(Day - 1) /\ Day \in Nat \ {0}
      BY <1>1, <1>3
    <3> QED
      BY <3>1, DivMod
  <2> QED
    BY <1>3, <1>4, <2>1
<1> QED
  BY <1>3, <1>5

\* The time goes on: an armed timer has an expiry due at the end of the day, and
\* without one no mail changes its day unnoticed.
LEMMA TickKeepsIInv ==
  ASSUME IInv, NEW d \in Steps, Tick(d)
  PROVE  IInv'
<1> USE DEF IInv, TypeOK
<1>1. d \in Nat \ {0}
  BY TimeAssumption
<1>2. /\ now' = now + d /\ now' \in Nat /\ now <= now'
      /\ fireAt # 0 => now' <= fireAt
      /\ UNCHANGED <<fireAt, resets, sending, todaySend>>
  BY <1>1 DEF Tick
<1>3. \/ LocalDay(now') = LocalDay(now) /\ UNCHANGED <<takenToday, overnight>>
      \/ LocalDay(now') # LocalDay(now) /\ takenToday' = 0 /\ overnight' = sending
  BY DEF Tick
<1>4. TypeOK'
  BY <1>2, <1>3
<1>5. fireAt' # 0 => Armed'
  BY <1>2, TimeAssumption DEF Armed
<1>6. sending' <= takenToday' + overnight'
  BY <1>2, <1>3 DEF Accounted
<1>7. ASSUME fireAt' # 0, ~ResetDue'
      PROVE  todaySend' + sending' <= takenToday' + overnight'
  <2>1. Armed /\ now' < fireAt /\ ~ResetDue
    BY <1>1, <1>2, <1>7 DEF ResetDue
  <2>2. LocalDay(now') = LocalDay(now)
    BY <1>2, <2>1, SameDay DEF Armed
  <2> QED
    BY <1>2, <1>3, <1>7, <2>1, <2>2 DEF Accounted
<1> QED
  BY <1>4, <1>5, <1>6, <1>7 DEF Accounted

\* Every step keeps the inductive invariant.
LEMMA IInvNext ==
  ASSUME IInv, [Next]_vars
  PROVE  IInv'
<1> USE DEF IInv, TypeOK
<1>1. CASE Expire
  <2>1. /\ fireAt' = fireAt + Day /\ fireAt \in Nat /\ now = fireAt /\ fireAt # 0
        /\ resets' = resets + 1
        /\ UNCHANGED <<now, sending, todaySend, takenToday, overnight>>
    BY <1>1 DEF Expire
  <2>2. Armed'
    <3>1. fireAt \in Nat /\ (fireAt + TZDIFF) % Day = 0 /\ fireAt - now <= Day
      BY <2>1 DEF Armed
    <3>2. (fireAt + Day + TZDIFF) % Day = 0
      BY <3>1, NextMidnight
    <3>3. fireAt' = fireAt + Day /\ now' = fireAt /\ Day \in Nat \ {0}
      BY <2>1, TimeAssumption
    <3> QED
      BY <3>1, <3>2, <3>3 DEF Armed
  <2>3. Accounted'
    BY <2>1 DEF Accounted, ResetDue
  <2>4. TypeOK'
    BY <2>1, TimeAssumption
  <2> QED
    BY <2>2, <2>3, <2>4
<1>2. CASE Taken
  BY <1>2 DEF Taken, Armed, Accounted, ResetDue
<1>3. CASE Count
  BY <1>3 DEF Count, Armed, Accounted, ResetDue
<1>4. CASE Reset
  BY <1>4 DEF Reset, Armed, Accounted, ResetDue
<1>5. CASE Reload
  BY <1>5 DEF Reload, Armed, Accounted, ResetDue
<1>6. CASE UNCHANGED vars
  BY <1>6 DEF vars, Armed, Accounted, ResetDue
<1> QED
  BY <1>1, <1>2, <1>3, <1>4, <1>5, <1>6, TickKeepsIInv DEF Next

\* A proxy whose timer was armed, which by TodayLeftIsRight is one started at 08:00
\* local time or later, never shows a mail of an earlier day in "today send" once an
\* expiry is carried out, but those counted after midnight: for any starts, any length
\* of the day, any sleeps of the clients and any delay of the expiries.
THEOREM CounterIsOfToday == Spec => []CountsToday
<1>1. Init => IInv
  BY IInvInit
<1>2. IInv /\ [Next]_vars => IInv'
  BY IInvNext
<1>3. IInv => CountsToday
  BY DEF IInv, TypeOK, Accounted, CountsToday, OfToday
<1> QED
  BY <1>1, <1>2, <1>3, PTL DEF Spec

=============================================================================
