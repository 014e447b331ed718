--------------------------- MODULE MCTodayCounter ---------------------------
(* The counter of a day on starts at full hours. *)
EXTENDS TodayCounter

\* Local times 08:00 of one day to 07:00 of the next.
AllHours == {3600 * h : h \in 0..23}
HalfADay == {3600, 43200}
ThreeDays == 3 * 86400

=============================================================================
