---------------------------- MODULE MCGnssLogger ----------------------------
(* GnssLogger for TLC. Day 1 is the last of a month, day 2 the first of the *)
(* next; day 0 is the zero of a pvt_data that was never read. The year is to *)
(* the month what the month is to the day.                                 *)
EXTENDS GnssLogger, TLC

MCCalendar  == [d \in Days |-> [month |-> IF d < 2 THEN 0 ELSE 1,
                                day |-> IF d = 1 THEN 1 ELSE 0]]
MCTimeOfDay == [p \in Tods |-> [time |-> p]]
MCNoTime    == [p \in Tods |-> <<>>]
=============================================================================
