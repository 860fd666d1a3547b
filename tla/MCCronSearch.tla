---------------------------- MODULE MCCronSearch ----------------------------
(***************************************************************************)
(* A small calendar: hours of 3 minutes, days of 2 hours, weeks of 3 days, *)
(* months of 2 and 3 days in turn.  Every combination of the field shapes  *)
(* parse_cron_field knows.                                                 *)
(***************************************************************************)
EXTENDS CronSearch

DayOf(m) == m \div 6
YearDay(m) == DayOf(m) % 5
MCMonthOf  == [m \in 0..Last |-> IF YearDay(m) < 2 THEN 1 ELSE 2]
MCDomOf    == [m \in 0..Last |-> IF YearDay(m) < 2 THEN YearDay(m) + 1 ELSE YearDay(m) - 1]
MCDowOf    == [m \in 0..Last |-> DayOf(m) % 3]
MCHourOf   == [m \in 0..Last |-> (m \div 3) % 2]
MCMinuteOf == [m \in 0..Last |-> m % 3]
Clip(m) == IF m > Last + 1 THEN Last + 1 ELSE m
MCNextHour  == [m \in 0..Last |-> Clip(3 * (m \div 3 + 1))]
MCNextDay   == [m \in 0..Last |-> Clip(6 * (DayOf(m) + 1))]
MCNextMonth == [m \in 0..Last |->
    Clip(6 * (5 * (DayOf(m) \div 5) + (IF YearDay(m) < 2 THEN 2 ELSE 5)))]
MCHourStart == [m \in 0..Last |-> [h \in 0..1 |-> Clip(6 * DayOf(m) + 3 * h)]]

Star    == [base |-> "*",     lo |-> 0, hi |-> 0, step |-> 0]
Every2  == [base |-> "*",     lo |-> 0, hi |-> 0, step |-> 2]
One(n)  == [base |-> "one",   lo |-> n, hi |-> 0, step |-> 0]
To(a,b) == [base |-> "range", lo |-> a, hi |-> b, step |-> 0]

MCFieldChoices ==
    [minute : {{Star}, {Every2}, {One(1)}, {One(0), One(2)}, {One(7)}},
     hour   : {{Star}, {One(0)}, {One(1)}},
     dom    : {{Star}, {One(2)}, {To(2, 3)}, {To(1, 3)}, {One(3), One(9)}},
     month  : {{Star}, {One(2)}, {Every2}, {One(5)}},
     dow    : {{Star}, {One(0)}, {To(1, 2)}, {To(2, 1)}}]

MCFroms == 0..47
=============================================================================
