----------------------------- MODULE CronSearch -----------------------------
(***************************************************************************)
(* next_run_from_cron_fields of src/src/cron/schedule.cpp: the search for  *)
(* the next minute a cron expression matches.  One action per branch of    *)
(* its loop; the broken-down time tm is the minute t it stands for.        *)
(*                                                                         *)
(* The calendar (gmtime and timegm of the C library) is a constant: the    *)
(* fields of every minute of 0..Last, and the minute each normalisation    *)
(* leads to.  Times within a minute are the seconds below SecsPerMinute.   *)
(***************************************************************************)
EXTENDS Integers, FiniteSets

CONSTANTS
    Last,                   \* bound: the last minute of the calendar
    SecsPerMinute,
    MonthOf, DomOf, DowOf, HourOf, MinuteOf,   \* [0..Last -> Nat], gmtime
    NextMonth, NextDay, NextHour,   \* [0..Last -> 1..Last+1], where the next one starts
    HourStart,              \* [0..Last -> [hours -> minute]], that hour of the same day
    MaxMinute, MaxHour, MaxDom, MaxMonth, MaxDow,   \* 59, 23, 31, 12, 6
    MaxIterations,          \* MAX_ITERATIONS
    FieldChoices,           \* the expressions searched for: sets of records of five fields
    Froms                   \* the times, in seconds, searched from

Minutes == 0..Last

ASSUME SearchBounds ==
    /\ Last \in Nat /\ SecsPerMinute \in Nat \ {0} /\ MaxIterations \in Nat
    /\ MaxHour \in Nat /\ MaxMinute \in Nat
    /\ Froms \subseteq 0..(SecsPerMinute * Last)

\* What the search relies on: a month, a day and an hour are intervals of minutes.
ASSUME Calendar ==
    \A u \in Minutes :
        /\ HourOf[u] \in 0..MaxHour /\ MinuteOf[u] \in 0..MaxMinute
        /\ NextMonth[u] \in u+1..Last+1
        /\ NextDay[u] \in u+1..Last+1
        /\ NextHour[u] \in u+1..Last+1
        /\ \A v \in u..NextMonth[u]-1 : MonthOf[v] = MonthOf[u]
        /\ \A v \in u..NextDay[u]-1 :
              DomOf[v] = DomOf[u] /\ DowOf[v] = DowOf[u] /\ HourOf[v] >= HourOf[u]
        /\ \A v \in u..NextHour[u]-1 :
              HourOf[v] = HourOf[u] /\ MinuteOf[v] = MinuteOf[u] + (v - u)
        /\ u + (MaxMinute - MinuteOf[u]) < NextHour[u]
        /\ NextHour[u] <= NextDay[u] /\ NextDay[u] <= NextMonth[u]
        /\ \A h \in HourOf[u]+1..MaxHour :
              /\ HourStart[u][h] \in u+1..NextDay[u]-1
              /\ \A v \in u..HourStart[u][h]-1 : HourOf[v] < h

-----------------------------------------------------------------------------
(* parse_cron_field.  A field is the set of its comma-separated parts, a   *)
(* part a base with an optional step (0: no slash).                        *)

Step(p) == IF p.step <= 0 THEN 1 ELSE p.step

PartSet(p, min, max) ==
    {i \in min..max :
        CASE p.base = "*"     -> (i - min) % Step(p) = 0
          [] p.base = "range" -> i \in p.lo..p.hi /\ (i - p.lo) % Step(p) = 0
          [] p.base = "one"   -> i = p.lo}

ParseField(field, min, max) == UNION {PartSet(p, min, max) : p \in field}

\* The field is literally "*".
IsStar(field) == \E p \in field : field = {p} /\ p.base = "*" /\ p.step = 0

Months(e)    == ParseField(e.month, 1, MaxMonth)
Doms(e)      == ParseField(e.dom, 1, MaxDom)
Dows(e)      == ParseField(e.dow, 0, MaxDow)
Hours(e)     == ParseField(e.hour, 0, MaxHour)
MinutesIn(e) == ParseField(e.minute, 0, MaxMinute)

MonthMatch(e, u) == MonthOf[u] \in Months(e)

\* Either day field may match when both are restricted; a "*" leaves it to the other.
DayMatch(e, u) ==
    LET domAll == IsStar(e.dom)
        dowAll == IsStar(e.dow)
    IN  \/ domAll /\ dowAll
        \/ ~dowAll /\ DowOf[u] \in Dows(e)
        \/ ~domAll /\ DomOf[u] \in Doms(e)

HourMatch(e, u) == HourOf[u] \in Hours(e)
MinuteMatch(e, u) == MinuteOf[u] \in MinutesIn(e)

Matches(e, u) == MonthMatch(e, u) /\ DayMatch(e, u) /\ HourMatch(e, u) /\ MinuteMatch(e, u)

-----------------------------------------------------------------------------

VARIABLES
    expr,    \* the expression's fields
    from,    \* the time searched from, in seconds
    t,       \* the minute under examination
    iter,    \* iterations done
    status   \* "search", "found", "gave up"

vars == <<expr, from, t, iter, status>>

\* from + 60 seconds, rounded down to the minute
First == (from + SecsPerMinute) \div SecsPerMinute

TypeOK ==
    /\ expr \in FieldChoices
    /\ from \in Froms
    /\ t \in 0..Last+1
    /\ iter \in 0..MaxIterations
    /\ status \in {"search", "found", "gave up"}

Init ==
    /\ expr \in FieldChoices
    /\ from \in Froms
    /\ t = First
    /\ iter = 0
    /\ status = "search"

\* Mutant: one iteration too many.
IterateOnceMore ==
    /\ status = "search"
    /\ t \in Minutes
    /\ iter <= MaxIterations
    /\ iter' = iter + 1
    /\ UNCHANGED <<expr, from>>

\* The loop goes round; a search that runs off the calendar stops here, by the bound Last.
Iterate ==
    /\ status = "search"
    /\ t \in Minutes
    /\ iter < MaxIterations
    /\ iter' = iter + 1
    /\ UNCHANGED <<expr, from>>

AdvanceMonth ==
    /\ Iterate
    /\ ~MonthMatch(expr, t)
    /\ t' = NextMonth[t]
    /\ UNCHANGED status

AdvanceDay ==
    /\ Iterate
    /\ MonthMatch(expr, t) /\ ~DayMatch(expr, t)
    /\ t' = NextDay[t]
    /\ UNCHANGED status

LaterHours == {h \in Hours(expr) : h > HourOf[t]}
LaterMinutes == {m \in MinutesIn(expr) : m > MinuteOf[t]}
IsLeast(x, S) == x \in S /\ \A y \in S : x <= y

\* Mutant: the minute is not reset when the hour is set.
AdvanceHourOnly ==
    /\ Iterate
    /\ MonthMatch(expr, t) /\ DayMatch(expr, t) /\ ~HourMatch(expr, t)
    /\ \/ \E h \in LaterHours : IsLeast(h, LaterHours) /\ t' = HourStart[t][h] + MinuteOf[t]
       \/ LaterHours = {} /\ t' = NextDay[t]
    /\ UNCHANGED status

\* Mutant: with no later hour the search returns to the start of the same day.
AdvanceHourSameDay ==
    /\ Iterate
    /\ MonthMatch(expr, t) /\ DayMatch(expr, t) /\ ~HourMatch(expr, t)
    /\ \/ \E h \in LaterHours : IsLeast(h, LaterHours) /\ t' = HourStart[t][h]
       \/ LaterHours = {} /\ t' = HourStart[t][0]
    /\ UNCHANGED status

AdvanceHour ==
    /\ Iterate
    /\ MonthMatch(expr, t) /\ DayMatch(expr, t) /\ ~HourMatch(expr, t)
    /\ \/ \E h \in LaterHours : IsLeast(h, LaterHours) /\ t' = HourStart[t][h]
       \/ LaterHours = {} /\ t' = NextDay[t]
    /\ UNCHANGED status

\* Mutant: the first minute of the field in the place of the next one.
AdvanceMinuteFirst ==
    /\ Iterate
    /\ MonthMatch(expr, t) /\ DayMatch(expr, t) /\ HourMatch(expr, t) /\ ~MinuteMatch(expr, t)
    /\ \/ \E m \in MinutesIn(expr) :
             /\ IsLeast(m, MinutesIn(expr))
             /\ t' = t + (m - MinuteOf[t])
             /\ status' = "found"
       \/ MinutesIn(expr) = {} /\ t' = NextHour[t] /\ UNCHANGED status

\* With no later minute in the hour the loop goes on at the next hour; else the
\* minute is set and falls through to the result.
AdvanceMinute ==
    /\ Iterate
    /\ MonthMatch(expr, t) /\ DayMatch(expr, t) /\ HourMatch(expr, t) /\ ~MinuteMatch(expr, t)
    /\ \/ \E m \in LaterMinutes :
             /\ IsLeast(m, LaterMinutes)
             /\ t' = t + (m - MinuteOf[t])
             /\ status' = "found"
       \/ LaterMinutes = {} /\ t' = NextHour[t] /\ UNCHANGED status

Accept ==
    /\ Iterate
    /\ Matches(expr, t)
    /\ status' = "found"
    /\ UNCHANGED t

GiveUp ==
    /\ status = "search"
    /\ iter = MaxIterations
    /\ status' = "gave up"
    /\ UNCHANGED <<expr, from, t, iter>>

Next == AdvanceMonth \/ AdvanceDay \/ AdvanceHour \/ AdvanceMinute \/ Accept \/ GiveUp

Spec == Init /\ [][Next]_vars

-----------------------------------------------------------------------------
(* Properties *)

\* The search never steps over a minute the expression matches: month, day and
\* hour jumps and the day rule included, everything between from and t fails.
NoMatchSkipped == \A u \in First..t-1 : u \in Minutes => ~Matches(expr, u)

\* The search implements the promise of NextMatch: it returns the first minute after from
\* that the expression matches, the minute set without going round the loop again (the
\* fall-through) included, and gives up when there is none for MAX_ITERATIONS minutes.
Matched == [e \in FieldChoices |-> {u \in Minutes : Matches(e, u)}]

Promise == INSTANCE NextMatch WITH
    Wanted <- Matched, Patience <- MaxIterations,
    query <- expr, first <- First, phase <- status,
    answer <- IF status = "found" THEN t ELSE -1

FindsNextMatch == Promise!Spec

\* A search that gives up has covered at least MAX_ITERATIONS minutes, the four
\* years its message speaks of.
GivesUpLate == status = "gave up" => t >= First + MaxIterations
=============================================================================
