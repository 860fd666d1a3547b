---------------------------- MODULE CostTracker -----------------------------
(***************************************************************************)
(* The cost tracker (src/src/cost/tracker.hpp): a log of usages, a cache   *)
(* of the totals of the current day and month, and a budget.  check_budget *)
(* and record_usage are two calls; the usage is dated when it is made.     *)
(* The clock counts days.  Of the log only what a read of it adds up to is *)
(* kept, per day and per month: the lines that the read understands, and   *)
(* the rest (a model name with a separator in it, a line that a full disk  *)
(* did not take).                                                          *)
(***************************************************************************)
EXTENDS Callers

CONSTANTS
    Costs,         \* what a usage may cost
    MaxCost,       \* the most expensive one
    DailyLimit, MonthlyLimit,
    MonthLength,   \* days in a month
    MaxUsages      \* bound: usages made

ASSUME CostAssumption ==
    /\ MaxCost \in Nat /\ Costs \subseteq 0..MaxCost
    /\ DailyLimit \in Nat /\ MonthlyLimit \in Nat
    /\ MonthLength \in Nat \ {0} /\ MaxUsages \in Nat

VARIABLES
    log,       \* per day: the cost of its lines, readable and not
    monthLog,  \* the same per month
    cache,     \* cached_day_ and the totals: [day, daily, monthly]
    usage,     \* per thread: Idle, Cleared, or the usage it is to record
    usages     \* usages made so far

costVars == <<now, log, monthLog, cache, usage, usages>>

Idle == [step |-> "idle"]
Cleared == [step |-> "cleared"]
Used(day, cost) == [step |-> "used", day |-> day, cost |-> cost]

MonthOf(day) == day \div MonthLength
Months == {MonthOf(d) : d \in Times}

Total == [readable : Nat, lost : Nat]

CostTypeOK ==
    /\ now \in Times
    /\ log \in [Times -> Total]
    /\ monthLog \in [Months -> Total]
    /\ cache \in [day : Times, daily : Nat, monthly : Nat]
    /\ usage \in [Callers -> {Idle, Cleared} \cup {Used(d, k) : d \in Times, k \in Costs}]
    /\ usages \in 0..MaxUsages

\* rebuild_aggregates reads the whole file.
Rebuilt(days, months) ==
    [day |-> now, daily |-> days[now].readable, monthly |-> months[MonthOf(now)].readable]

\* ensure_period_cache_current; the month changes with the day.
Current(days, months) == IF cache.day = now THEN cache ELSE Rebuilt(days, months)

Totals == Current(log, monthLog)

CostInit ==
    /\ now = 0
    /\ log = [d \in Times |-> [readable |-> 0, lost |-> 0]]
    /\ monthLog = [m \in Months |-> [readable |-> 0, lost |-> 0]]
    /\ cache = [day |-> 0, daily |-> 0, monthly |-> 0]
    /\ usage = [c \in Callers |-> Idle] /\ usages = 0

\* The budget if it looked at the month only.
FitsMonth(est) == Totals.monthly + est <= MonthlyLimit

Fits(est) ==
    /\ Totals.daily + est <= DailyLimit
    /\ Totals.monthly + est <= MonthlyLimit

\* check_budget: allowed, or a warning
WithinBudget(c, est) ==
    /\ usage[c] = Idle
    /\ Fits(est)
    /\ cache' = Totals
    /\ usage' = [usage EXCEPT ![c] = Cleared]
    /\ UNCHANGED <<now, log, monthLog, usages>>

\* check_budget over a limit, and get_summary: they bring the cache up to date.
LookAtTotals ==
    /\ cache' = Totals
    /\ UNCHANGED <<now, log, monthLog, usage, usages>>

\* The provider is asked; TokenUsage takes the time when it is made.
Use(c, cost) ==
    /\ usage[c] = Cleared
    /\ usages < MaxUsages
    /\ usage' = [usage EXCEPT ![c] = Used(now, cost)]
    /\ usages' = usages + 1
    /\ UNCHANGED <<now, log, monthLog, cache>>

Appended(l, i, cost, readable) ==
    [l EXCEPT ![i][IF readable THEN "readable" ELSE "lost"] = @ + cost]

Written(u, readable) ==
    /\ log' = Appended(log, u.day, u.cost, readable)
    /\ monthLog' = Appended(monthLog, MonthOf(u.day), u.cost, readable)

Added(cur, u) ==
    [day     |-> cur.day,
     daily   |-> cur.daily + IF u.day = cur.day THEN u.cost ELSE 0,
     monthly |-> cur.monthly + IF MonthOf(u.day) = MonthOf(cur.day) THEN u.cost ELSE 0]

\* add_record writes the line, brings the cache up to date, perhaps from the file that
\* now holds the line, and adds the cost.
Record(c, readable) ==
    /\ usage[c].step = "used"
    /\ Written(usage[c], readable)
    /\ cache' = Added(Current(log', monthLog'), usage[c])
    /\ usage' = [usage EXCEPT ![c] = Idle]
    /\ UNCHANGED <<now, usages>>

\* The file does not open: record_usage throws before it changes anything.
RecordThrows(c) ==
    /\ usage[c].step = "used"
    /\ usage' = [usage EXCEPT ![c] = Idle]
    /\ UNCHANGED <<now, log, monthLog, cache, usages>>

\* The line is written, but the cache is of another day and the file cannot be read:
\* add_record throws between the two, and the cache is rebuilt another time.
RecordUnread(c, readable) ==
    /\ usage[c].step = "used"
    /\ cache.day # now
    /\ Written(usage[c], readable)
    /\ usage' = [usage EXCEPT ![c] = Idle]
    /\ UNCHANGED <<now, cache, usages>>

\* The start if it did not read the file.
RestartBlank ==
    /\ cache' = [day |-> now, daily |-> 0, monthly |-> 0]
    /\ usage' = [c \in Callers |-> Idle]
    /\ UNCHANGED <<now, log, monthLog, usages>>

\* The process ends and starts again: the constructor reads the file.
RestartTracker ==
    /\ cache' = Rebuilt(log, monthLog)
    /\ usage' = [c \in Callers |-> Idle]
    /\ UNCHANGED <<now, log, monthLog, usages>>

TickCost == Tick /\ UNCHANGED <<log, monthLog, cache, usage, usages>>

CostNext ==
    \/ TickCost \/ LookAtTotals \/ RestartTracker
    \/ \E c \in Callers :
          \/ \E est \in 0..MaxCost : WithinBudget(c, est)
          \/ \E k \in Costs : Use(c, k)
          \/ \E readable \in BOOLEAN : Record(c, readable) \/ RecordUnread(c, readable)
          \/ RecordThrows(c)

CostSpec == CostInit /\ [][CostNext]_costVars

-----------------------------------------------------------------------------
(* Properties *)

\* total holds every line of l that can be read, and at most one usage beyond them and
\* the lines that cannot.
Covers(total, l) ==
    /\ l.readable <= total
    /\ total <= l.readable + l.lost + MaxCost

\* The totals of today and of its month never miss a line that can be read, and exceed
\* what was recorded by one usage at most, however often the day has changed: the first
\* record after midnight is counted when the cache is rebuilt from the file and added
\* again (tracker.hpp:287-309), and each rebuild forgets what was added before.
TotalsCoverLog ==
    cache.day = now =>
        Covers(cache.daily, log[now]) /\ Covers(cache.monthly, monthLog[MonthOf(now)])

\* The lines of a day exceed the day's limit by at most one usage per thread: those that
\* passed the same total, or were cleared the day before (tracker.hpp:108-126, 147-160).
OverspendBounded ==
    \A d \in Times :
        log[d].readable <= DailyLimit + Cardinality(Callers) * MaxCost
=============================================================================
