------------------------- MODULE CronSearch_proofs -------------------------
(***************************************************************************)
(* The cron search returns the first minute after `from' that matches, for *)
(* every expression and every calendar made of months, days and hours that *)
(* are intervals of minutes.                                               *)
(***************************************************************************)
EXTENDS CronSearch, TLAPS

\* A parsed field stays within its bounds.
LEMMA FieldBounds ==
    ASSUME NEW field, NEW min \in Int, NEW max \in Int
    PROVE  ParseField(field, min, max) \subseteq min..max
BY DEF ParseField, PartSet

\* The search starts at the first whole minute after `from'.
LEMMA FirstAfterFrom ==
    ASSUME NEW f \in Nat, NEW s \in Nat \ {0}
    PROVE  LET q == (f + s) \div s
           IN  q \in Nat /\ q * s > f /\ (q - 1) * s <= f
<1> DEFINE q == (f + s) \div s
<1>1. q \in Int /\ q * s <= f + s /\ f + s < (q + 1) * s
  OBVIOUS
<1>2. QED
  BY <1>1

-----------------------------------------------------------------------------

\* What the search returns matches the expression and lies after from.
ResultMatches ==
    status = "found" => t \in Minutes /\ Matches(expr, t) /\ t * SecsPerMinute > from

\* The minutes examined so far: none matches, and each iteration took at least one.
Reached ==
    /\ t >= First
    /\ status # "found" => t >= First + iter
    /\ status = "gave up" => iter = MaxIterations

IInv == TypeOK /\ Reached /\ NoMatchSkipped /\ ResultMatches

LEMMA SplitInterval ==
    ASSUME NEW a \in Int, NEW b \in Int, NEW c \in Int
    PROVE  \A u \in a..c-1 : u \in a..b-1 \/ u \in b..c-1
OBVIOUS

LEMMA EndOfInterval ==
    ASSUME NEW a \in Int, NEW b \in Int, NEW u \in a..b, u \notin a..b-1
    PROVE  u = b
OBVIOUS

\* Where the search starts.
LEMMA FirstType ==
    ASSUME from \in Froms
    PROVE  First \in 0..Last+1 /\ First * SecsPerMinute > from
<1>1. from \in Nat /\ SecsPerMinute \in Nat \ {0} /\ from <= SecsPerMinute * Last /\ Last \in Nat
  BY SearchBounds
<1>2. First \in Nat /\ First * SecsPerMinute > from /\ (First - 1) * SecsPerMinute <= from
  BY <1>1, FirstAfterFrom DEF First
<1>3. (First - 1) * SecsPerMinute <= Last * SecsPerMinute
  BY <1>1, <1>2
<1>4. First - 1 <= Last
  BY <1>1, <1>2, <1>3
<1>5. QED
  BY <1>1, <1>2, <1>4

\* A later minute is a later time.
LEMMA LaterInSeconds ==
    ASSUME from \in Froms, NEW u \in Nat, u >= First
    PROVE  u * SecsPerMinute > from
<1>1. First \in Nat /\ First * SecsPerMinute > from
  BY FirstType, SearchBounds
<1>2. u * SecsPerMinute >= First * SecsPerMinute
  BY <1>1, SearchBounds
<1>3. QED
  BY <1>1, <1>2, SearchBounds

\* Within an interval over which the examined field does not match, nothing matches.
LEMMA MonthSkip ==
    ASSUME t \in Minutes, ~MonthMatch(expr, t)
    PROVE  \A u \in t..NextMonth[t]-1 : ~Matches(expr, u)
BY Calendar DEF Matches, MonthMatch

LEMMA DaySkip ==
    ASSUME t \in Minutes, ~DayMatch(expr, t)
    PROVE  \A u \in t..NextDay[t]-1 : ~Matches(expr, u)
BY Calendar DEF Matches, DayMatch

\* No later hour of the field: the rest of the day fails.
LEMMA DayEndSkip ==
    ASSUME t \in Minutes, ~HourMatch(expr, t), LaterHours = {}
    PROVE  \A u \in t..NextDay[t]-1 : ~Matches(expr, u)
<1> SUFFICES ASSUME NEW u \in t..NextDay[t]-1, HourOf[u] \in Hours(expr)
             PROVE  FALSE
  BY DEF Matches, HourMatch
<1>1. HourOf[u] >= HourOf[t] /\ HourOf[t] \in Int
  BY Calendar
<1>2. HourOf[u] \in Int
  BY FieldBounds, SearchBounds DEF Hours
<1>3. HourOf[u] = HourOf[t]
  BY <1>1, <1>2 DEF LaterHours
<1>4. QED
  BY <1>3 DEF HourMatch

\* Up to the start of the least later hour of the field, no hour matches.
LEMMA HourSkip ==
    ASSUME t \in Minutes, ~HourMatch(expr, t), NEW h \in LaterHours, IsLeast(h, LaterHours)
    PROVE  HourStart[t][h] \in t+1..NextDay[t]-1 /\ \A u \in t..HourStart[t][h]-1 : ~Matches(expr, u)
<1>1. h \in HourOf[t]+1..MaxHour /\ HourOf[t] \in Int
  BY FieldBounds, SearchBounds, Calendar DEF LaterHours, Hours
<1>2. HourStart[t][h] \in t+1..NextDay[t]-1 /\ \A u \in t..HourStart[t][h]-1 : HourOf[u] < h
  BY <1>1, Calendar
<1>3. ASSUME NEW u \in t..HourStart[t][h]-1, HourOf[u] \in Hours(expr)
      PROVE  FALSE
  <2>1. HourOf[u] >= HourOf[t]
    BY <1>2, Calendar, SearchBounds DEF Minutes
  <2>2. HourOf[u] \in Int
    BY <1>3, FieldBounds, SearchBounds DEF Hours
  <2>3. HourOf[u] # HourOf[t]
    BY <1>3 DEF HourMatch
  <2>4. HourOf[u] \in LaterHours
    BY <2>1, <2>2, <2>3, <1>1, <1>3 DEF LaterHours
  <2>5. h <= HourOf[u]
    BY <2>4 DEF IsLeast
  <2>6. QED
    BY <2>5, <2>2, <1>1, <1>2
<1>4. QED
  BY <1>2, <1>3 DEF Matches, HourMatch

\* No later minute of the field: the rest of the hour fails.
LEMMA HourEndSkip ==
    ASSUME t \in Minutes, ~MinuteMatch(expr, t), LaterMinutes = {}
    PROVE  \A u \in t..NextHour[t]-1 : ~Matches(expr, u)
<1> SUFFICES ASSUME NEW u \in t..NextHour[t]-1, MinuteOf[u] \in MinutesIn(expr)
             PROVE  FALSE
  BY DEF Matches, MinuteMatch
<1>1. MinuteOf[u] = MinuteOf[t] + (u - t) /\ MinuteOf[t] \in Int /\ u \in Int /\ t \in Int
  BY Calendar DEF Minutes
<1>2. u # t
  BY DEF MinuteMatch
<1>3. MinuteOf[u] > MinuteOf[t]
  BY <1>1, <1>2
<1>4. QED
  BY <1>3 DEF LaterMinutes

\* The least later minute of the field is in this hour, and nothing before it matches.
LEMMA MinuteSkip ==
    ASSUME t \in Minutes, ~MinuteMatch(expr, t), NEW m \in LaterMinutes, IsLeast(m, LaterMinutes)
    PROVE  LET r == t + (m - MinuteOf[t])
           IN  /\ r \in t+1..NextHour[t]-1
               /\ MinuteOf[r] = m
               /\ \A u \in t..r-1 : ~Matches(expr, u)
<1> DEFINE r == t + (m - MinuteOf[t])
<1>1. m \in MinuteOf[t]+1..MaxMinute /\ MinuteOf[t] \in Int /\ t \in Int
  BY FieldBounds, SearchBounds, Calendar DEF LaterMinutes, MinutesIn, Minutes
<1>2. r \in t+1..NextHour[t]-1
  BY <1>1, Calendar, SearchBounds
<1>3. MinuteOf[r] = m
  BY <1>1, <1>2, Calendar
<1>4. ASSUME NEW u \in t..r-1, MinuteOf[u] \in MinutesIn(expr)
      PROVE  FALSE
  <2>1. MinuteOf[u] = MinuteOf[t] + (u - t)
    BY <1>1, <1>2, Calendar, SearchBounds DEF Minutes
  <2>2. MinuteOf[u] < m /\ u # t
    BY <2>1, <1>1, <1>4 DEF MinuteMatch
  <2>3. MinuteOf[u] \in LaterMinutes
    BY <2>1, <2>2, <1>1, <1>4 DEF LaterMinutes
  <2>4. QED
    BY <2>1, <2>2, <2>3, <1>1 DEF IsLeast
<1>5. QED
  BY <1>2, <1>3, <1>4 DEF Matches, MinuteMatch

-----------------------------------------------------------------------------

LEMMA InitIInv == Init => IInv
<1> SUFFICES ASSUME Init PROVE IInv
  OBVIOUS
<1>1. First \in 0..Last+1
  BY FirstType DEF Init
<1>2. TypeOK /\ Reached
  BY <1>1, SearchBounds DEF Init, TypeOK, Reached
<1>3. NoMatchSkipped /\ ResultMatches
  BY <1>1, SearchBounds DEF Init, NoMatchSkipped, ResultMatches
<1>4. QED
  BY <1>2, <1>3 DEF IInv

\* A step that moves t forward over minutes that do not match keeps the invariant.
LEMMA Jump ==
    ASSUME IInv, Iterate, UNCHANGED status,
           t' \in t+1..Last+1,
           \A u \in t..t'-1 : ~Matches(expr, u)
    PROVE  IInv'
<1>1. TypeOK' /\ First' = First /\ First \in Int
  BY FirstType, SearchBounds DEF IInv, TypeOK, Iterate, First, Minutes
<1>2. Reached'
  BY <1>1 DEF IInv, TypeOK, Reached, Iterate
<1>3. \A u : Matches(expr, u)' <=> Matches(expr, u)
  BY DEF Iterate
<1>4. NoMatchSkipped'
  <2>1. t \in Int /\ t' \in Int
    <3>1. Last \in Nat /\ t \in 0..Last+1
      BY SearchBounds DEF IInv, TypeOK
    <3>2. QED
      BY <3>1
  <2>2. \A u \in First..t'-1 : u \in First..t-1 \/ u \in t..t'-1
    BY <1>1, <2>1, SplitInterval
  <2>3. SUFFICES ASSUME NEW u \in First..t'-1, u \in Minutes
                 PROVE  ~Matches(expr, u)'
    BY <1>1 DEF NoMatchSkipped
  <2>4. ~Matches(expr, u)
    BY <2>2, <2>3 DEF IInv, NoMatchSkipped
  <2>5. QED
    BY <2>4, <1>3
<1>5. ResultMatches'
  BY DEF Iterate, ResultMatches
<1>6. QED
  BY <1>1, <1>2, <1>4, <1>5 DEF IInv

\* A step that ends the search at a matching minute, nothing before it matching.
LEMMA Hit ==
    ASSUME IInv, Iterate, status' = "found",
           t' \in t..Last, Matches(expr, t'),
           \A u \in t..t'-1 : ~Matches(expr, u)
    PROVE  IInv'
<1>1. TypeOK' /\ First' = First /\ First \in Int
  BY FirstType, SearchBounds DEF IInv, TypeOK, Iterate, First, Minutes
<1>2. Reached'
  BY <1>1, SearchBounds DEF IInv, TypeOK, Reached, Iterate
<1>3. \A u : Matches(expr, u)' <=> Matches(expr, u)
  BY DEF Iterate
<1>4. NoMatchSkipped'
  <2>1. t \in Int /\ t' \in Int
    <3>1. Last \in Nat /\ t \in 0..Last+1
      BY SearchBounds DEF IInv, TypeOK
    <3>2. QED
      BY <3>1
  <2>2. \A u \in First..t'-1 : u \in First..t-1 \/ u \in t..t'-1
    BY <1>1, <2>1, SplitInterval
  <2>3. SUFFICES ASSUME NEW u \in First..t'-1, u \in Minutes
                 PROVE  ~Matches(expr, u)'
    BY <1>1 DEF NoMatchSkipped
  <2>4. ~Matches(expr, u)
    BY <2>2, <2>3 DEF IInv, NoMatchSkipped
  <2>5. QED
    BY <2>4, <1>3
<1>5. t' * SecsPerMinute > from
  <2>1. Last \in Nat /\ t \in 0..Last+1 /\ t >= First /\ from \in Froms
    BY SearchBounds DEF IInv, TypeOK, Reached
  <2>2. t' \in Nat /\ t' >= First
    BY <1>1, <2>1
  <2>3. QED
    BY <2>1, <2>2, LaterInSeconds
<1>6. ResultMatches'
  <2>1. Matches(expr, t)'
    BY DEF Iterate
  <2>2. QED
    BY <1>5, <2>1 DEF Iterate, ResultMatches, IInv, TypeOK, Minutes
<1>7. QED
  BY <1>1, <1>2, <1>4, <1>6 DEF IInv

LEMMA NextIInv == IInv /\ [Next]_vars => IInv'
<1> SUFFICES ASSUME IInv, [Next]_vars PROVE IInv'
  OBVIOUS
<1>1. CASE AdvanceMonth
  <2>1. t' \in t+1..Last+1
    BY <1>1, Calendar DEF AdvanceMonth, Iterate
  <2>2. \A u \in t..t'-1 : ~Matches(expr, u)
    BY <1>1, MonthSkip DEF AdvanceMonth, Iterate
  <2>3. QED
    BY <1>1, <2>1, <2>2, Jump DEF AdvanceMonth
<1>2. CASE AdvanceDay
  <2>1. t' \in t+1..Last+1
    BY <1>2, Calendar DEF AdvanceDay, Iterate
  <2>2. \A u \in t..t'-1 : ~Matches(expr, u)
    BY <1>2, DaySkip DEF AdvanceDay, Iterate
  <2>3. QED
    BY <1>2, <2>1, <2>2, Jump DEF AdvanceDay
<1>3. CASE AdvanceHour
  <2>1. t \in Minutes /\ ~HourMatch(expr, t) /\ Iterate /\ UNCHANGED status
    BY <1>3 DEF AdvanceHour, Iterate
  <2>2. t' \in t+1..Last+1 /\ \A u \in t..t'-1 : ~Matches(expr, u)
    <3>1. CASE LaterHours = {} /\ t' = NextDay[t]
      BY <2>1, <3>1, DayEndSkip, Calendar
    <3>2. ASSUME NEW h \in LaterHours, IsLeast(h, LaterHours), t' = HourStart[t][h]
          PROVE  t' \in t+1..Last+1 /\ \A u \in t..t'-1 : ~Matches(expr, u)
      <4>1. t' \in t+1..NextDay[t]-1 /\ \A u \in t..t'-1 : ~Matches(expr, u)
        BY <2>1, <3>2, HourSkip
      <4>2. NextDay[t] \in t+1..Last+1 /\ t \in Int /\ Last \in Int
        BY <2>1, Calendar, SearchBounds DEF Minutes
      <4>3. t' \in t+1..Last+1
        BY <4>1, <4>2
      <4>4. QED
        BY <4>1, <4>3
    <3>3. QED
      BY <1>3, <3>1, <3>2 DEF AdvanceHour
  <2>3. QED
    BY <2>1, <2>2, Jump
<1>4. CASE AdvanceMinute
  <2>1. t \in Minutes /\ ~MinuteMatch(expr, t) /\ Iterate /\ MonthMatch(expr, t) /\ DayMatch(expr, t) /\ HourMatch(expr, t)
    BY <1>4 DEF AdvanceMinute, Iterate
  <2>2. CASE LaterMinutes = {} /\ t' = NextHour[t] /\ UNCHANGED status
    <3>1. t' \in t+1..Last+1 /\ \A u \in t..t'-1 : ~Matches(expr, u)
      BY <2>1, <2>2, HourEndSkip, Calendar
    <3>2. QED
      BY <2>1, <2>2, <3>1, Jump
  <2>3. ASSUME NEW m \in LaterMinutes, IsLeast(m, LaterMinutes),
               t' = t + (m - MinuteOf[t]), status' = "found"
        PROVE  IInv'
    <3>1. t' \in t+1..NextHour[t]-1 /\ MinuteOf[t'] = m /\ \A u \in t..t'-1 : ~Matches(expr, u)
      BY <2>1, <2>3, MinuteSkip
    <3>2. NextHour[t] \in t+1..Last+1 /\ t \in Int /\ Last \in Int
      BY <2>1, Calendar, SearchBounds DEF Minutes
    <3>3. t' \in t..Last /\ t' \in t..NextHour[t]-1
      BY <3>1, <3>2
    <3>4. Matches(expr, t')
      <4>1. t' \in t..NextDay[t]-1 /\ t' \in t..NextMonth[t]-1
        BY <2>1, <3>2, <3>3, Calendar
      <4>2. HourOf[t'] = HourOf[t] /\ DomOf[t'] = DomOf[t] /\ DowOf[t'] = DowOf[t]
            /\ MonthOf[t'] = MonthOf[t]
        BY <2>1, <3>3, <4>1, Calendar
      <4>3. m \in MinutesIn(expr)
        BY <2>3 DEF LaterMinutes
      <4>4. MonthMatch(expr, t') /\ HourMatch(expr, t') /\ MinuteMatch(expr, t')
        BY <2>1, <3>1, <4>2, <4>3 DEF MonthMatch, HourMatch, MinuteMatch
      <4>5. DayMatch(expr, t')
        BY <2>1, <4>2 DEF DayMatch
      <4>6. QED
        BY <4>4, <4>5 DEF Matches
    <3>5. QED
      BY <2>1, <2>3, <3>1, <3>3, <3>4, Hit
  <2>4. QED
    BY <1>4, <2>2, <2>3 DEF AdvanceMinute
<1>5. CASE Accept
  BY <1>5, Hit, SearchBounds DEF Accept, Iterate, Minutes
<1>6. CASE GiveUp
  BY <1>6 DEF GiveUp, IInv, TypeOK, Reached, NoMatchSkipped, ResultMatches, First
<1>7. CASE UNCHANGED vars
  BY <1>7 DEF vars, IInv, TypeOK, Reached, NoMatchSkipped, ResultMatches, First
<1>8. QED
  BY <1>1, <1>2, <1>3, <1>4, <1>5, <1>6, <1>7 DEF Next

-----------------------------------------------------------------------------

\* On every calendar the search stays within it, whatever it jumps over, and within
\* MAX_ITERATIONS.
THEOREM TypeCorrect == Spec => []TypeOK
<1>1. IInv => TypeOK
  BY DEF IInv
<1>2. QED
  BY <1>1, InitIInv, NextIInv, PTL DEF Spec

\* For every expression and every start, no matching minute is stepped over.
THEOREM SearchSkipsNothing == Spec => []NoMatchSkipped
<1>1. IInv => NoMatchSkipped
  BY DEF IInv
<1>2. QED
  BY <1>1, InitIInv, NextIInv, PTL DEF Spec

\* Giving up means MAX_ITERATIONS minutes without a match.
THEOREM SearchGivesUpLate == Spec => []GivesUpLate
<1>1. IInv => GivesUpLate
  BY DEF IInv, Reached, GivesUpLate
<1>2. QED
  BY <1>1, InitIInv, NextIInv, PTL DEF Spec

-----------------------------------------------------------------------------
(* The promise *)

\* The search begins as the promise does.
LEMMA PromiseStarts == Init => Promise!Init
<1> SUFFICES ASSUME Init PROVE Promise!Init
  OBVIOUS
<1>1. First \in Nat
  BY FirstType, SearchBounds DEF Init
<1>2. DOMAIN Matched = FieldChoices
  BY DEF Matched
<1>3. QED
  BY <1>1, <1>2 DEF Init, Promise!Init, Promise!NoAnswer

\* The expression and the start are never changed.
LEMMA QueryStays ==
    ASSUME [Next]_vars
    PROVE  expr' = expr /\ First' = First
BY DEF Next, vars, First, Iterate, AdvanceMonth, AdvanceDay, AdvanceHour, AdvanceMinute,
       Accept, GiveUp

\* The minutes a query wants
LEMMA MatchedSays ==
    ASSUME expr \in FieldChoices
    PROVE  Matched[expr] = {u \in Minutes : Matches(expr, u)}
BY DEF Matched

\* A search that ends with a minute has found the first that is wanted.
LEMMA FoundIsNext ==
    ASSUME IInv, IInv', status = "search", status' = "found", expr' = expr, First' = First
    PROVE  Matched[expr] \cap First..t' = {t'}
<1>1. /\ t' \in Minutes /\ Matches(expr, t') /\ t' >= First
      /\ First \in Int /\ expr \in FieldChoices
      /\ \A u \in First..t'-1 : u \in Minutes => ~Matches(expr, u)
  <2>1. First \in Int /\ expr \in FieldChoices
    BY FirstType, SearchBounds DEF IInv, TypeOK
  <2>2. t' \in Minutes /\ Matches(expr, t')
    BY DEF IInv, ResultMatches
  <2>3. t' >= First
    BY DEF IInv, Reached
  <2>4. \A u \in First..t'-1 : u \in Minutes => ~Matches(expr, u)
    BY DEF IInv, NoMatchSkipped
  <2>5. QED
    BY <2>1, <2>2, <2>3, <2>4
<1>2. t' \in Int
  BY <1>1, SearchBounds DEF Minutes
<1>3. t' \in Matched[expr] \cap First..t'
  BY <1>1, <1>2, MatchedSays
<1>4. ASSUME NEW u \in Matched[expr] \cap First..t' PROVE u = t'
  <2>1. u \in Minutes /\ Matches(expr, u) /\ u \in First..t'
    BY <1>1, <1>4, MatchedSays
  <2>2. u \notin First..t'-1
    BY <1>1, <2>1
  <2>3. QED
    <3>1. First \in Int
      BY <1>1
    <3>2. u \in First..t'
      BY <2>1
    <3>3. QED
      BY <1>2, <2>2, <3>1, <3>2, EndOfInterval
<1>5. QED
  BY <1>3, <1>4

\* A search that gives up has looked at MAX_ITERATIONS minutes at least.
LEMMA NoneWanted ==
    ASSUME IInv, GiveUp
    PROVE  Matched[expr] \cap First..First + MaxIterations - 1 = {}
<1>1. /\ status = "search" /\ t \in Int /\ t >= First + MaxIterations
      /\ First \in Int /\ expr \in FieldChoices /\ MaxIterations \in Nat
      /\ \A u \in First..t-1 : u \in Minutes => ~Matches(expr, u)
  <2>1. First \in Int /\ expr \in FieldChoices /\ MaxIterations \in Nat
    <3>1. MaxIterations \in Nat
      BY SearchBounds
    <3>2. from \in Froms /\ expr \in FieldChoices
      BY DEF IInv, TypeOK
    <3>3. First \in 0..Last+1 /\ Last \in Nat
      BY <3>2, FirstType, SearchBounds
    <3>4. QED
      BY <3>1, <3>2, <3>3
  <2>2. t \in Int
    <3>1. Last \in Nat /\ t \in 0..Last+1
      BY SearchBounds DEF IInv, TypeOK
    <3>2. QED
      BY <3>1
  <2>3. status = "search" /\ t >= First + MaxIterations
    BY <2>1, <2>2 DEF IInv, TypeOK, Reached, GiveUp
  <2>4. \A u \in First..t-1 : u \in Minutes => ~Matches(expr, u)
    BY DEF IInv, NoMatchSkipped
  <2>5. QED
    BY <2>1, <2>2, <2>3, <2>4
<1>2. ASSUME NEW u \in Matched[expr], u \in First..First + MaxIterations - 1 PROVE FALSE
  <2>1. u \in Minutes /\ Matches(expr, u)
    BY <1>1, <1>2, MatchedSays
  <2>2. u \in First..t-1
    BY <1>1, <1>2
  <2>3. QED
    BY <1>1, <2>1, <2>2
<1>3. QED
  BY <1>2

\* Every step of the search is a step of the promise or none: it answers, gives up, or
\* goes on.
LEMMA PromiseSteps ==
    ASSUME IInv, IInv', [Next]_vars
    PROVE  [Promise!Next]_Promise!nvars
<1>1. expr' = expr /\ First' = First
  BY QueryStays
<1>2. CASE status' = status
  <2>1. CASE status = "found"
    <3>1. t' = t
      BY <1>2, <2>1 DEF Next, vars, Iterate, AdvanceMonth, AdvanceDay, AdvanceHour,
                        AdvanceMinute, Accept, GiveUp
    <3>2. QED
      BY <1>1, <1>2, <2>1, <3>1 DEF Promise!nvars
  <2>2. CASE status # "found"
    BY <1>1, <1>2, <2>2 DEF Promise!nvars
  <2>3. QED
    BY <2>1, <2>2
<1>3. CASE status' # status
  <2>1. status = "search" /\ (status' = "found" \/ GiveUp)
    BY <1>3 DEF Next, vars, Iterate, AdvanceMonth, AdvanceDay, AdvanceHour,
                AdvanceMinute, Accept, GiveUp
  <2>2. CASE status' = "found"
    <3>1. Matched[expr] \cap First..t' = {t'}
      BY <1>1, <2>1, <2>2, FoundIsNext
    <3>2. Promise!Answer
      BY <1>1, <2>1, <2>2, <3>1 DEF Promise!Answer
    <3>3. QED
      BY <3>2 DEF Promise!Next
  <2>3. CASE GiveUp
    <3>1. status' = "gave up"
      BY <2>3 DEF GiveUp
    <3>2. Matched[expr] \cap First..First + MaxIterations - 1 = {}
      BY <2>3, NoneWanted
    <3>3. Promise!GiveUp
      BY <1>1, <2>1, <3>1, <3>2 DEF Promise!GiveUp
    <3>4. QED
      BY <3>3 DEF Promise!Next
  <2>4. QED
    BY <2>1, <2>2, <2>3
<1>4. QED
  BY <1>2, <1>3

\* For every expression, start and calendar the search implements NextMatch: its answer is
\* the first match after from, and it gives up only with none for MAX_ITERATIONS minutes.
THEOREM SearchKeepsPromise == Spec => FindsNextMatch
<1>1. Promise!Spec <=> Promise!Init /\ [][Promise!Next]_Promise!nvars
  BY DEF Promise!Spec
<1>2. QED
  BY <1>1, InitIInv, NextIInv, PromiseStarts, PromiseSteps, PTL DEF Spec, FindsNextMatch
=============================================================================
