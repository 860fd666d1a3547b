\* The cron search on a small calendar.
CONSTANTS
    Last = 161
    SecsPerMinute = 2
    MonthOf <- MCMonthOf
    DomOf <- MCDomOf
    DowOf <- MCDowOf
    HourOf <- MCHourOf
    MinuteOf <- MCMinuteOf
    NextMonth <- MCNextMonth
    NextDay <- MCNextDay
    NextHour <- MCNextHour
    HourStart <- MCHourStart
    MaxMinute = 2
    MaxHour = 1
    MaxDom = 3
    MaxMonth = 2
    MaxDow = 2
    MaxIterations = 8
    FieldChoices <- MCFieldChoices
    Froms <- MCFroms
SPECIFICATION Spec
CHECK_DEADLOCK FALSE
INVARIANTS TypeOK NoMatchSkipped GivesUpLate
PROPERTY FindsNextMatch
