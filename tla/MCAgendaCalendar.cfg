CONSTANTS
    DayLen = 4
    Step = 2
    LastDay = 1
    Lines = {l1, l2}
    Services = {x1}
    Clients = {k1}
    Sessions = {s1}
    Appts = {a1, a2}
    Refs = {r1}
    RuleIds = {u1, u2}
    RuleRows <- Openings
    ClosureIds = {c1}
    ClosureRows <- Closures
    Durations = {2}
    EveryLine = EveryLine
    Nil = Nil
    Refused = Refused
SPECIFICATION SpecCalendar
SYMMETRY Interchangeable
INVARIANTS
    TypeOK
    PendingInsideRules
    PendingOnOpenLine
PROPERTIES
    OnlySyncMovesOntoHolidays
    KeepsTheLedger
CHECK_DEADLOCK FALSE
