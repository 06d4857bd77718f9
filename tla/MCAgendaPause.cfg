CONSTANTS
    DayLen = 3
    Step = 1
    LastDay = 0
    Lines = {l1}
    Services = {x1}
    Clients = {k1}
    Sessions = {s1}
    Appts = {a1, a2}
    Refs = {r1}
    RuleIds = {u1}
    RuleRows <- WholeDay
    ClosureIds = {c1}
    ClosureRows <- NoClosures
    Durations = {1}
    EveryLine = EveryLine
    Nil = Nil
    Refused = Refused
SPECIFICATION SpecPause
INVARIANTS
    PendingClientActive
CHECK_DEADLOCK FALSE
