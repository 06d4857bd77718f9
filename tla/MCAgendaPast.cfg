CONSTANTS
    DayLen = 6
    Step = 2
    LastDay = 0
    Lines = {l1}
    Services = {x1}
    Clients = {k1}
    Sessions = {s1}
    Appts = {a1, a2}
    Refs = {r1}
    RuleIds = {u1}
    RuleRows <- WholeDay
    ClosureIds = {c1}
    ClosureRows <- NoClosures
    Durations = {2}
    EveryLine = EveryLine
    Nil = Nil
    Refused = Refused
SPECIFICATION SpecPast
PROPERTIES
    NoPastBooking
CHECK_DEADLOCK FALSE
