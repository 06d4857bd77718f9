CONSTANTS
    DayLen = 6
    Step = 2
    LastDay = 0
    Lines = {l1, l2}
    Services = {x1}
    Clients = {k1, k2}
    Sessions = {s1, s2}
    Appts = {a1, a2}
    Refs = {r1}
    RuleIds = {u1}
    RuleRows <- WholeDay
    ClosureIds = {c1}
    ClosureRows <- NoClosures
    Durations = {2, 4}
    EveryLine = EveryLine
    Nil = Nil
    Refused = Refused
    Lengths = {2, 4}
    MaxRules = 2
    MaxBusy = 2
    DaysAhead = 1
    Limit = 3
SPECIFICATION SpecBookingOrQuestion
SYMMETRY Interchangeable
INVARIANTS
    EngineMeansWhatItAnswers
    PublicOptionsLoseNothing
    NoDoubleBooking
    OneAppointmentPerReference
    AnswerMatchesRequest
    DurationExplained
CHECK_DEADLOCK FALSE
