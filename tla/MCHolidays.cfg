CONSTANTS
    s1 = s1  s2 = s2  q1 = q1  q2 = q2  a1 = a1  a2 = a2
    MaxBusinesses = 2
    Days = {1, 2, 3}
    Years <- TwoYears
    Syncs = {s1, s2}
    Panels = {q1, q2}
    Owners = {o1}
    MaxRuns = 2
    Appts = {a1, a2}
    Nil = Nil
SPECIFICATION Spec
INVARIANTS
    HTypeOK
    LiveRunIsNotInterrupted
    NothingSlipsPast
    CalendarsNeverDeadlock
PROPERTIES
    KeptWhileItStands
    AcknowledgedForGood
SYMMETRY PanelSymmetry
CHECK_DEADLOCK FALSE
