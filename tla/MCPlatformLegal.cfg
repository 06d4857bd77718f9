CONSTANTS
    Requests = {r1}
    Nights = {n1}
    MaxFaults = 0
    Subjects = {u1}
    Address = ip
    Claiming = claim
    SubjectLimit = 2
    AddressLimit = 3
    MaxTries = 1
    Professionals = {pro1, pro2}
    desk = pro1
    Salon = {s1}
    Online = {o1}
    Profiles = {p1, p2}
    Channels = {paper}
    MaxVersion = 2
    MaxPages = 3
    Staff = {u, v}
    Addresses = {e1, e2}
    Panels = {a, b}
    screen = a
    MaxNonce = 1
    Blank = Blank
    Nil = Nil
    NoRow = NoRow
    None = None
SPECIFICATION SpecBusiness
PROPERTIES
    RepeatingIsIdempotent
CHECK_DEADLOCK FALSE
