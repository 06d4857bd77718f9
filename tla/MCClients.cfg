CONSTANTS
    pr = pr  o = o  x = x
    a1 = a1  a2 = a2  i1 = i1  i2 = i2  b1 = b1  b2 = b2
    e1 = e1  e2 = e2  w = w  c1 = c1  c2 = c2
    Cards = {pr, o, x}
    Accounts = {a1, a2}
    Invites = {i1, i2}
    Browsers = {b1, b2}
    Emails = {e1, e2}
    NoEmail = NoEmail
    People = {w}
    MaxPassword = 4
    Contacts = {c1, c2}
    Nil = Nil
    Gone = Gone
SPECIFICATION FairSpec
INVARIANTS
    GTypeOK
    VerifiedByItsMailbox
    SessionsFollowTheMailbox
PROPERTIES
    WhatIsOverStaysOver
    BookedOnlyWhatIsOffered
    PendingComesToAnEnd
CHECK_DEADLOCK FALSE
