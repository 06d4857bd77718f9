---------------------------- MODULE HolidaySync_proofs ----------------------------
(***************************************************************************)
(* Proofs about the national holidays, for any number of businesses, days, *)
(* synchronisations and requests: the order of the locks, the guard of a   *)
(* year, and that no booking slips past a synchronisation.                 *)
(***************************************************************************)
EXTENDS HolidaySync, FiniteSetTheorems, TLAPS

-----------------------------------------------------------------------------
(* The invariant, in parts *)

Types ==
    /\ existing \in 1 .. MaxBusinesses /\ applies \in [Businesses -> BOOLEAN]
    /\ appts \in [Appts -> ApptRows \cup {Nil}]
    /\ holidays \in [Days -> {Nil, "legacy", "other", "boe"}]
    /\ reviews \in [Appts -> {Nil, "linked", "unlinked"}]
    /\ runs \in Seq(RunRows) /\ counted \in SUBSET Appts
    /\ guard \in [Years -> Syncs \cup {Nil}]
    /\ syncs \in [Syncs -> SyncRows \cup {Nil}] /\ panels \in [Panels -> PanelRows \cup {Nil}]
    /\ held \in [Procs -> SUBSET Locks] /\ wants \in [Procs -> Seq(Locks)]

\* Locks that conflict are never held by two processes.
Exclusive == \A p, q \in Procs : p # q => \A l \in held[p], m \in held[q] : ~Conflict(l, m)

\* What is left of a list of locks once its first k are held
Rest(ls, k) == [i \in 1 .. Len(ls) - k |-> ls[i + k]]
First(ls, k) == {ls[i] : i \in 1 .. k}
Underway(p, first, ls) == \E k \in 0 .. Len(ls) :
    held[p] = first \cup First(ls, k) /\ wants[p] = Rest(ls, k)

Opening(s) == \/ held[s] = {} /\ wants[s] = SyncLocks
              \/ held[s] = {Boe} /\ wants[s] = <<Share>>

SyncShape(s) ==
    IF syncs[s] = Nil \/ syncs[s].at \in {"downloading", "failing"} THEN held[s] = {} /\ wants[s] = <<>>
    ELSE /\ \/ syncs[s].at = "locking" /\ Opening(s)
            \/ Underway(s, {Boe, Share}, Calendars(existing))
         /\ syncs[s].at = "counted" => wants[s] = <<>>

PanelShape(q) ==
    IF panels[q] = Nil THEN held[q] = {} /\ wants[q] = <<>>
    ELSE /\ \/ panels[q].op = "close" /\ \E n \in Businesses : Underway(q, {}, Calendars(n))
            \/ panels[q].op # "close" /\ Underway(q, {}, CalendarLocks(panels[q].business))
         /\ panels[q].verdict # "none" => wants[q] = <<>>

Shapes == (\A s \in Syncs : SyncShape(s)) /\ (\A q \in Panels : PanelShape(q))

\* A session's year and run are its own.
RunInv ==
    /\ \A s \in Syncs : syncs[s] # Nil => syncs[s].run \in 1 .. Len(runs)
    /\ \A s \in Syncs : MayPublish(s) =>
          guard[syncs[s].year] = s /\ ~runs[syncs[s].run].finished /\ runs[syncs[s].run].year = syncs[s].year
    /\ \A s, t \in Syncs : syncs[s] # Nil /\ syncs[t] # Nil /\ s # t => syncs[s].run # syncs[t].run
    /\ \A s \in Syncs : syncs[s] # Nil => syncs[s].answer \subseteq syncs[s].year

\* Whose rows the requests speak of
KnownRows ==
    /\ \A a \in Appts : appts[a] # Nil => appts[a].business <= existing
    /\ \A q \in Panels : panels[q] # Nil => panels[q].business <= existing
    /\ \A q \in Panels : panels[q] # Nil /\ panels[q].op = "book" =>
          /\ panels[q].day # Nil /\ panels[q].appt # Nil /\ appts[panels[q].appt] = Nil
          /\ \A p \in Panels : panels[p] # Nil /\ p # q => panels[p].appt # panels[q].appt
    /\ \A q \in Panels : panels[q] # Nil /\ panels[q].op \in {"cancel", "keep"} =>
          /\ panels[q].appt # Nil /\ appts[panels[q].appt] # Nil
          /\ panels[q].business = appts[panels[q].appt].business /\ panels[q].day = appts[panels[q].appt].day

\* What a request found still stands when it acts.
StandsFor(r) ==
    /\ r.op = "book" => (applies[r.business] => holidays[r.day] = Nil)
    /\ r.op = "keep" => /\ appts[r.appt].state # "cancelled" /\ applies[r.business]
                        /\ holidays[appts[r.appt].day] # Nil
    /\ r.op = "switch" => GrantsSwitch(r)
VerdictInv == \A q \in Panels : panels[q] # Nil /\ panels[q].verdict = "yes" => StandsFor(panels[q])

\* The impact a synchronisation counted misses nothing until it publishes.
CountInv == \A s \in Syncs : syncs[s] # Nil /\ syncs[s].at = "counted" =>
                Affected(syncs[s].answer) \subseteq syncs[s].count

HInv == Types /\ Exclusive /\ Shapes /\ RunInv /\ KnownRows /\ VerdictInv /\ CountInv /\ NothingSlipsPast

-----------------------------------------------------------------------------
(* Lists of locks *)

LEMMA BusinessNumbers ==
    /\ MaxBusinesses \in Nat
    /\ \A b \in Businesses : b \in Nat /\ 1 <= b /\ b <= MaxBusinesses /\ 1 .. b \subseteq Businesses
BY HolidayAssumption DEF Businesses

LEMMA LockTypes ==
    /\ Boe \in Locks /\ Share \in Locks /\ RowExclusive \in Locks
    /\ \A b \in Businesses : Lines(b) \in Locks /\ BusinessRow(b) \in Locks
BY DEF Locks

LEMMA LocksDiffer ==
    /\ RowExclusive # Share /\ RowExclusive # Boe /\ Share # Boe
    /\ \A b : Lines(b) # Boe /\ Lines(b) # Share /\ BusinessRow(b) # Boe /\ BusinessRow(b) # Share
<1>1. Boe.kind = "boe" /\ Share.kind = "table" /\ RowExclusive.kind = "table"
      /\ Share.mode = "share" /\ RowExclusive.mode = "row exclusive"
  BY DEF Boe, Share, RowExclusive
<1>2. \A b : Lines(b).kind = "lines" /\ BusinessRow(b).kind = "business"
  BY DEF Lines, BusinessRow
<1> QED BY <1>1, <1>2

\* The order in which calendars are locked
Rank(l) == IF l.kind = "boe" THEN 0
           ELSE IF l.kind = "table" THEN 1
           ELSE IF l.kind = "lines" THEN 2 * l.business ELSE 2 * l.business + 1

LEMMA Ranks ==
    /\ Rank(Boe) = 0 /\ Rank(Share) = 1 /\ Rank(RowExclusive) = 1
    /\ \A b \in Businesses : Rank(Lines(b)) = 2 * b /\ Rank(BusinessRow(b)) = 2 * b + 1
BY DEF Rank, Boe, Share, RowExclusive, Lines, BusinessRow

LEMMA RanksBounded == \A l \in Locks : Rank(l) \in 0 .. 2 * MaxBusinesses + 1
<1>1. ASSUME NEW b \in Businesses
      PROVE Rank(Lines(b)) \in 0 .. 2 * MaxBusinesses + 1 /\ Rank(BusinessRow(b)) \in 0 .. 2 * MaxBusinesses + 1
  BY Ranks, BusinessNumbers
<1>2. 0 \in 0 .. 2 * MaxBusinesses + 1 /\ 1 \in 0 .. 2 * MaxBusinesses + 1
  BY BusinessNumbers
<1> QED BY <1>1, <1>2, Ranks DEF Locks

LEMMA ConflictsShareRank == ASSUME NEW l, NEW m, Conflict(l, m) PROVE Rank(l) = Rank(m)
BY DEF Conflict, Rank

LEMMA RowExclusiveConflicts == ASSUME NEW m \in Locks, Conflict(RowExclusive, m) PROVE m = Share
<1>1. RowExclusive.kind = "table" /\ RowExclusive.mode = "row exclusive" /\ Boe.kind = "boe"
      /\ \A b : Lines(b).kind = "lines" /\ BusinessRow(b).kind = "business"
  BY DEF RowExclusive, Boe, Lines, BusinessRow
<1>2. m.kind = "table" /\ m.mode # "row exclusive"
  BY <1>1 DEF Conflict
<1> QED BY <1>1, <1>2 DEF Locks

\* A list that takes the table before any row, and the rows in order
Ordered(ls) ==
    /\ ls \in Seq(Locks)
    /\ Len(ls) > 0 => ls[1] = RowExclusive
    /\ \A i \in 1 .. Len(ls) : ls[i] # Boe /\ ls[i] # Share
    /\ \A i, j \in 1 .. Len(ls) : i < j => Rank(ls[i]) < Rank(ls[j]) \/ ls[j] = RowExclusive

LEMMA CalendarLocksEntries == ASSUME NEW b \in Businesses PROVE
    /\ CalendarLocks(b) \in Seq(Locks) /\ Len(CalendarLocks(b)) = 3
    /\ CalendarLocks(b)[1] = RowExclusive
    /\ CalendarLocks(b)[2] = Lines(b) /\ CalendarLocks(b)[3] = BusinessRow(b)
BY LockTypes DEF CalendarLocks

LEMMA CalendarLocksRanks == ASSUME NEW b \in Businesses, NEW k \in 1 .. 3 PROVE
    /\ CalendarLocks(b)[k] \in Locks /\ CalendarLocks(b)[k] # Boe /\ CalendarLocks(b)[k] # Share
    /\ Rank(CalendarLocks(b)[k]) = IF k = 1 THEN 1 ELSE 2 * b + k - 2
<1>1. CASE k = 1
  BY <1>1, CalendarLocksEntries, LockTypes, Ranks, LocksDiffer
<1>2. CASE k = 2
  BY <1>2, CalendarLocksEntries, LockTypes, Ranks, LocksDiffer, BusinessNumbers
<1>3. CASE k = 3
  BY <1>3, CalendarLocksEntries, LockTypes, Ranks, LocksDiffer, BusinessNumbers
<1> QED BY <1>1, <1>2, <1>3

LEMMA CalendarLocksOrdered == ASSUME NEW b \in Businesses PROVE Ordered(CalendarLocks(b))
<1>1. Len(CalendarLocks(b)) = 3
  BY CalendarLocksEntries
<1>2. \A i, j \in 1 .. 3 : i < j => Rank(CalendarLocks(b)[i]) < Rank(CalendarLocks(b)[j])
  BY CalendarLocksRanks, BusinessNumbers
<1> QED BY <1>1, <1>2, CalendarLocksEntries, CalendarLocksRanks DEF Ordered

LEMMA CalendarsEntries == ASSUME NEW n \in Businesses PROVE
    /\ Calendars(n) \in Seq(Locks) /\ Len(Calendars(n)) = 3 * n
    /\ \A i \in 1 .. 3 * n : \E b \in 1 .. n, k \in 1 .. 3 :
          i = 3 * (b - 1) + k /\ Calendars(n)[i] = CalendarLocks(b)[k]
    /\ \A b \in 1 .. n, k \in 1 .. 3 : Calendars(n)[3 * (b - 1) + k] = CalendarLocks(b)[k]
<1>0. n \in Nat /\ 3 * n \in Nat /\ 1 .. n \subseteq Businesses
  BY BusinessNumbers
<1>1. \A i \in 1 .. 3 * n : Calendars(n)[i] = CalendarLocks((i + 2) \div 3)[1 + ((i + 2) % 3)]
  BY DEF Calendars
<1>2. \A i \in 1 .. 3 * n : (i + 2) \div 3 \in 1 .. n /\ 1 + ((i + 2) % 3) \in 1 .. 3
                            /\ i = 3 * (((i + 2) \div 3) - 1) + (1 + ((i + 2) % 3))
  BY <1>0
<1>3. \A i \in 1 .. 3 * n : CalendarLocks((i + 2) \div 3)[1 + ((i + 2) % 3)] \in Locks
  <2> TAKE i \in 1 .. 3 * n
  <2> DEFINE b == (i + 2) \div 3
             k == 1 + ((i + 2) % 3)
  <2>1. b \in Businesses /\ k \in 1 .. 3
    BY <1>0, <1>2
  <2> HIDE DEF b, k
  <2>2. CalendarLocks(b)[k] \in Locks
    BY <2>1, CalendarLocksRanks
  <2> QED BY <2>2 DEF b, k
<1>4. Calendars(n) \in [1 .. 3 * n -> Locks]
  BY <1>3 DEF Calendars
<1>5. Calendars(n) \in Seq(Locks) /\ Len(Calendars(n)) = 3 * n
  BY <1>0, <1>4
<1>6. ASSUME NEW b \in 1 .. n, NEW k \in 1 .. 3 PROVE Calendars(n)[3 * (b - 1) + k] = CalendarLocks(b)[k]
  <2>1. 3 * (b - 1) + k \in 1 .. 3 * n /\ ((3 * (b - 1) + k) + 2) \div 3 = b /\ 1 + (((3 * (b - 1) + k) + 2) % 3) = k
    BY <1>0
  <2> QED BY <1>1, <2>1
<1> QED BY <1>1, <1>2, <1>5, <1>6

LEMMA CalendarsOrdered == ASSUME NEW n \in Businesses PROVE Ordered(Calendars(n))
<1>0. n \in Nat /\ 1 <= n /\ 1 .. n \subseteq Businesses /\ Len(Calendars(n)) = 3 * n
  BY BusinessNumbers, CalendarsEntries
<1>1. Calendars(n)[1] = RowExclusive
  <2>1. Calendars(n)[3 * (1 - 1) + 1] = CalendarLocks(1)[1]
    BY <1>0, CalendarsEntries
  <2> QED BY <1>0, <2>1, CalendarLocksEntries
<1>2. ASSUME NEW i \in 1 .. 3 * n PROVE Calendars(n)[i] # Boe /\ Calendars(n)[i] # Share
  <2>1. PICK b \in 1 .. n, k \in 1 .. 3 : Calendars(n)[i] = CalendarLocks(b)[k]
    BY CalendarsEntries
  <2> QED BY <1>0, <2>1, CalendarLocksRanks
<1>3. ASSUME NEW i \in 1 .. 3 * n, NEW j \in 1 .. 3 * n, i < j
      PROVE Rank(Calendars(n)[i]) < Rank(Calendars(n)[j]) \/ Calendars(n)[j] = RowExclusive
  <2>1. PICK b \in 1 .. n, k \in 1 .. 3 : i = 3 * (b - 1) + k /\ Calendars(n)[i] = CalendarLocks(b)[k]
    BY CalendarsEntries
  <2>2. PICK d \in 1 .. n, m \in 1 .. 3 : j = 3 * (d - 1) + m /\ Calendars(n)[j] = CalendarLocks(d)[m]
    BY CalendarsEntries
  <2>3. b < d \/ (b = d /\ k < m)
    BY <1>3, <2>1, <2>2, <1>0
  <2>4. CASE m = 1
    BY <2>2, <2>4, <1>0, CalendarLocksEntries
  <2>5. CASE m # 1
    <3>1. Rank(CalendarLocks(b)[k]) = IF k = 1 THEN 1 ELSE 2 * b + k - 2
      BY <1>0, CalendarLocksRanks
    <3>2. Rank(CalendarLocks(d)[m]) = 2 * d + m - 2
      BY <1>0, <2>5, CalendarLocksRanks
    <3>3. b \in Nat /\ d \in Nat /\ 1 <= d /\ 1 <= b
      BY <1>0
    <3> QED BY <2>1, <2>2, <2>3, <2>5, <3>1, <3>2, <3>3
  <2> QED BY <2>4, <2>5
<1> QED BY <1>0, <1>1, <1>2, <1>3, CalendarsEntries DEF Ordered

LEMMA RestStarts == ASSUME NEW ls \in Seq(Locks) PROVE
    Rest(ls, 0) = ls /\ First(ls, 0) = {} /\ Rest(ls, Len(ls)) = <<>>
BY DEF Rest, First

LEMMA RestNext == ASSUME NEW ls \in Seq(Locks), NEW k \in 0 .. Len(ls), Rest(ls, k) # <<>> PROVE
    /\ k + 1 \in 1 .. Len(ls) /\ Head(Rest(ls, k)) = ls[k + 1] /\ Tail(Rest(ls, k)) = Rest(ls, k + 1)
    /\ First(ls, k + 1) = First(ls, k) \cup {ls[k + 1]}
<1>1. k < Len(ls)
  <2>1. k = Len(ls) => Rest(ls, k) = <<>>
    BY RestStarts
  <2> QED BY <2>1
<1>2. Rest(ls, k) \in Seq(Locks) /\ Len(Rest(ls, k)) = Len(ls) - k
  BY DEF Rest
<1>3. Head(Rest(ls, k)) = ls[k + 1]
  BY <1>1, <1>2 DEF Rest
<1>4. Tail(Rest(ls, k)) = Rest(ls, k + 1)
  BY <1>1, <1>2 DEF Rest
<1>5. First(ls, k + 1) = First(ls, k) \cup {ls[k + 1]}
  BY <1>1 DEF First
<1> QED BY <1>1, <1>3, <1>4, <1>5

LEMMA FirstAreLocks == ASSUME NEW ls \in Seq(Locks), NEW k \in 0 .. Len(ls), NEW l \in First(ls, k)
                       PROVE l \in Locks /\ \E i \in 1 .. Len(ls) : i <= k /\ l = ls[i]
BY DEF First

-----------------------------------------------------------------------------
(* The order of the locks *)

\* Every process that has or wants locks follows an ordered list, or is a synchronisation about to.
LEMMA FollowsAList ==
    ASSUME Types, Shapes, NEW p \in Syncs \cup Panels
    PROVE \/ held[p] = {} /\ wants[p] = <<>>
          \/ p \in Syncs /\ Opening(p)
          \/ \E ls \in Seq(Locks), first \in {{}, {Boe, Share}} :
                Ordered(ls) /\ Underway(p, first, ls) /\ (p \in Panels => first = {})
<1>0. existing \in Businesses /\ Syncs \cap Panels = {}
  BY HolidayAssumption DEF Types, Businesses
<1>1. CASE p \in Syncs
  BY <1>0, <1>1, CalendarsOrdered DEF Shapes, SyncShape, Ordered
<1>2. CASE p \in Panels
  <2>1. CASE panels[p] = Nil
    BY <1>2, <2>1 DEF Shapes, PanelShape
  <2>2. CASE panels[p] # Nil
    <3>1. panels[p].business \in Businesses
      BY <1>2, <2>2 DEF Types, PanelRows
    <3>2. CASE panels[p].op = "close"
      BY <1>0, <1>2, <2>2, <3>2, CalendarsOrdered DEF Shapes, PanelShape, Ordered
    <3>3. CASE panels[p].op # "close"
      BY <1>0, <1>2, <2>2, <3>1, <3>3, CalendarLocksOrdered DEF Shapes, PanelShape, Ordered
    <3> QED BY <3>2, <3>3
  <2> QED BY <2>1, <2>2
<1> QED BY <1>1, <1>2

LEMMA ShareNeedsBoe ==
    ASSUME Types, Shapes, NEW p \in Syncs \cup Panels, Share \in held[p]
    PROVE Boe \in held[p] /\ p \in Syncs
<1>1. CASE held[p] = {} \/ (p \in Syncs /\ Opening(p))
  BY <1>1, LocksDiffer DEF Opening
<1>2. ASSUME NEW ls \in Seq(Locks), NEW first \in {{}, {Boe, Share}},
             Ordered(ls), Underway(p, first, ls), p \in Panels => first = {}
      PROVE Boe \in held[p] /\ p \in Syncs
  <2>1. PICK k \in 0 .. Len(ls) : held[p] = first \cup First(ls, k)
    BY <1>2 DEF Underway
  <2>2. Share \notin First(ls, k)
    BY <1>2, FirstAreLocks DEF Ordered
  <2> QED BY <1>2, <2>1, <2>2
<1> QED BY <1>1, <1>2, FollowsAList

\* A process asks for what comes after all it has; only the table it may ask for again.
LEMMA AsksInOrder ==
    ASSUME Types, Shapes, NEW p \in Syncs \cup Panels, wants[p] # <<>>
    PROVE \/ \A l \in held[p] : Rank(l) < Rank(Head(wants[p]))
          \/ /\ Head(wants[p]) = RowExclusive
             /\ RowExclusive \in held[p] \/ (Boe \in held[p] /\ Share \in held[p])
<1>1. CASE Opening(p)
  <2>1. CASE held[p] = {}
    BY <2>1
  <2>2. CASE held[p] = {Boe} /\ wants[p] = <<Share>>
    BY <2>2, Ranks
  <2> QED BY <1>1, <2>1, <2>2 DEF Opening
<1>2. ASSUME NEW ls \in Seq(Locks), NEW first \in {{}, {Boe, Share}}, Ordered(ls), Underway(p, first, ls)
      PROVE \/ \A l \in held[p] : Rank(l) < Rank(Head(wants[p]))
            \/ /\ Head(wants[p]) = RowExclusive
               /\ RowExclusive \in held[p] \/ (Boe \in held[p] /\ Share \in held[p])
  <2>1. PICK k \in 0 .. Len(ls) : held[p] = first \cup First(ls, k) /\ wants[p] = Rest(ls, k)
    BY <1>2 DEF Underway
  <2>2. k + 1 \in 1 .. Len(ls) /\ Head(wants[p]) = ls[k + 1]
    BY <2>1, RestNext
  <2>3. CASE k = 0
    BY <1>2, <2>1, <2>2, <2>3, RestStarts DEF Ordered
  <2>4. CASE k # 0
    <3>1. RowExclusive \in held[p]
      BY <1>2, <2>1, <2>4 DEF Ordered, First
    <3>2. \A l \in First(ls, k) : Rank(l) < Rank(ls[k + 1]) \/ ls[k + 1] = RowExclusive
      BY <1>2, <2>2, FirstAreLocks DEF Ordered
    <3>3. 1 < Rank(ls[k + 1]) \/ ls[k + 1] = RowExclusive
      BY <1>2, <2>2, <2>4, Ranks DEF Ordered
    <3>4. first = {} \/ (Boe \in held[p] /\ Share \in held[p] /\ Rank(Boe) = 0 /\ Rank(Share) = 1)
      BY <2>1, Ranks
    <3>5. \A l \in held[p] : l \in First(ls, k) \/ l = Boe \/ l = Share
      BY <2>1
    <3>6. CASE ls[k + 1] = RowExclusive
      BY <2>2, <3>1, <3>6
    <3>7. CASE ls[k + 1] # RowExclusive
      <4>1. \A l \in held[p] : Rank(l) < Rank(ls[k + 1])
        <5>1. Rank(ls[k + 1]) \in Nat
          BY <1>2, <2>2, RanksBounded, BusinessNumbers
        <5> QED BY <3>2, <3>3, <3>5, <3>7, <5>1, Ranks
      <4> QED BY <2>2, <4>1
    <3> QED BY <3>6, <3>7
  <2> QED BY <2>3, <2>4
<1> QED BY <1>1, <1>2, FollowsAList

\* A process of a circle waits for one that waits for more.
LEMMA CirclesClimb ==
    ASSUME Types, Exclusive, Shapes, NEW p \in Syncs \cup Panels, NEW q \in Syncs \cup Panels,
           NEW r \in Syncs \cup Panels, Blocks(q, p), Blocks(r, q)
    PROVE Rank(Head(wants[p])) < Rank(Head(wants[q]))
<1>1. PICK l \in held[q] : Conflict(Head(wants[p]), l)
  BY DEF Blocks
<1>2. PICK m \in held[r] : Conflict(Head(wants[q]), m)
  BY DEF Blocks
<1>3. wants[q] # <<>> /\ q # r /\ Rank(Head(wants[p])) = Rank(l) /\ q \in Procs /\ r \in Procs
  BY <1>1, ConflictsShareRank DEF Blocks, Procs
<1>4. m \in Locks
  BY <1>3 DEF Types
<1>5. ASSUME Head(wants[q]) = RowExclusive PROVE m = Share
  <2>1. Conflict(RowExclusive, m)
    BY <1>2, <1>5
  <2> QED BY <1>4, <2>1, RowExclusiveConflicts
<1>6. ASSUME Head(wants[q]) = RowExclusive PROVE RowExclusive \notin held[q]
  <2>1. Conflict(RowExclusive, m)
    BY <1>2, <1>6
  <2> QED BY <1>3, <2>1 DEF Exclusive
<1>7. ASSUME Head(wants[q]) = RowExclusive PROVE Boe \notin held[q]
  <2>1. Boe \in held[r]
    BY <1>5, <1>7, ShareNeedsBoe
  <2>2. Conflict(Boe, Boe)
    BY DEF Conflict, Boe
  <2> QED BY <1>3, <2>1, <2>2 DEF Exclusive
<1>8. \A h \in held[q] : Rank(h) < Rank(Head(wants[q]))
  BY <1>3, <1>6, <1>7, AsksInOrder
<1> QED BY <1>1, <1>3, <1>8

LEMMA Greatest ==
    ASSUME NEW n \in Nat, NEW T \in SUBSET (0 .. n), T # {}
    PROVE \E m \in T : \A k \in T : k <= m
<1> DEFINE S == 0 .. n
           After(k) == {i \in S : k < i}
           Family == {After(k) : k \in T}
           R == StrictSubsetOrdering(S)
<1>1. IsFiniteSet(S)
  BY FS_Interval
<1>2. IsWellFoundedOn(R, FiniteSubsetsOf(S)) /\ FiniteSubsetsOf(S) = SUBSET S
  BY <1>1, FS_StrictSubsetOrderingWellFounded, FS_FiniteSubsetsOfFinite
<1>3. Family \subseteq FiniteSubsetsOf(S) /\ Family # {}
  <2>1. Family \subseteq SUBSET S /\ Family # {}
    OBVIOUS
  <2> QED BY <1>2, <2>1
<1>4. \E x \in Family : \A y \in Family : <<y, x>> \notin R
  <2> HIDE DEF R, Family
  <2> QED BY <1>2, <1>3, WFMin
<1>5. PICK m \in T : \A k \in T : <<After(k), After(m)>> \notin R
  BY <1>4
<1>6. ASSUME NEW k \in T, m < k PROVE FALSE
  <2>1. After(k) \subseteq After(m) /\ After(k) # After(m)
    BY <1>6
  <2>2. <<After(k), After(m)>> \in R
    BY <2>1 DEF StrictSubsetOrdering
  <2> QED BY <1>5, <2>2
<1> QED BY <1>6

(***************************************************************************)
(* Synchronisations and requests never wait in a circle: whoever blocks    *)
(* one of it asks for a lock that comes later, and there is a last lock.   *)
(***************************************************************************)
LEMMA NoCircle == ASSUME Types, Exclusive, Shapes PROVE CalendarsNeverDeadlock
<1> SUFFICES ASSUME NEW qs \in SUBSET (Syncs \cup Panels), qs # {}, Circle(qs) PROVE FALSE
  BY DEF CalendarsNeverDeadlock, Circles
<1> DEFINE Asked == {Rank(Head(wants[p])) : p \in qs}
           last == 2 * MaxBusinesses + 1
<1>1. \A p \in qs : p \in Syncs \cup Panels /\ p \in Procs /\ \E q \in qs : Blocks(q, p)
  BY DEF Circle, Procs
<1>2. \A p \in qs : Head(wants[p]) \in Locks
  BY <1>1 DEF Types, Blocks
<1>3. last \in Nat /\ Asked \in SUBSET (0 .. last) /\ Asked # {}
  BY <1>2, RanksBounded, BusinessNumbers
<1>4. PICK m \in Asked : \A k \in Asked : k <= m
  BY <1>3, Greatest
<1>5. PICK p \in qs : m = Rank(Head(wants[p]))
  OBVIOUS
<1>6. PICK q \in qs : Blocks(q, p)
  BY <1>1
<1>7. PICK r \in qs : Blocks(r, q)
  BY <1>1
<1>8. Rank(Head(wants[p])) < Rank(Head(wants[q]))
  BY <1>1, <1>6, <1>7, CirclesClimb
<1>9. Rank(Head(wants[q])) \in Asked
  OBVIOUS
<1>10. Rank(Head(wants[q])) <= m
  BY <1>4, <1>9
<1>11. m \in Nat /\ Rank(Head(wants[q])) \in Nat
  BY <1>3, <1>9, <1>1, <1>2, <1>5, RanksBounded, BusinessNumbers
<1> QED BY <1>5, <1>8, <1>10, <1>11

-----------------------------------------------------------------------------
(* Types *)

LEMMA NilIsNoRow ==
    /\ \A s \in Syncs : Types /\ syncs[s] # Nil => syncs[s] \in SyncRows
    /\ \A q \in Panels : Types /\ panels[q] # Nil => panels[q] \in PanelRows
    /\ \A a \in Appts : Types /\ appts[a] # Nil => appts[a] \in ApptRows
BY DEF Types

LEMMA InitTypes == Init => Types
<1> SUFFICES ASSUME Init PROVE Types
  OBVIOUS
<1>1. holidays \in [Days -> {Nil, "legacy", "other", "boe"}]
  BY DEF Init
<1>2. runs \in Seq(RunRows) /\ counted \in SUBSET Appts
  BY DEF Init
<1>3. held \in [Procs -> SUBSET Locks] /\ wants \in [Procs -> Seq(Locks)]
  BY DEF Init
<1> QED BY <1>1, <1>2, <1>3 DEF Init, Types

LEMMA RunsMeans == ASSUME Types PROVE
    Len(runs) \in Nat /\ DOMAIN runs = 1 .. Len(runs) /\ \A i \in 1 .. Len(runs) : runs[i] \in RunRows
BY DEF Types

LEMMA RunReplaced == ASSUME Types, NEW i \in 1 .. Len(runs), NEW r \in RunRows PROVE
    /\ [runs EXCEPT ![i] = r] \in Seq(RunRows) /\ Len([runs EXCEPT ![i] = r]) = Len(runs)
    /\ \A j \in 1 .. Len(runs) : [runs EXCEPT ![i] = r][j] = IF j = i THEN r ELSE runs[j]
BY DEF Types

\* The runs of a year that somebody interrupted are marked.
Older(y) == [i \in DOMAIN runs |-> IF Interrupted(runs[i], y)
                                   THEN [runs[i] EXCEPT !.finished = TRUE, !.interrupted = TRUE] ELSE runs[i]]

LEMMA OlderMeans == ASSUME Types, NEW y PROVE Older(y) \in Seq(RunRows) /\ Len(Older(y)) = Len(runs)
<1> DEFINE f(i) == IF Interrupted(runs[i], y) THEN [runs[i] EXCEPT !.finished = TRUE, !.interrupted = TRUE] ELSE runs[i]
<1>1. \A r \in RunRows : [r EXCEPT !.finished = TRUE, !.interrupted = TRUE] \in RunRows
  BY DEF RunRows
<1>2. \A i \in 1 .. Len(runs) : f(i) \in RunRows
  BY <1>1, RunsMeans
<1> HIDE DEF f
<1>3. [i \in DOMAIN runs |-> f(i)] \in Seq(RunRows) /\ Len([i \in DOMAIN runs |-> f(i)]) = Len(runs)
  BY <1>2, RunsMeans
<1> QED BY <1>3 DEF f, Older

LEMMA StartTypes == ASSUME Types, NEW s \in Syncs, Start(s) PROVE Types'
<1> DEFINE run(y) == [year |-> y, status |-> "failed", finished |-> FALSE, interrupted |-> FALSE]
<1>1. PICK y \in Years :
        /\ Len(runs) < MaxRuns /\ guard' = [guard EXCEPT ![y] = s]
        /\ runs' = Append(Older(y), run(y))
        /\ syncs' = [syncs EXCEPT ![s] = [at |-> "downloading", year |-> y, run |-> Len(runs) + 1, answer |-> {}, count |-> {}]]
  BY DEF Start, Older
<1>2. Older(y) \in Seq(RunRows)
  BY OlderMeans
<1>3. run(y) \in RunRows
  BY DEF RunRows
<1>4. runs' \in Seq(RunRows)
  <2> HIDE DEF run
  <2> QED BY <1>1, <1>2, <1>3
<1>5. Len(runs) + 1 \in 1 .. MaxRuns
  BY <1>1, RunsMeans, HolidayAssumption
<1>6. [at |-> "downloading", year |-> y, run |-> Len(runs) + 1, answer |-> {}, count |-> {}] \in SyncRows
  BY <1>5 DEF SyncRows
<1>7. syncs' \in [Syncs -> SyncRows \cup {Nil}] /\ guard' \in [Years -> Syncs \cup {Nil}]
  BY <1>1, <1>6 DEF Types
<1> QED BY <1>4, <1>7 DEF Start, Types, agenda, locks

LEMMA SaveFailureTypes ==
    ASSUME Types, NEW s \in Syncs, syncs[s] # Nil, syncs[s].run \in 1 .. Len(runs), SaveFailure(s)
    PROVE Types'
<1>1. \A r \in RunRows : [r EXCEPT !.status = "failed", !.finished = TRUE, !.interrupted = FALSE] \in RunRows
  BY DEF RunRows
<1>2. runs' \in Seq(RunRows)
  <2> DEFINE r == [runs[syncs[s].run] EXCEPT !.status = "failed", !.finished = TRUE, !.interrupted = FALSE]
  <2>1. runs[syncs[s].run] \in RunRows
    BY RunsMeans
  <2>2. r \in RunRows
    BY <1>1, <2>1
  <2>3. runs' = [runs EXCEPT ![syncs[s].run] = r]
    BY DEF SaveFailure
  <2> HIDE DEF r
  <2> QED BY <2>2, <2>3, RunReplaced
<1>3. guard' \in [Years -> Syncs \cup {Nil}]
  BY DEF SaveFailure, WithoutSession, Types
<1>4. syncs' \in [Syncs -> SyncRows \cup {Nil}]
  BY DEF SaveFailure, Types
<1> QED BY <1>2, <1>3, <1>4 DEF SaveFailure, Types, agenda, locks

LEMMA ReleasedTypes == ASSUME Types, NEW p \in Procs, Released(p)
                       PROVE held' \in [Procs -> SUBSET Locks] /\ wants' \in [Procs -> Seq(Locks)]
BY DEF Types, Released

LEMMA PublishTypes ==
    ASSUME Types, NEW s \in Syncs, syncs[s] # Nil, syncs[s].run \in 1 .. Len(runs), Commit(s) \/ CommitUnheard(s)
    PROVE Types'
<1>0. Publish(s) /\ s \in Procs /\ syncs[s] \in SyncRows
  BY NilIsNoRow DEF Commit, CommitUnheard, Procs
<1>1. \A r \in RunRows : [r EXCEPT !.status = "success", !.finished = TRUE] \in RunRows
  BY DEF RunRows
<1>2. runs' \in Seq(RunRows)
  <2> DEFINE r == [runs[syncs[s].run] EXCEPT !.status = "success", !.finished = TRUE]
  <2>1. runs[syncs[s].run] \in RunRows
    BY RunsMeans
  <2>2. r \in RunRows
    BY <1>1, <2>1
  <2>3. runs' = [runs EXCEPT ![syncs[s].run] = r]
    BY <1>0 DEF Publish
  <2> HIDE DEF r
  <2> QED BY <2>2, <2>3, RunReplaced
<1>3. guard' \in [Years -> Syncs \cup {Nil}]
  BY <1>0 DEF Publish, WithoutSession, Types
<1>4. syncs' \in [Syncs -> SyncRows \cup {Nil}]
  <2>1. [syncs[s] EXCEPT !.at = "failing"] \in SyncRows
    BY <1>0 DEF SyncRows
  <2> QED BY <1>0, <2>1 DEF Commit, CommitUnheard, Types
<1>5. holidays' \in [Days -> {Nil, "legacy", "other", "boe"}]
  BY <1>0 DEF Publish, Reconciled, Types
<1>6. reviews' \in [Appts -> {Nil, "linked", "unlinked"}]
  BY <1>0 DEF Publish, Types
<1>7. counted' \in SUBSET Appts
  BY <1>0 DEF Publish, Types, SyncRows
<1>8. held' \in [Procs -> SUBSET Locks] /\ wants' \in [Procs -> Seq(Locks)]
  BY <1>0, ReleasedTypes DEF Publish
<1> QED BY <1>0, <1>2, <1>3, <1>4, <1>5, <1>6, <1>7, <1>8 DEF Publish, Types, agenda

\* A synchronisation that stops without publishing
Stops(s) == FetchFails(s) \/ Aborts(s) \/ LosesConnection(s) \/ Dies(s)

LEMMA StopsMeans == ASSUME Types, NEW s \in Syncs, syncs[s] # Nil, Stops(s) PROVE
    /\ syncs' \in {[syncs EXCEPT ![s] = Nil], [syncs EXCEPT ![s].at = "failing"]}
    /\ guard' = guard \/ guard' = WithoutSession(s)
    /\ Released(s) /\ UNCHANGED <<holidays, reviews, runs, counted, existing, applies, appts, panels>>
BY DEF Stops, FetchFails, Aborts, LosesConnection, Dies, Fails, catalogue, agenda

LEMMA StopsTypes == ASSUME Types, NEW s \in Syncs, syncs[s] # Nil, Stops(s) PROVE Types'
<1>0. s \in Procs /\ syncs[s] \in SyncRows
  BY NilIsNoRow DEF Procs
<1>1. guard' \in [Years -> Syncs \cup {Nil}]
  BY StopsMeans DEF WithoutSession, Types
<1>2. syncs' \in [Syncs -> SyncRows \cup {Nil}]
  <2>1. [syncs[s] EXCEPT !.at = "failing"] \in SyncRows
    BY <1>0 DEF SyncRows
  <2> QED BY <1>0, <2>1, StopsMeans DEF Types
<1>3. held' \in [Procs -> SUBSET Locks] /\ wants' \in [Procs -> Seq(Locks)]
  BY <1>0, ReleasedTypes, StopsMeans
<1> QED BY <1>1, <1>2, <1>3, StopsMeans DEF Types

LEMMA WorksTypes == ASSUME Types, NEW s \in Syncs, syncs[s] # Nil, Fetch(s) \/ Count(s) PROVE Types'
<1>0. s \in Procs /\ syncs[s] \in SyncRows
  BY NilIsNoRow DEF Procs
<1>1. CASE Fetch(s)
  <2>1. PICK answer \in SUBSET syncs[s].year \ {{}} :
          syncs' = [syncs EXCEPT ![s].at = "locking", ![s].answer = answer]
          /\ wants' = [wants EXCEPT ![s] = SyncLocks]
    BY <1>1 DEF Fetch
  <2>2. answer \in SUBSET Days
    BY <1>0, HolidayAssumption DEF SyncRows
  <2>3. [syncs[s] EXCEPT !.at = "locking", !.answer = answer] \in SyncRows
    BY <1>0, <2>2 DEF SyncRows
  <2>4. syncs' \in [Syncs -> SyncRows \cup {Nil}]
    BY <2>1, <2>3 DEF Types
  <2>5. SyncLocks \in Seq(Locks)
    BY LockTypes DEF SyncLocks
  <2>6. wants' \in [Procs -> Seq(Locks)]
    BY <1>0, <2>1, <2>5 DEF Types
  <2> QED BY <1>1, <2>4, <2>6 DEF Fetch, Types, catalogue, agenda
<1>2. CASE Count(s)
  <2>1. [syncs[s] EXCEPT !.at = "counted", !.count = Affected(syncs[s].answer)] \in SyncRows
    BY <1>0 DEF SyncRows, Affected
  <2>2. syncs' \in [Syncs -> SyncRows \cup {Nil}]
    BY <1>2, <2>1 DEF Types, Count
  <2> QED BY <1>2, <2>2 DEF Count, Types, catalogue, agenda, locks
<1> QED BY <1>1, <1>2

\* What a request asks for when it arrives
Arrives(q, op, b, d, a, ls) ==
    /\ Asks(q, op, b, d, a, ls)
    /\ b \in Businesses /\ b <= existing /\ d \in Days \cup {Nil} /\ a \in Appts \cup {Nil}
    /\ \/ op = "close" /\ ls = Calendars(existing)
       \/ op \in {"book", "cancel", "keep", "switch"} /\ ls = CalendarLocks(b)
    /\ op = "book" => d # Nil /\ a # Nil /\ NewKey(a)
    /\ op \in {"switch", "close"} => a = Nil
    /\ op \in {"cancel", "keep"} => a # Nil /\ appts[a] # Nil /\ b = appts[a].business /\ d = appts[a].day

PanelAsks(q) == AskBook(q) \/ AskAbout(q) \/ AskSwitch(q) \/ AskClose(q)

LEMMA ArrivesMeans ==
    ASSUME Types, KnownRows, NEW q \in Panels, PanelAsks(q)
    PROVE \E op, b, d, a, ls : Arrives(q, op, b, d, a, ls)
<1>0. /\ existing \in Businesses /\ 1 .. existing \subseteq Businesses /\ 1 \in Businesses /\ 1 <= existing
      /\ \A b \in 1 .. existing : b <= existing
  BY HolidayAssumption DEF Types, Businesses
<1>1. CASE AskBook(q)
  <2>1. PICK b \in 1 .. existing, d \in Days, a \in Appts : NewKey(a) /\ Asks(q, "book", b, d, a, CalendarLocks(b))
    BY <1>1 DEF AskBook
  <2>2. Arrives(q, "book", b, d, a, CalendarLocks(b))
    BY <1>0, <2>1, MarkAssumption DEF Arrives
  <2> QED BY <2>2
<1>2. CASE AskAbout(q)
  <2>1. PICK a \in Appts, op \in {"cancel", "keep"} :
          appts[a] # Nil /\ Asks(q, op, appts[a].business, appts[a].day, a, CalendarLocks(appts[a].business))
    BY <1>2 DEF AskAbout
  <2>2. appts[a].business \in Businesses /\ appts[a].day \in Days /\ appts[a].business <= existing
    BY <2>1, NilIsNoRow DEF ApptRows, KnownRows
  <2>3. Arrives(q, op, appts[a].business, appts[a].day, a, CalendarLocks(appts[a].business))
    BY <2>1, <2>2, MarkAssumption DEF Arrives
  <2> QED BY <2>3
<1>3. CASE AskSwitch(q)
  <2>1. PICK b \in 1 .. existing : Asks(q, "switch", b, Nil, Nil, CalendarLocks(b))
    BY <1>3 DEF AskSwitch
  <2>2. Arrives(q, "switch", b, Nil, Nil, CalendarLocks(b))
    BY <1>0, <2>1 DEF Arrives
  <2> QED BY <2>2
<1>4. CASE AskClose(q)
  <2>1. Arrives(q, "close", 1, Nil, Nil, Calendars(existing))
    BY <1>0, <1>4 DEF Arrives, AskClose
  <2> QED BY <2>1
<1> QED BY <1>1, <1>2, <1>3, <1>4 DEF PanelAsks

LEMMA ListsAreLocks == ASSUME Types, NEW q, NEW op, NEW b, NEW d, NEW a, NEW ls, Arrives(q, op, b, d, a, ls)
                       PROVE ls \in Seq(Locks)
<1>1. existing \in Businesses
  BY DEF Types, Businesses
<1> QED BY <1>1, CalendarsOrdered, CalendarLocksOrdered DEF Arrives, Ordered

LEMMA AsksTypes == ASSUME Types, KnownRows, NEW q \in Panels, PanelAsks(q) PROVE Types'
<1>1. PICK op, b, d, a, ls : Arrives(q, op, b, d, a, ls)
  BY ArrivesMeans
<1>2. [op |-> op, business |-> b, day |-> d, appt |-> a, verdict |-> "none"] \in PanelRows
  BY <1>1 DEF PanelRows, Arrives
<1>3. panels' \in [Panels -> PanelRows \cup {Nil}]
  BY <1>1, <1>2 DEF Types, Asks, Arrives
<1>4. wants' \in [Procs -> Seq(Locks)]
  BY <1>1, ListsAreLocks DEF Types, Asks, Arrives, Procs
<1> QED BY <1>1, <1>3, <1>4 DEF Types, Arrives, Asks, catalogue, agenda

LEMMA DecideTypes == ASSUME Types, NEW q \in Panels, Decide(q) PROVE Types'
<1>1. panels[q] \in PanelRows
  BY NilIsNoRow DEF Decide
<1>2. \A v \in {"yes", "no"} : [panels[q] EXCEPT !.verdict = v] \in PanelRows
  BY <1>1 DEF PanelRows
<1>3. panels' \in [Panels -> PanelRows \cup {Nil}]
  BY <1>2 DEF Types, Decide
<1> QED BY <1>3 DEF Types, Decide, catalogue, agenda, locks

LEMMA EffectTypes ==
    ASSUME Types, KnownRows, NEW q \in Panels, panels[q] # Nil, Effect(panels[q])
    PROVE /\ appts' \in [Appts -> ApptRows \cup {Nil}] /\ applies' \in [Businesses -> BOOLEAN]
          /\ reviews' \in [Appts -> {Nil, "linked", "unlinked"}]
<1> DEFINE r == panels[q]
<1>0. r \in PanelRows
  BY NilIsNoRow
<1>1. applies' \in [Businesses -> BOOLEAN]
  BY DEF Effect, Types
<1>2. reviews' \in [Appts -> {Nil, "linked", "unlinked"}]
  BY DEF Effect, Types
<1>3. appts' \in [Appts -> ApptRows \cup {Nil}]
  <2>1. CASE r.op = "book"
    <3>1. r.business \in Businesses /\ r.day \in Days /\ r.appt \in Appts
      BY <1>0, <2>1 DEF KnownRows, PanelRows
    <3>2. [business |-> r.business, day |-> r.day, state |-> "confirmed"] \in ApptRows
      BY <3>1 DEF ApptRows
    <3>3. appts' = [appts EXCEPT ![r.appt] = [business |-> r.business, day |-> r.day, state |-> "confirmed"]]
      BY <2>1 DEF Effect
    <3> QED BY <3>2, <3>3 DEF Types
  <2>2. CASE r.op = "cancel"
    <3>1. r.appt \in Appts /\ appts[r.appt] \in ApptRows
      BY <1>0, <2>2, NilIsNoRow DEF KnownRows, PanelRows
    <3>2. [appts[r.appt] EXCEPT !.state = "cancelled"] \in ApptRows
      BY <3>1 DEF ApptRows
    <3>3. appts' = [appts EXCEPT ![r.appt].state = "cancelled"]
      BY <2>2 DEF Effect
    <3> QED BY <3>2, <3>3 DEF Types
  <2>3. CASE r.op = "close"
    <3>1. \A x \in ApptRows : [x EXCEPT !.state = "closed"] \in ApptRows
      BY DEF ApptRows
    <3>2. appts' = [a \in Appts |-> IF appts[a] # Nil /\ appts[a].state = "started"
                                    THEN [appts[a] EXCEPT !.state = "closed"] ELSE appts[a]]
      BY <2>3 DEF Effect
    <3> QED BY <3>1, <3>2, NilIsNoRow DEF Types
  <2>4. CASE r.op \notin {"book", "cancel", "close"}
    BY <2>4 DEF Effect, Types
  <2> QED BY <2>1, <2>2, <2>3, <2>4
<1> QED BY <1>1, <1>2, <1>3

LEMMA AnswerTypes == ASSUME Types, KnownRows, NEW q \in Panels, Answer(q) PROVE Types'
<1>1. /\ appts' \in [Appts -> ApptRows \cup {Nil}] /\ applies' \in [Businesses -> BOOLEAN]
      /\ reviews' \in [Appts -> {Nil, "linked", "unlinked"}]
  BY EffectTypes DEF Answer, Types
<1>2. held' \in [Procs -> SUBSET Locks] /\ wants' \in [Procs -> Seq(Locks)]
  BY ReleasedTypes DEF Answer, Procs
<1>3. panels' \in [Panels -> PanelRows \cup {Nil}]
  BY DEF Answer, Types
<1> QED BY <1>1, <1>2, <1>3 DEF Answer, Types

LEMMA OwnerTypes == ASSUME Types, NEW o \in Owners, OwnerAsks(o) \/ OwnerDone(o) PROVE Types'
<1>0. o \in Procs
  BY DEF Procs
<1>1. CASE OwnerAsks(o)
  <2>1. PICK b \in 1 .. existing : wants' = [wants EXCEPT ![o] = <<BusinessRow(b), RowExclusive>>]
    BY <1>1 DEF OwnerAsks
  <2>2. b \in Businesses
    BY BusinessNumbers DEF Types, Businesses
  <2>3. <<BusinessRow(b), RowExclusive>> \in Seq(Locks)
    BY <2>2, LockTypes
  <2>4. wants' \in [Procs -> Seq(Locks)]
    BY <2>1, <2>3 DEF Types
  <2> QED BY <1>1, <2>4 DEF OwnerAsks, Types, catalogue, agenda
<1>2. CASE OwnerDone(o)
  <2>1. held' \in [Procs -> SUBSET Locks] /\ wants' \in [Procs -> Seq(Locks)]
    BY <1>0, <1>2, ReleasedTypes DEF OwnerDone
  <2> QED BY <1>2, <2>1 DEF OwnerDone, Types, catalogue, agenda
<1> QED BY <1>1, <1>2

LEMMA TakeTypes == ASSUME Types, NEW p \in Procs, Take(p) PROVE Types'
<1>1. wants[p] \in Seq(Locks) /\ wants[p] # <<>> /\ existing \in Businesses
  BY DEF Types, Take, Businesses
<1>2. Head(wants[p]) \in Locks /\ Tail(wants[p]) \in Seq(Locks)
  BY <1>1
<1>3. Tail(wants[p]) \o Calendars(existing) \in Seq(Locks)
  BY <1>1, <1>2, CalendarsEntries
<1>4. wants' \in [Procs -> Seq(Locks)]
  BY <1>2, <1>3 DEF Types, Take
<1>5. held' \in [Procs -> SUBSET Locks]
  BY <1>2 DEF Types, Take
<1> QED BY <1>4, <1>5 DEF Types, Take, catalogue, agenda

LEMMA OtherTypes ==
    ASSUME Types, CreateBusiness \/ Begins \/ \E p \in Procs : Victim(p)
    PROVE Types'
<1>1. CASE CreateBusiness
  <2>1. existing' \in 1 .. MaxBusinesses
    BY <1>1, BusinessNumbers DEF CreateBusiness, Types
  <2> QED BY <1>1, <2>1 DEF CreateBusiness, Types, catalogue, locks
<1>2. CASE Begins
  <2>1. PICK a \in Appts : Confirmed(a) /\ appts' = [appts EXCEPT ![a].state = "started"]
    BY <1>2 DEF Begins
  <2>2. appts[a] \in ApptRows
    BY <2>1, NilIsNoRow DEF Confirmed
  <2>3. [appts[a] EXCEPT !.state = "started"] \in ApptRows
    BY <2>2 DEF ApptRows
  <2>4. appts' \in [Appts -> ApptRows \cup {Nil}]
    BY <2>1, <2>3 DEF Types
  <2> QED BY <1>2, <2>4 DEF Begins, Types, catalogue, locks
<1>3. CASE \E p \in Procs : Victim(p)
  <2>1. PICK p \in Procs : Victim(p)
    BY <1>3
  <2>2. held' \in [Procs -> SUBSET Locks] /\ wants' \in [Procs -> Seq(Locks)]
    BY <2>1, ReleasedTypes DEF Victim
  <2>3. panels' \in [Panels -> PanelRows \cup {Nil}]
    BY <2>1 DEF Victim, Types
  <2> QED BY <2>1, <2>2, <2>3 DEF Victim, Types, catalogue, agenda
<1> QED BY <1>1, <1>2, <1>3

-----------------------------------------------------------------------------
(* Steps *)

Publishes(s) == Commit(s) \/ CommitUnheard(s)

Step == \/ \E s \in Syncs : \/ Start(s)
                            \/ syncs[s] # Nil /\ (Fetch(s) \/ Count(s) \/ Publishes(s) \/ Stops(s) \/ SaveFailure(s))
        \/ \E q \in Panels : PanelAsks(q) \/ Decide(q) \/ Answer(q)
        \/ \E o \in Owners : OwnerAsks(o) \/ OwnerDone(o)
        \/ \E p \in Procs : Take(p) \/ Victim(p)
        \/ CreateBusiness \/ Begins
        \/ UNCHANGED vars

LEMMA NextIsStep == [Next]_vars => Step
BY DEF Next, SyncStep, Proceeds, Breaks, Ends, PanelStep, Publishes, Stops, PanelAsks, Step

\* Locks change only as they are taken, asked for or released.
LEMMA HeldSteps == ASSUME Step PROVE UNCHANGED held \/ \E p \in Procs : Take(p) \/ Released(p)
<1>1. ASSUME NEW s \in Syncs, Publishes(s) \/ Stops(s) PROVE Released(s) /\ s \in Procs
  BY <1>1 DEF Publishes, Commit, CommitUnheard, Publish, Stops, FetchFails, Aborts, LosesConnection, Dies, Fails, Procs
<1>2. ASSUME NEW s \in Syncs, Start(s) \/ Fetch(s) \/ Count(s) \/ SaveFailure(s) PROVE UNCHANGED held
  BY <1>2 DEF Start, Fetch, Count, SaveFailure, locks
<1>3. ASSUME NEW q \in Panels, PanelAsks(q) \/ Decide(q) PROVE UNCHANGED held
  BY <1>3 DEF PanelAsks, AskBook, AskAbout, AskSwitch, AskClose, Asks, Decide, locks
<1>4. ASSUME NEW q \in Panels, Answer(q) PROVE Released(q) /\ q \in Procs
  BY <1>4 DEF Answer, Procs
<1>5. ASSUME NEW o \in Owners, OwnerAsks(o) \/ OwnerDone(o) PROVE UNCHANGED held \/ (Released(o) /\ o \in Procs)
  BY <1>5 DEF OwnerAsks, OwnerDone, Procs
<1>6. ASSUME NEW p \in Procs, Victim(p) PROVE Released(p)
  BY <1>6 DEF Victim
<1>7. ASSUME CreateBusiness \/ Begins \/ UNCHANGED vars PROVE UNCHANGED held
  BY <1>7 DEF CreateBusiness, Begins, vars, locks
<1> QED BY <1>1, <1>2, <1>3, <1>4, <1>5, <1>6, <1>7 DEF Step

LEMMA TypesStep ==
    ASSUME Types, RunInv, KnownRows, Step PROVE Types'
<1>1. \A s \in Syncs : syncs[s] # Nil => syncs[s].run \in 1 .. Len(runs)
  BY DEF RunInv
<1>2. ASSUME UNCHANGED vars PROVE Types'
  BY <1>2 DEF vars, Types
<1> QED BY <1>1, <1>2, StartTypes, WorksTypes, PublishTypes, StopsTypes, SaveFailureTypes, AsksTypes, DecideTypes,
           AnswerTypes, OwnerTypes, TakeTypes, OtherTypes DEF Step, Publishes

LEMMA ConflictsAreMutual == ASSUME NEW l, NEW m, Conflict(l, m) PROVE Conflict(m, l)
BY DEF Conflict

LEMMA ExclusiveStep == ASSUME Types, Exclusive, Step PROVE Exclusive'
<1>1. CASE UNCHANGED held
  BY <1>1 DEF Exclusive
<1>2. ASSUME NEW r \in Procs, Released(r) PROVE Exclusive'
  BY <1>2 DEF Released, Exclusive, Types
<1>3. ASSUME NEW r \in Procs, Take(r) PROVE Exclusive'
  <2> DEFINE new == Head(wants[r])
  <2>1. \A q \in Procs \ {r} : \A l \in held[q] : ~Conflict(new, l) /\ ~Conflict(l, new)
    BY <1>3, ConflictsAreMutual DEF Take, Free, Blocks
  <2>2. \A q \in Procs : held'[q] = IF q = r THEN held[r] \cup {new} ELSE held[q]
    BY <1>3 DEF Take, Types
  <2> HIDE DEF new
  <2> QED BY <2>1, <2>2 DEF Exclusive
<1> QED BY <1>1, <1>2, <1>3, HeldSteps

LEMMA SyncShapeFrame ==
    ASSUME NEW t \in Syncs, SyncShape(t), existing' = existing, syncs'[t] = syncs[t], held'[t] = held[t], wants'[t] = wants[t]
    PROVE SyncShape(t)'
BY DEF SyncShape, Opening, Underway

LEMMA PanelShapeFrame ==
    ASSUME NEW t \in Panels, PanelShape(t), panels'[t] = panels[t], held'[t] = held[t], wants'[t] = wants[t]
    PROVE PanelShape(t)'
BY DEF PanelShape, Underway

LEMMA ShapesFrame ==
    ASSUME Types, Shapes, NEW p, existing' = existing,
           \A t \in Syncs : t # p => syncs'[t] = syncs[t], \A t \in Panels : t # p => panels'[t] = panels[t],
           \A t \in Procs : t # p => held'[t] = held[t] /\ wants'[t] = wants[t],
           p \in Syncs => SyncShape(p)', p \in Panels => PanelShape(p)'
    PROVE Shapes'
BY SyncShapeFrame, PanelShapeFrame DEF Shapes, Procs

LEMMA UnderwayGoesOn ==
    ASSUME Types, NEW p \in Procs, Take(p), NEW ls, Ordered(ls), NEW first, Underway(p, first, ls)
    PROVE Underway(p, first, ls)' /\ Head(wants[p]) # Share
<1>0. ls \in Seq(Locks) /\ wants[p] # <<>>
  BY DEF Ordered, Take
<1>1. PICK k \in 0 .. Len(ls) : held[p] = first \cup First(ls, k) /\ wants[p] = Rest(ls, k)
  BY DEF Underway
<1>2. k + 1 \in 1 .. Len(ls) /\ Head(wants[p]) = ls[k + 1] /\ Tail(wants[p]) = Rest(ls, k + 1)
      /\ First(ls, k + 1) = First(ls, k) \cup {ls[k + 1]}
  BY <1>0, <1>1, RestNext
<1>3. Head(wants[p]) # Share
  BY <1>2 DEF Ordered
<1>4. held'[p] = first \cup First(ls, k + 1) /\ wants'[p] = Rest(ls, k + 1)
  BY <1>1, <1>2, <1>3 DEF Take, Types
<1> QED BY <1>2, <1>3, <1>4 DEF Underway

LEMMA UnderwayBegins ==
    ASSUME NEW p, NEW ls \in Seq(Locks), NEW first, held'[p] = first, wants'[p] = ls
    PROVE Underway(p, first, ls)'
<1>1. held'[p] = first \cup First(ls, 0) /\ wants'[p] = Rest(ls, 0) /\ 0 \in 0 .. Len(ls)
  BY RestStarts
<1> QED BY <1>1 DEF Underway

LEMMA TakeShapes == ASSUME Types, Shapes, NEW p \in Procs, Take(p) PROVE Shapes'
<1>0. /\ existing \in Businesses /\ Syncs \cap Panels = {}
      /\ UNCHANGED <<existing, syncs, panels>> /\ wants[p] # <<>>
      /\ \A t \in Procs : t # p => held'[t] = held[t] /\ wants'[t] = wants[t]
  BY HolidayAssumption DEF Types, Businesses, Take, agenda
<1>1. ASSUME p \in Syncs PROVE SyncShape(p)'
  <2>1. SyncShape(p) /\ syncs[p] # Nil /\ syncs[p].at = "locking"
    <3>1. syncs[p] # Nil /\ syncs[p].at \notin {"downloading", "failing", "counted"}
      BY <1>0, <1>1 DEF Shapes, SyncShape
    <3> QED BY <1>1, <3>1, NilIsNoRow DEF Shapes, SyncRows
  <2>2. CASE held[p] = {} /\ wants[p] = SyncLocks
    <3>1. wants'[p] = <<Share>> /\ held'[p] = {Boe}
      BY <2>2, LocksDiffer DEF Take, SyncLocks, Types
    <3> QED BY <1>0, <2>1, <3>1 DEF SyncShape, Opening
  <2>3. CASE held[p] = {Boe} /\ wants[p] = <<Share>>
    <3>1. held'[p] = {Boe, Share} /\ wants'[p] = <<>> \o Calendars(existing)
      BY <2>3 DEF Take, Types
    <3>2. wants'[p] = Calendars(existing)
      BY <1>0, <3>1, CalendarsEntries
    <3>3. Underway(p, {Boe, Share}, Calendars(existing))'
      <4>1. PICK ls : ls = Calendars(existing)
        OBVIOUS
      <4>2. Underway(p, {Boe, Share}, ls)'
        BY <1>0, <3>1, <3>2, <4>1, CalendarsEntries, UnderwayBegins
      <4>3. Calendars(existing)' = ls
        BY <1>0, <4>1 DEF Calendars, CalendarLocks, Lines, BusinessRow, RowExclusive
      <4> QED BY <4>2, <4>3 DEF Underway
    <3> QED BY <1>0, <2>1, <3>3 DEF SyncShape
  <2>4. CASE Underway(p, {Boe, Share}, Calendars(existing))
    <3>1. Underway(p, {Boe, Share}, Calendars(existing))'
      <4>1. PICK ls : ls = Calendars(existing)
        OBVIOUS
      <4>2. Underway(p, {Boe, Share}, ls)'
        BY <1>0, <2>4, <4>1, CalendarsOrdered, UnderwayGoesOn
      <4>3. Calendars(existing)' = ls
        BY <1>0, <4>1 DEF Calendars, CalendarLocks, Lines, BusinessRow, RowExclusive
      <4> QED BY <4>2, <4>3 DEF Underway
    <3> QED BY <1>0, <2>1, <3>1 DEF SyncShape
  <2> QED BY <2>1, <2>2, <2>3, <2>4 DEF SyncShape, Opening
<1>2. ASSUME p \in Panels PROVE PanelShape(p)'
  <2>1. PanelShape(p) /\ panels[p] # Nil /\ panels[p].verdict = "none" /\ panels[p].business \in Businesses
    BY <1>0, <1>2 DEF Shapes, PanelShape, Types, PanelRows
  <2>2. ASSUME NEW n \in Businesses, Underway(p, {}, Calendars(n)) PROVE Underway(p, {}, Calendars(n))'
    BY <2>2, CalendarsOrdered, UnderwayGoesOn
  <2>3. ASSUME NEW b \in Businesses, Underway(p, {}, CalendarLocks(b)) PROVE Underway(p, {}, CalendarLocks(b))'
    BY <2>3, CalendarLocksOrdered, UnderwayGoesOn
  <2>4. CASE panels[p].op = "close"
    BY <1>0, <2>1, <2>2, <2>4 DEF PanelShape
  <2>5. CASE panels[p].op # "close"
    <3>1. PICK b \in Businesses : b = panels[p].business
      BY <2>1
    <3>2. Underway(p, {}, CalendarLocks(b))'
      BY <2>1, <2>3, <2>5, <3>1 DEF PanelShape
    <3>3. panels'[p] = panels[p]
      BY <1>0
    <3> QED BY <2>1, <2>5, <3>1, <3>2, <3>3 DEF PanelShape, Underway
  <2> QED BY <2>4, <2>5
<1> QED BY <1>0, <1>1, <1>2, ShapesFrame

LEMMA WorksShapes ==
    ASSUME Types, Shapes, NEW s \in Syncs, Start(s) \/ (syncs[s] # Nil /\ (Fetch(s) \/ Count(s))) PROVE Shapes'
<1>0. s \in Procs /\ s \notin Panels /\ SyncShape(s)
  BY HolidayAssumption DEF Procs, Shapes
<1>1. UNCHANGED <<existing, panels>> /\ (\A t \in Syncs : t # s => syncs'[t] = syncs[t])
      /\ \A t \in Procs : t # s => held'[t] = held[t] /\ wants'[t] = wants[t]
  BY DEF Start, Fetch, Count, Types, agenda, locks
<1>2. CASE Start(s)
  <2>1. held'[s] = {} /\ wants'[s] = <<>>
    BY <1>0, <1>2 DEF Start, SyncShape, locks
  <2>3. syncs'[s].at = "downloading"
    <3>1. PICK y : syncs' = [syncs EXCEPT ![s] = [at |-> "downloading", year |-> y, run |-> Len(runs) + 1, answer |-> {}, count |-> {}]]
      BY <1>2 DEF Start
    <3> QED BY <3>1 DEF Types
  <2>2. SyncShape(s)'
    BY <2>1, <2>3 DEF SyncShape
  <2> QED BY <1>0, <1>1, <2>2, ShapesFrame
<1>3. CASE syncs[s] # Nil /\ Fetch(s)
  <2>1. held'[s] = {} /\ wants'[s] = SyncLocks
    BY <1>0, <1>3 DEF Fetch, SyncShape, Types
  <2>2. syncs'[s] \in SyncRows /\ syncs'[s].at = "locking"
    <3>1. PICK answer \in SUBSET syncs[s].year : syncs' = [syncs EXCEPT ![s].at = "locking", ![s].answer = answer]
      BY <1>3 DEF Fetch
    <3>2. syncs[s] \in SyncRows /\ answer \in SUBSET Days
      BY <1>3, NilIsNoRow, HolidayAssumption DEF SyncRows
    <3>3. syncs'[s] = [syncs[s] EXCEPT !.at = "locking", !.answer = answer]
      BY <3>1 DEF Types
    <3> QED BY <3>2, <3>3 DEF SyncRows
  <2>3. SyncShape(s)'
    BY <2>1, <2>2, MarkAssumption DEF SyncShape, Opening, SyncLocks
  <2> QED BY <1>0, <1>1, <2>3, ShapesFrame
<1>4. CASE syncs[s] # Nil /\ Count(s)
  <2>1. held'[s] = held[s] /\ wants'[s] = <<>> /\ wants[s] = <<>> /\ syncs[s].at = "locking"
    BY <1>4 DEF Count, locks
  <2>2. ~Opening(s)
    BY <2>1 DEF Opening, SyncLocks
  <2>3. Underway(s, {Boe, Share}, Calendars(existing))
    BY <1>0, <1>4, <2>1, <2>2 DEF SyncShape
  <2>4. Underway(s, {Boe, Share}, Calendars(existing))'
    BY <1>1, <1>4, <2>1, <2>3 DEF Underway, Count, locks
  <2>5. syncs[s] \in SyncRows /\ syncs'[s] = [syncs[s] EXCEPT !.at = "counted", !.count = Affected(syncs[s].answer)]
    BY <1>4, NilIsNoRow DEF Count, Types
  <2>6. syncs'[s] \in SyncRows /\ syncs'[s].at = "counted"
    BY <2>5 DEF SyncRows, Affected
  <2>7. SyncShape(s)'
    BY <2>1, <2>4, <2>6, MarkAssumption DEF SyncShape
  <2> QED BY <1>0, <1>1, <2>7, ShapesFrame
<1> QED BY <1>2, <1>3, <1>4

LEMMA EndsShapes ==
    ASSUME Types, Shapes, NEW s \in Syncs, syncs[s] # Nil, Publishes(s) \/ Stops(s) \/ SaveFailure(s) PROVE Shapes'
<1>0. s \in Procs /\ s \notin Panels /\ SyncShape(s) /\ syncs[s] \in SyncRows
  BY HolidayAssumption, NilIsNoRow DEF Procs, Shapes
<1>1. CASE SaveFailure(s)
  <2>1. held'[s] = {} /\ wants'[s] = <<>> /\ syncs'[s] = Nil
    BY <1>0, <1>1 DEF SaveFailure, SyncShape, Types, locks
  <2>2. SyncShape(s)'
    BY <2>1 DEF SyncShape
  <2>3. UNCHANGED <<existing, panels, held, wants>> /\ (\A t \in Syncs : t # s => syncs'[t] = syncs[t])
    BY <1>1 DEF SaveFailure, Types, agenda, locks
  <2> QED BY <1>0, <2>2, <2>3, ShapesFrame
<1>2. CASE Publishes(s) \/ Stops(s)
  <2>1. Released(s) /\ UNCHANGED <<existing, panels>>
    BY <1>2, StopsMeans DEF Publishes, Commit, CommitUnheard, Publish, agenda
  <2>2. syncs' = [syncs EXCEPT ![s] = Nil] \/ syncs' = [syncs EXCEPT ![s].at = "failing"]
    BY <1>2, StopsMeans DEF Publishes, Commit, CommitUnheard
  <2>3. syncs'[s] = Nil \/ syncs'[s].at = "failing"
    BY <1>0, <2>2 DEF Types, SyncRows
  <2>4. held'[s] = {} /\ wants'[s] = <<>> /\ \A t \in Procs : t # s => held'[t] = held[t] /\ wants'[t] = wants[t]
    BY <1>0, <2>1 DEF Released, Types
  <2>5. SyncShape(s)'
    BY <2>3, <2>4 DEF SyncShape
  <2>6. \A t \in Syncs : t # s => syncs'[t] = syncs[t]
    BY <2>2 DEF Types
  <2> QED BY <1>0, <2>1, <2>4, <2>5, <2>6, ShapesFrame
<1> QED BY <1>1, <1>2

LEMMA PanelShapes ==
    ASSUME Types, Shapes, KnownRows, NEW q \in Panels, PanelAsks(q) \/ Decide(q) \/ Answer(q) PROVE Shapes'
<1>0. q \in Procs /\ q \notin Syncs /\ PanelShape(q) /\ existing \in Businesses
  BY HolidayAssumption DEF Procs, Shapes, Types, Businesses
<1>1. CASE PanelAsks(q)
  <2>1. PICK op, b, d, a, ls : Arrives(q, op, b, d, a, ls)
    BY <1>1, ArrivesMeans
  <2>2. /\ held'[q] = {} /\ wants'[q] = ls
        /\ panels'[q] = [op |-> op, business |-> b, day |-> d, appt |-> a, verdict |-> "none"]
        /\ \A t \in Procs : t # q => held'[t] = held[t] /\ wants'[t] = wants[t]
        /\ \A t \in Panels : t # q => panels'[t] = panels[t]
        /\ UNCHANGED <<existing, syncs>>
    BY <1>0, <2>1 DEF Arrives, Asks, PanelShape, Types, agenda
  <2>3. Underway(q, {}, ls)'
    BY <2>1, <2>2, ListsAreLocks, UnderwayBegins
  <2>4. PanelShape(q)'
    <3>0. panels'[q] # Nil /\ panels'[q].op = op /\ panels'[q].verdict = "none"
      <4>1. [op |-> op, business |-> b, day |-> d, appt |-> a, verdict |-> "none"] \in PanelRows
        BY <2>1 DEF Arrives, PanelRows
      <4> QED BY <2>2, <4>1, MarkAssumption
    <3>1. CASE op = "close"
      <4>1. PICK n \in Businesses : ls = Calendars(n)
        BY <1>0, <2>1, <3>1 DEF Arrives
      <4>2. Underway(q, {}, Calendars(n))'
        BY <2>3, <4>1 DEF Underway
      <4> QED BY <3>0, <3>1, <4>2 DEF PanelShape
    <3>2. CASE op # "close"
      <4>1. ls = CalendarLocks(b)
        BY <2>1, <3>2 DEF Arrives
      <4>2. panels'[q].business = b /\ panels'[q].op # "close" /\ panels'[q].verdict = "none"
        BY <2>2, <3>2
      <4>3. CalendarLocks(panels[q].business)' = ls
        BY <4>1, <4>2 DEF CalendarLocks, Lines, BusinessRow, RowExclusive
      <4> QED BY <2>3, <3>0, <4>2, <4>3 DEF PanelShape, Underway
    <3> QED BY <3>1, <3>2
  <2> QED BY <1>0, <2>2, <2>4, ShapesFrame
<1>2. CASE Decide(q)
  <2>1. panels[q] # Nil /\ panels[q] \in PanelRows /\ wants[q] = <<>>
    BY <1>2, NilIsNoRow DEF Decide
  <2>2. panels'[q] # Nil /\ panels'[q].op = panels[q].op /\ panels'[q].business = panels[q].business
    <3>1. \A v : [panels[q] EXCEPT !.verdict = v].op = panels[q].op /\ [panels[q] EXCEPT !.verdict = v].business = panels[q].business
      BY <2>1 DEF PanelRows
    <3>2. \A v \in {"yes", "no"} : [panels[q] EXCEPT !.verdict = v] \in PanelRows
      BY <2>1 DEF PanelRows
    <3> QED BY <1>2, <3>1, <3>2, MarkAssumption DEF Decide, Types
  <2>3. UNCHANGED <<existing, syncs, held, wants>> /\ \A t \in Panels : t # q => panels'[t] = panels[t]
    BY <1>2 DEF Decide, Types, agenda, locks
  <2>4. PanelShape(q)'
    BY <1>0, <2>1, <2>2, <2>3 DEF PanelShape, Underway, CalendarLocks, Lines, BusinessRow, RowExclusive
  <2> QED BY <1>0, <2>3, <2>4, ShapesFrame
<1>3. CASE Answer(q)
  <2>1. held'[q] = {} /\ wants'[q] = <<>> /\ \A t \in Procs : t # q => held'[t] = held[t] /\ wants'[t] = wants[t]
    BY <1>0, <1>3 DEF Answer, Released, Types
  <2>2. panels'[q] = Nil /\ UNCHANGED <<existing, syncs>> /\ \A t \in Panels : t # q => panels'[t] = panels[t]
    BY <1>3 DEF Answer, Types
  <2>3. PanelShape(q)'
    BY <2>1, <2>2 DEF PanelShape
  <2> QED BY <1>0, <2>1, <2>2, <2>3, ShapesFrame
<1> QED BY <1>1, <1>2, <1>3

LEMMA OtherShapes ==
    ASSUME Types, Shapes, \/ \E o \in Owners : OwnerAsks(o) \/ OwnerDone(o)
                          \/ \E p \in Procs : Victim(p)
                          \/ CreateBusiness \/ Begins \/ UNCHANGED vars
    PROVE Shapes'
<1>1. ASSUME NEW o \in Owners, OwnerAsks(o) \/ OwnerDone(o) PROVE Shapes'
  <2>1. o \notin Syncs /\ o \notin Panels
    BY HolidayAssumption
  <2>2. UNCHANGED <<existing, syncs, panels>> /\ \A t \in Procs : t # o => held'[t] = held[t] /\ wants'[t] = wants[t]
    BY <1>1 DEF OwnerAsks, OwnerDone, Released, Types, agenda
  <2> QED BY <2>1, <2>2, ShapesFrame
<1>2. ASSUME NEW p \in Procs, Victim(p) PROVE Shapes'
  <2>1. p \notin Syncs /\ UNCHANGED <<existing, syncs>>
        /\ held'[p] = {} /\ wants'[p] = <<>> /\ \A t \in Procs : t # p => held'[t] = held[t] /\ wants'[t] = wants[t]
    BY <1>2 DEF Victim, Released, Types, agenda
  <2>2. \A t \in Panels : panels'[t] = IF t = p THEN Nil ELSE panels[t]
    BY <1>2 DEF Victim, Types
  <2>3. p \in Panels => PanelShape(p)'
    BY <2>1, <2>2 DEF PanelShape
  <2> QED BY <2>1, <2>2, <2>3, ShapesFrame
<1>3. ASSUME CreateBusiness PROVE Shapes'
  <2>1. UNCHANGED <<syncs, panels, held, wants>> /\ \A p \in Procs : Share \notin held[p]
    BY <1>3 DEF CreateBusiness, locks
  <2>2. ASSUME NEW t \in Syncs PROVE SyncShape(t)'
    <3>1. ~Underway(t, {Boe, Share}, Calendars(existing))
      BY <2>1 DEF Underway, Procs
    <3> QED BY <2>1, <3>1 DEF Shapes, SyncShape, Opening
  <2>3. ASSUME NEW t \in Panels PROVE PanelShape(t)'
    BY <2>1, PanelShapeFrame DEF Shapes
  <2> QED BY <2>2, <2>3 DEF Shapes
<1>4. ASSUME Begins \/ UNCHANGED vars PROVE Shapes'
  <2>1. UNCHANGED <<existing, syncs, panels, held, wants>>
    BY <1>4 DEF Begins, vars, locks
  <2> QED BY <2>1, SyncShapeFrame, PanelShapeFrame DEF Shapes
<1> QED BY <1>1, <1>2, <1>3, <1>4

LEMMA ShapesStep == ASSUME Types, Shapes, KnownRows, Step PROVE Shapes'
BY TakeShapes, WorksShapes, EndsShapes, PanelShapes, OtherShapes DEF Step

-----------------------------------------------------------------------------
(* Runs and the guard of a year *)

LEMMA Appended == ASSUME NEW S, NEW sq \in Seq(S), NEW e \in S PROVE
    Len(Append(sq, e)) = Len(sq) + 1 /\ Append(sq, e)[Len(sq) + 1] = e /\ \A i \in 1 .. Len(sq) : Append(sq, e)[i] = sq[i]
OBVIOUS

LEMMA StartRuns ==
    ASSUME Types, RunInv, NEW s \in Syncs, Start(s) PROVE RunInv'
<1> DEFINE fresh(y) == [year |-> y, status |-> "failed", finished |-> FALSE, interrupted |-> FALSE]
           new(y) == [at |-> "downloading", year |-> y, run |-> Len(runs) + 1, answer |-> {}, count |-> {}]
<1>1. PICK y \in Years : syncs[s] = Nil /\ guard[y] = Nil /\ guard' = [guard EXCEPT ![y] = s]
                         /\ runs' = Append(Older(y), fresh(y)) /\ syncs' = [syncs EXCEPT ![s] = new(y)]
  BY DEF Start, Available, Older
<1>2. Len(runs) \in Nat /\ Older(y) \in Seq(RunRows) /\ Len(Older(y)) = Len(runs)
  BY RunsMeans, OlderMeans
<1>11. \A i \in 1 .. Len(runs) : ~Interrupted(runs[i], y) => Older(y)[i] = runs[i]
  BY RunsMeans DEF Older
<1>3. fresh(y) \in RunRows /\ fresh(y).year = y /\ fresh(y).finished = FALSE
  BY DEF RunRows
<1>4. Len(runs') = Len(runs) + 1 /\ runs'[Len(runs) + 1] = fresh(y) /\ \A i \in 1 .. Len(runs) : runs'[i] = Older(y)[i]
  <2>1. Len(Append(Older(y), fresh(y))) = Len(Older(y)) + 1
        /\ Append(Older(y), fresh(y))[Len(Older(y)) + 1] = fresh(y)
        /\ \A i \in 1 .. Len(Older(y)) : Append(Older(y), fresh(y))[i] = Older(y)[i]
    BY <1>2, <1>3, Appended
  <2> HIDE DEF fresh
  <2> QED BY <1>1, <1>2, <2>1
<1>5. new(y).year = y /\ new(y).run = Len(runs) + 1 /\ new(y).answer = {}
  OBVIOUS
<1>6. syncs'[s] = new(y) /\ \A t \in Syncs : t # s => syncs'[t] = syncs[t]
  BY <1>1 DEF Types
<1> HIDE DEF fresh, new
<1>7. \A t \in Syncs : syncs'[t] # Nil => syncs'[t].run \in 1 .. Len(runs')
  <2>1. \A t \in Syncs : syncs[t] # Nil => syncs[t].run \in 1 .. Len(runs)
    BY DEF RunInv
  <2> QED BY <1>2, <1>4, <1>5, <1>6, <2>1
<1>8. \A t, u \in Syncs : syncs'[t] # Nil /\ syncs'[u] # Nil /\ t # u => syncs'[t].run # syncs'[u].run
  <2>1. \A t \in Syncs : syncs[t] # Nil => syncs[t].run \in 1 .. Len(runs)
    BY DEF RunInv
  <2>2. \A t, u \in Syncs : syncs[t] # Nil /\ syncs[u] # Nil /\ t # u => syncs[t].run # syncs[u].run
    BY DEF RunInv
  <2>3. \A t \in Syncs : t # s /\ syncs'[t] # Nil => syncs'[t].run \in 1 .. Len(runs)
    BY <1>6, <2>1
  <2>4. syncs'[s].run = Len(runs) + 1
    BY <1>5, <1>6
  <2>5. \A t \in Syncs : t # s /\ syncs'[t] # Nil => syncs'[t].run # syncs'[s].run
    BY <1>2, <2>3, <2>4
  <2> QED BY <1>6, <2>2, <2>5
<1>9. \A t \in Syncs : syncs'[t] # Nil => syncs'[t].answer \subseteq syncs'[t].year
  BY <1>5, <1>6 DEF RunInv
<1>10. ASSUME NEW t \in Syncs, MayPublish(t)'
       PROVE guard'[syncs'[t].year] = t /\ ~runs'[syncs'[t].run].finished /\ runs'[syncs'[t].run].year = syncs'[t].year
  <2>1. CASE t = s
    <3>1. syncs'[t].year = y /\ runs'[syncs'[t].run] = fresh(y)
      BY <1>4, <1>5, <1>6, <2>1
    <3>2. guard'[y] = s
      BY <1>1 DEF Types
    <3> QED BY <1>3, <2>1, <3>1, <3>2
  <2>2. CASE t # s
    <3>1. MayPublish(t) /\ syncs'[t] = syncs[t] /\ syncs[t] \in SyncRows
      BY <1>6, <1>10, <2>2, NilIsNoRow DEF MayPublish
    <3>2. /\ guard[syncs[t].year] = t /\ ~runs[syncs[t].run].finished /\ runs[syncs[t].run].year = syncs[t].year
          /\ syncs[t].run \in 1 .. Len(runs) /\ syncs[t].year \in Years
      BY <3>1 DEF RunInv, MayPublish, SyncRows
    <3>3. syncs[t].year # y
      BY <1>1, <3>2, MarkAssumption
    <3>4. runs'[syncs[t].run] = runs[syncs[t].run]
      BY <1>2, <1>4, <1>11, <3>2, <3>3 DEF Interrupted
    <3>5. guard'[syncs[t].year] = t
      BY <1>1, <3>2, <3>3 DEF Types
    <3> QED BY <3>1, <3>2, <3>4, <3>5
  <2> QED BY <2>1, <2>2
<1> QED BY <1>7, <1>8, <1>9, <1>10 DEF RunInv

\* A session ends, fails or goes on: nobody else's year or run is touched.
LEMMA RunsFrame ==
    ASSUME Types, RunInv, NEW s \in Syncs, syncs[s] # Nil,
           \A t \in Syncs : t # s => syncs'[t] = syncs[t],
           syncs'[s] # Nil => syncs'[s].run = syncs[s].run /\ syncs'[s].year = syncs[s].year
                              /\ syncs'[s].answer \subseteq syncs[s].year,
           MayPublish(s)' => MayPublish(s) /\ UNCHANGED <<guard, runs>>,
           guard' = guard \/ guard' = WithoutSession(s),
           Len(runs') = Len(runs), \A i \in 1 .. Len(runs) : i # syncs[s].run => runs'[i] = runs[i]
    PROVE RunInv'
<1>1. \A t \in Syncs : syncs'[t] # Nil => syncs[t] # Nil /\ syncs'[t].run = syncs[t].run /\ syncs'[t].year = syncs[t].year
                                          /\ syncs'[t].answer \subseteq syncs'[t].year
  BY DEF RunInv
<1>2. ASSUME NEW t \in Syncs, MayPublish(t)'
      PROVE guard'[syncs'[t].year] = t /\ ~runs'[syncs'[t].run].finished /\ runs'[syncs'[t].run].year = syncs'[t].year
  <2>1. CASE t = s
    BY <1>1, <1>2, <2>1 DEF RunInv, MayPublish
  <2>2. CASE t # s
    <3>1. MayPublish(t) /\ syncs[t] \in SyncRows /\ syncs'[t] = syncs[t]
      BY <1>2, <2>2, NilIsNoRow DEF MayPublish
    <3>2. /\ guard[syncs[t].year] = t /\ ~runs[syncs[t].run].finished /\ runs[syncs[t].run].year = syncs[t].year
          /\ syncs[t].run \in 1 .. Len(runs) /\ syncs[t].year \in Years /\ syncs[t].run # syncs[s].run
      BY <2>2, <3>1 DEF RunInv, MayPublish, SyncRows
    <3>3. guard'[syncs[t].year] = t
      BY <2>2, <3>2 DEF WithoutSession
    <3> QED BY <3>1, <3>2, <3>3
  <2> QED BY <2>1, <2>2
<1> QED BY <1>1, <1>2 DEF RunInv

LEMMA RunStep == ASSUME Types, RunInv, Step PROVE RunInv'
<1>1. ASSUME NEW s \in Syncs, syncs[s] # Nil, Fetch(s) \/ Count(s) PROVE RunInv'
  <2>0. syncs[s] \in SyncRows /\ UNCHANGED <<guard, runs>>
    BY <1>1, NilIsNoRow DEF Fetch, Count, catalogue
  <2>1. CASE Fetch(s)
    <3>1. PICK answer \in SUBSET syncs[s].year :
            syncs' = [syncs EXCEPT ![s].at = "locking", ![s].answer = answer] /\ syncs[s].at = "downloading"
      BY <2>1 DEF Fetch
    <3>2. syncs'[s] = [syncs[s] EXCEPT !.at = "locking", !.answer = answer]
      BY <3>1 DEF Types
    <3>3. syncs'[s].run = syncs[s].run /\ syncs'[s].year = syncs[s].year /\ syncs'[s].answer = answer
      BY <2>0, <3>2 DEF SyncRows
    <3>4. MayPublish(s) /\ \A t \in Syncs : t # s => syncs'[t] = syncs[t]
      BY <1>1, <3>1 DEF MayPublish, Types
    <3> QED BY <1>1, <2>0, <3>1, <3>3, <3>4, RunsFrame
  <2>2. CASE Count(s)
    <3>2. syncs'[s] = [syncs[s] EXCEPT !.at = "counted", !.count = Affected(syncs[s].answer)]
      BY <2>2 DEF Types, Count
    <3>3. syncs'[s].run = syncs[s].run /\ syncs'[s].year = syncs[s].year /\ syncs'[s].answer = syncs[s].answer
      BY <2>0, <3>2 DEF SyncRows
    <3>4. MayPublish(s) /\ \A t \in Syncs : t # s => syncs'[t] = syncs[t]
      BY <1>1, <2>2 DEF MayPublish, Types, Count
    <3>5. syncs[s].answer \subseteq syncs[s].year
      BY <1>1 DEF RunInv
    <3> QED BY <1>1, <2>0, <3>3, <3>4, <3>5, RunsFrame
  <2> QED BY <1>1, <2>1, <2>2
<1>2. ASSUME NEW s \in Syncs, syncs[s] # Nil, Publishes(s) \/ Stops(s) \/ SaveFailure(s) PROVE RunInv'
  <2>0. syncs[s] \in SyncRows /\ syncs[s].run \in 1 .. Len(runs) /\ syncs[s].answer \subseteq syncs[s].year
    BY <1>2, NilIsNoRow DEF RunInv
  <2>1. syncs' = [syncs EXCEPT ![s] = Nil] \/ syncs' = [syncs EXCEPT ![s].at = "failing"]
    BY <1>2, StopsMeans DEF Publishes, Commit, CommitUnheard, SaveFailure
  <2>2. syncs'[s] # Nil => syncs'[s].run = syncs[s].run /\ syncs'[s].year = syncs[s].year
                           /\ syncs'[s].answer = syncs[s].answer /\ syncs'[s].at = "failing"
    <3>1. CASE syncs' = [syncs EXCEPT ![s] = Nil]
      BY <3>1 DEF Types
    <3>2. CASE syncs' = [syncs EXCEPT ![s].at = "failing"]
      <4>1. syncs'[s] = [syncs[s] EXCEPT !.at = "failing"]
        BY <3>2 DEF Types
      <4> QED BY <2>0, <4>1 DEF SyncRows
    <3> QED BY <2>1, <3>1, <3>2
  <2>3. ~MayPublish(s)' /\ \A t \in Syncs : t # s => syncs'[t] = syncs[t]
    BY <2>1, <2>2 DEF MayPublish, Types
  <2>4. guard' = guard \/ guard' = WithoutSession(s)
    BY <1>2, StopsMeans DEF Publishes, Commit, CommitUnheard, Publish, SaveFailure
  <2>5. Len(runs') = Len(runs) /\ \A i \in 1 .. Len(runs) : i # syncs[s].run => runs'[i] = runs[i]
    <3>1. runs' = runs \/ \E r : runs' = [runs EXCEPT ![syncs[s].run] = r]
      BY <1>2, StopsMeans DEF Publishes, Commit, CommitUnheard, Publish, SaveFailure
    <3>2. runs \in Seq(RunRows)
      BY DEF Types
    <3> QED BY <3>1, <3>2, RunsMeans
  <2> QED BY <1>2, <2>0, <2>2, <2>3, <2>4, <2>5, RunsFrame
<1>3. ASSUME UNCHANGED <<syncs, runs, guard>> PROVE RunInv'
  BY <1>3 DEF RunInv, MayPublish
<1>4. ASSUME NEW q \in Panels, PanelAsks(q) \/ Decide(q) \/ Answer(q) PROVE UNCHANGED <<syncs, runs, guard>>
  BY <1>4 DEF PanelAsks, AskBook, AskAbout, AskSwitch, AskClose, Asks, Decide, Answer, catalogue
<1>5. ASSUME \/ \E o \in Owners : OwnerAsks(o) \/ OwnerDone(o)
             \/ \E p \in Procs : Take(p) \/ Victim(p)
             \/ CreateBusiness \/ Begins \/ UNCHANGED vars
      PROVE UNCHANGED <<syncs, runs, guard>>
  BY <1>5 DEF OwnerAsks, OwnerDone, Take, Victim, CreateBusiness, Begins, vars, catalogue
<1> QED BY <1>1, <1>2, <1>3, <1>4, <1>5, StartRuns DEF Step

\* What LiveRunIsNotInterrupted says follows: a year's guard has one holder.
LEMMA RunsAreLive == ASSUME Types, RunInv PROVE LiveRunIsNotInterrupted
BY DEF RunInv, LiveRunIsNotInterrupted, MayPublish

-----------------------------------------------------------------------------
(* Who holds the calendars *)

LEMMA AllTaken ==
    ASSUME NEW ls \in Seq(Locks), NEW p, NEW first, Underway(p, first, ls), wants[p] = <<>>
    PROVE \A i \in 1 .. Len(ls) : ls[i] \in held[p]
<1>1. PICK k \in 0 .. Len(ls) : held[p] = first \cup First(ls, k) /\ wants[p] = Rest(ls, k)
  BY DEF Underway
<1>2. Len(Rest(ls, k)) = Len(ls) - k
  BY DEF Rest
<1>3. k = Len(ls)
  BY <1>1, <1>2
<1> QED BY <1>1, <1>3 DEF First

Decided(q) == panels[q] # Nil /\ panels[q].op # "close" /\ panels[q].verdict # "none"
Counted(s) == syncs[s] # Nil /\ syncs[s].at = "counted"

LEMMA DecidedHoldTheirs ==
    ASSUME Types, Shapes, NEW q \in Panels, Decided(q)
    PROVE panels[q].business \in Businesses /\ BusinessRow(panels[q].business) \in held[q]
<1>1. panels[q].business \in Businesses
  BY DEF Types, PanelRows, Decided
<1>2. Underway(q, {}, CalendarLocks(panels[q].business)) /\ wants[q] = <<>>
  BY DEF Shapes, PanelShape, Decided
<1>3. Len(CalendarLocks(panels[q].business)) = 3 /\ CalendarLocks(panels[q].business) \in Seq(Locks)
  BY <1>1, CalendarLocksEntries
<1>4. CalendarLocks(panels[q].business)[3] \in held[q]
  BY <1>2, <1>3, AllTaken
<1> QED BY <1>1, <1>4, CalendarLocksEntries

LEMMA CountedHoldAll ==
    ASSUME Types, Shapes, NEW s \in Syncs, Counted(s), NEW b \in Businesses, b <= existing
    PROVE BusinessRow(b) \in held[s]
<1>0. existing \in Businesses /\ b \in 1 .. existing
  BY BusinessNumbers DEF Types, Businesses
<1>1. Underway(s, {Boe, Share}, Calendars(existing)) /\ wants[s] = <<>>
  BY DEF Shapes, SyncShape, Counted
<1>2. Len(Calendars(existing)) = 3 * existing /\ Calendars(existing) \in Seq(Locks)
      /\ Calendars(existing)[3 * (b - 1) + 3] = CalendarLocks(b)[3]
  <2>1. \A k \in 1 .. 3 : Calendars(existing)[3 * (b - 1) + k] = CalendarLocks(b)[k]
    BY <1>0, CalendarsEntries
  <2>2. 3 \in 1 .. 3
    OBVIOUS
  <2>3. Calendars(existing)[3 * (b - 1) + 3] = CalendarLocks(b)[3]
    BY <2>1, <2>2
  <2> QED BY <1>0, <2>3, CalendarsEntries
<1>3. 3 * (b - 1) + 3 \in 1 .. 3 * existing
  BY <1>0, BusinessNumbers
<1>4. Calendars(existing)[3 * (b - 1) + 3] \in held[s]
  BY <1>1, <1>2, <1>3, AllTaken
<1> QED BY <1>2, <1>4, CalendarLocksEntries

\* One business at a time: requests that decided are about different ones, and no synchronisation counts meanwhile.
LEMMA Alone ==
    ASSUME Types, Exclusive, Shapes, KnownRows, NEW q \in Panels, Decided(q)
    PROVE /\ \A s \in Syncs : ~Counted(s)
          /\ \A p \in Panels : p # q /\ Decided(p) => panels[p].business # panels[q].business
<1> DEFINE row == BusinessRow(panels[q].business)
<1>1. row \in held[q] /\ panels[q].business \in Businesses /\ panels[q].business <= existing /\ q \in Procs /\ q \notin Syncs
  BY DecidedHoldTheirs, HolidayAssumption DEF KnownRows, Decided, Procs
<1>2. Conflict(row, row)
  BY DEF Conflict, BusinessRow
<1>3. \A p \in Procs : p # q => row \notin held[p]
  BY <1>1, <1>2 DEF Exclusive
<1>4. \A s \in Syncs : ~Counted(s)
  BY <1>1, <1>3, CountedHoldAll DEF Procs
<1>5. \A p \in Panels : p # q /\ Decided(p) => panels[p].business # panels[q].business
  BY <1>3, DecidedHoldTheirs DEF Procs
<1> QED BY <1>4, <1>5

-----------------------------------------------------------------------------
(* How rows, requests and holidays change *)

Acts(q, op) == Answer(q) /\ panels[q] # Nil /\ panels[q].verdict = "yes" /\ panels[q].op = op

LEMMA OthersLeaveRows ==
    ASSUME Step PROVE \/ UNCHANGED <<appts, applies>>
                      \/ Begins
                      \/ \E q \in Panels : Acts(q, panels[q].op)
<1>1. ASSUME NEW s \in Syncs, Start(s) \/ Fetch(s) \/ Count(s) \/ Publishes(s) \/ SaveFailure(s) PROVE UNCHANGED <<appts, applies>>
  BY <1>1 DEF Start, Fetch, Count, Publishes, Commit, CommitUnheard, Publish, SaveFailure, agenda
<1>2. ASSUME NEW s \in Syncs, Stops(s) PROVE UNCHANGED <<appts, applies>>
  BY <1>2 DEF Stops, FetchFails, Aborts, LosesConnection, Dies, agenda
<1>3. ASSUME NEW q \in Panels, PanelAsks(q) \/ Decide(q) PROVE UNCHANGED <<appts, applies>>
  BY <1>3 DEF PanelAsks, AskBook, AskAbout, AskSwitch, AskClose, Asks, Decide, agenda
<1>4. ASSUME NEW q \in Panels, Answer(q) PROVE UNCHANGED <<appts, applies>> \/ Acts(q, panels[q].op)
  BY <1>4 DEF Answer, Acts
<1>5. ASSUME \/ \E o \in Owners : OwnerAsks(o) \/ OwnerDone(o)
             \/ \E p \in Procs : Take(p) \/ Victim(p)
             \/ CreateBusiness \/ UNCHANGED vars
      PROVE UNCHANGED <<appts, applies>>
  BY <1>5 DEF OwnerAsks, OwnerDone, Take, Victim, CreateBusiness, vars, agenda
<1> QED BY <1>1, <1>2, <1>3, <1>4, <1>5 DEF Step

\* An appointment keeps its business and its day, and is confirmed only when it is booked.
LEMMA ApptsEvolve ==
    ASSUME Types, KnownRows, Step, NEW a \in Appts
    PROVE /\ appts[a] # Nil => /\ appts'[a] # Nil /\ appts'[a].business = appts[a].business /\ appts'[a].day = appts[a].day
                               /\ Confirmed(a)' => Confirmed(a)
                               /\ appts'[a].state = "cancelled" /\ appts[a].state # "cancelled"
                                     => \E q \in Panels : Acts(q, "cancel") /\ panels[q].appt = a
          /\ appts[a] = Nil /\ appts'[a] # Nil => \E q \in Panels :
                Acts(q, "book") /\ panels[q].appt = a
                /\ appts'[a].business = panels[q].business /\ appts'[a].day = panels[q].day
<1>0. appts[a] # Nil => appts[a] \in ApptRows
  BY NilIsNoRow
<1>1. CASE UNCHANGED appts
  BY <1>1 DEF Confirmed
<1>2. CASE Begins
  <2>1. PICK c \in Appts : Confirmed(c) /\ appts' = [appts EXCEPT ![c].state = "started"]
    BY <1>2 DEF Begins
  <2>2. CASE a = c
    <3>1. appts[a] # Nil /\ appts'[a] = [appts[a] EXCEPT !.state = "started"]
      BY <2>1, <2>2 DEF Types, Confirmed
    <3>2. appts'[a] \in ApptRows /\ appts'[a].business = appts[a].business /\ appts'[a].day = appts[a].day /\ appts'[a].state = "started"
      BY <1>0, <3>1 DEF ApptRows
    <3> QED BY <3>1, <3>2, MarkAssumption DEF Confirmed
  <2>3. CASE a # c
    BY <2>1, <2>3 DEF Types, Confirmed
  <2> QED BY <2>2, <2>3
<1>3. ASSUME NEW q \in Panels, Acts(q, panels[q].op), ~UNCHANGED appts
      PROVE /\ appts[a] # Nil => /\ appts'[a] # Nil /\ appts'[a].business = appts[a].business /\ appts'[a].day = appts[a].day
                                 /\ Confirmed(a)' => Confirmed(a)
                                 /\ appts'[a].state = "cancelled" /\ appts[a].state # "cancelled"
                                       => Acts(q, "cancel") /\ panels[q].appt = a
            /\ appts[a] = Nil /\ appts'[a] # Nil =>
                  Acts(q, "book") /\ panels[q].appt = a
                  /\ appts'[a].business = panels[q].business /\ appts'[a].day = panels[q].day
  <2> DEFINE r == panels[q]
  <2>1. Effect(r) /\ r # Nil
    BY <1>3 DEF Acts, Answer
  <2>2. CASE r.op = "book"
    <3>1. appts[r.appt] = Nil /\ appts' = [appts EXCEPT ![r.appt] = [business |-> r.business, day |-> r.day, state |-> "confirmed"]]
      BY <2>1, <2>2 DEF Effect, KnownRows
    <3>2. a # r.appt => appts'[a] = appts[a]
      BY <3>1 DEF Types
    <3>3. a = r.appt => appts'[a] = [business |-> r.business, day |-> r.day, state |-> "confirmed"]
      BY <3>1 DEF Types
    <3> QED BY <1>3, <2>2, <3>1, <3>2, <3>3 DEF Confirmed
  <2>3. CASE r.op = "cancel"
    <3>1. appts[r.appt] # Nil /\ appts' = [appts EXCEPT ![r.appt].state = "cancelled"]
      BY <2>1, <2>3 DEF Effect, KnownRows
    <3>2. CASE a # r.appt
      BY <3>1, <3>2 DEF Types, Confirmed
    <3>3. CASE a = r.appt
      <4>1. appts'[a] = [appts[a] EXCEPT !.state = "cancelled"] /\ appts[a] # Nil
        BY <3>1, <3>3 DEF Types
      <4>2. appts'[a] \in ApptRows /\ appts'[a].business = appts[a].business /\ appts'[a].day = appts[a].day /\ appts'[a].state = "cancelled"
        BY <1>0, <4>1 DEF ApptRows
      <4> QED BY <1>3, <2>3, <3>3, <4>1, <4>2, MarkAssumption DEF Confirmed
    <3> QED BY <3>2, <3>3
  <2>4. CASE r.op = "close"
    <3>1. appts' = [c \in Appts |-> IF appts[c] # Nil /\ appts[c].state = "started"
                                    THEN [appts[c] EXCEPT !.state = "closed"] ELSE appts[c]]
      BY <2>1, <2>4 DEF Effect
    <3>2. CASE appts[a] # Nil /\ appts[a].state = "started"
      <4>1. appts'[a] = [appts[a] EXCEPT !.state = "closed"]
        BY <3>1, <3>2
      <4>2. appts'[a] \in ApptRows /\ appts'[a].business = appts[a].business /\ appts'[a].day = appts[a].day /\ appts'[a].state = "closed"
        BY <1>0, <3>2, <4>1 DEF ApptRows
      <4> QED BY <3>2, <4>1, <4>2, MarkAssumption DEF Confirmed
    <3>3. CASE ~(appts[a] # Nil /\ appts[a].state = "started")
      BY <3>1, <3>3 DEF Confirmed
    <3> QED BY <3>2, <3>3
  <2>5. CASE r.op \notin {"book", "cancel", "close"}
    BY <1>3, <2>1, <2>5 DEF Effect
  <2> QED BY <2>2, <2>3, <2>4, <2>5
<1> QED BY <1>1, <1>2, <1>3, OthersLeaveRows

LEMMA AppliesEvolve ==
    ASSUME Types, Step, NEW b \in Businesses
    PROVE applies'[b] = applies[b] \/ \E q \in Panels : Acts(q, "switch") /\ panels[q].business = b
                                                         /\ applies'[b] = ~applies[b]
<1>1. ASSUME Begins PROVE UNCHANGED applies
  BY <1>1 DEF Begins
<1>2. ASSUME NEW q \in Panels, Acts(q, panels[q].op), applies'[b] # applies[b]
      PROVE Acts(q, "switch") /\ panels[q].business = b /\ applies'[b] = ~applies[b]
  <2>1. applies' = IF panels[q].op = "switch" THEN [applies EXCEPT ![panels[q].business] = ~@] ELSE applies
    BY <1>2 DEF Acts, Answer, Effect
  <2> QED BY <1>2, <2>1 DEF Types, Acts
<1> QED BY <1>1, <1>2, OthersLeaveRows

LEMMA HolidaysEvolve == ASSUME Types, Step PROVE UNCHANGED holidays \/ \E s \in Syncs : syncs[s] # Nil /\ Publish(s)
<1>1. ASSUME NEW s \in Syncs, Start(s) \/ Fetch(s) \/ Count(s) \/ SaveFailure(s) PROVE UNCHANGED holidays
  BY <1>1 DEF Start, Fetch, Count, SaveFailure, catalogue
<1>2. ASSUME NEW s \in Syncs, Stops(s) PROVE UNCHANGED holidays
  BY <1>2 DEF Stops, FetchFails, Aborts, LosesConnection, Dies, catalogue
<1>3. ASSUME NEW q \in Panels, PanelAsks(q) \/ Decide(q) \/ Answer(q) PROVE UNCHANGED holidays
  BY <1>3 DEF PanelAsks, AskBook, AskAbout, AskSwitch, AskClose, Asks, Decide, Answer, catalogue
<1>4. ASSUME NEW s \in Syncs, Publishes(s) PROVE Publish(s)
  BY <1>4 DEF Publishes, Commit, CommitUnheard
<1>5. ASSUME \/ \E o \in Owners : OwnerAsks(o) \/ OwnerDone(o)
             \/ \E p \in Procs : Take(p) \/ Victim(p)
             \/ CreateBusiness \/ Begins \/ UNCHANGED vars
      PROVE UNCHANGED holidays
  BY <1>5 DEF OwnerAsks, OwnerDone, Take, Victim, CreateBusiness, Begins, vars, catalogue
<1> QED BY <1>1, <1>2, <1>3, <1>4, <1>5 DEF Step

LEMMA PanelsEvolve ==
    ASSUME Types, KnownRows, Step, NEW q \in Panels, panels'[q] # Nil, panels'[q] # panels[q]
    PROVE Decide(q) \/ \E op, b, d, a, ls : Arrives(q, op, b, d, a, ls)
<1>1. ASSUME NEW s \in Syncs, Start(s) \/ Fetch(s) \/ Count(s) \/ Publishes(s) \/ SaveFailure(s) PROVE UNCHANGED panels
  BY <1>1 DEF Start, Fetch, Count, Publishes, Commit, CommitUnheard, Publish, SaveFailure
<1>2. ASSUME NEW s \in Syncs, Stops(s) PROVE UNCHANGED panels
  BY <1>2 DEF Stops, FetchFails, Aborts, LosesConnection, Dies
<1>3. ASSUME NEW p \in Panels, PanelAsks(p) \/ Decide(p) \/ Answer(p) PROVE p = q /\ ~Answer(p)
  BY <1>3 DEF PanelAsks, AskBook, AskAbout, AskSwitch, AskClose, Asks, Decide, Answer, Types
<1>4. ASSUME NEW p \in Procs, Victim(p) PROVE FALSE
  BY <1>4 DEF Victim, Types
<1>5. ASSUME \/ \E o \in Owners : OwnerAsks(o) \/ OwnerDone(o)
             \/ \E p \in Procs : Take(p)
             \/ CreateBusiness \/ Begins \/ UNCHANGED vars
      PROVE UNCHANGED panels
  BY <1>5 DEF OwnerAsks, OwnerDone, Take, CreateBusiness, Begins, vars
<1> QED BY <1>1, <1>2, <1>3, <1>4, <1>5, ArrivesMeans DEF Step

LEMMA ExistingGrows == ASSUME Types, Step PROVE existing <= existing'
<1>1. ASSUME NEW s \in Syncs, Start(s) \/ Fetch(s) \/ Count(s) \/ Publishes(s) \/ SaveFailure(s) PROVE UNCHANGED existing
  BY <1>1 DEF Start, Fetch, Count, Publishes, Commit, CommitUnheard, Publish, SaveFailure, agenda
<1>2. ASSUME NEW s \in Syncs, Stops(s) PROVE UNCHANGED existing
  BY <1>2 DEF Stops, FetchFails, Aborts, LosesConnection, Dies, agenda
<1>3. ASSUME NEW q \in Panels, PanelAsks(q) \/ Decide(q) \/ Answer(q) PROVE UNCHANGED existing
  BY <1>3 DEF PanelAsks, AskBook, AskAbout, AskSwitch, AskClose, Asks, Decide, Answer, agenda
<1>4. ASSUME \/ \E o \in Owners : OwnerAsks(o) \/ OwnerDone(o)
             \/ \E p \in Procs : Take(p) \/ Victim(p)
             \/ Begins \/ UNCHANGED vars
      PROVE UNCHANGED existing
  BY <1>4 DEF OwnerAsks, OwnerDone, Take, Victim, Begins, vars, agenda
<1>5. existing \in Nat
  BY BusinessNumbers DEF Types
<1>6. CreateBusiness => existing' = existing + 1
  BY DEF CreateBusiness
<1> QED BY <1>1, <1>2, <1>3, <1>4, <1>5, <1>6 DEF Step

LEMMA ArrivesFrame ==
    ASSUME Types, NEW q \in Panels, NEW op, NEW b, NEW d, NEW a, NEW ls, Arrives(q, op, b, d, a, ls)
    PROVE /\ panels[q] = Nil /\ UNCHANGED <<appts, applies, holidays, existing>>
          /\ \A p \in Panels : p # q => panels'[p] = panels[p]
          /\ panels'[q].op = op /\ panels'[q].business = b /\ panels'[q].day = d /\ panels'[q].appt = a
          /\ panels'[q].verdict = "none" /\ op \in {"book", "cancel", "keep", "switch", "close"}
<1>1. panels'[q] = [op |-> op, business |-> b, day |-> d, appt |-> a, verdict |-> "none"]
  BY DEF Arrives, Asks, Types
<1> QED BY <1>1 DEF Arrives, Asks, agenda, catalogue, Types

\* What a step leaves of a request: nothing, the request, or the request with its verdict.
LEMMA PanelsKeep ==
    ASSUME Types, KnownRows, Step, NEW q \in Panels, panels'[q] # Nil
    PROVE \/ panels'[q] = panels[q]
          \/ Decide(q) /\ panels[q] # Nil /\ UNCHANGED <<appts, applies, holidays, existing>>
             /\ (\A p \in Panels : p # q => panels'[p] = panels[p])
             /\ panels'[q] = [panels[q] EXCEPT !.verdict = IF Grants(panels[q]) THEN "yes" ELSE "no"]
             /\ panels'[q].op = panels[q].op /\ panels'[q].business = panels[q].business
             /\ panels'[q].day = panels[q].day /\ panels'[q].appt = panels[q].appt
          \/ \E op, b, d, a, ls : Arrives(q, op, b, d, a, ls)
<1>1. CASE Decide(q)
  <2>1. panels[q] \in PanelRows /\ panels[q] # Nil /\ UNCHANGED <<appts, applies, holidays, existing>>
        /\ \A p \in Panels : p # q => panels'[p] = panels[p]
    BY <1>1, NilIsNoRow DEF Decide, agenda, catalogue, Types
  <2>2. panels'[q] = [panels[q] EXCEPT !.verdict = IF Grants(panels[q]) THEN "yes" ELSE "no"]
    BY <1>1 DEF Decide, Types
  <2>3. \A v : /\ [panels[q] EXCEPT !.verdict = v].op = panels[q].op
               /\ [panels[q] EXCEPT !.verdict = v].business = panels[q].business
               /\ [panels[q] EXCEPT !.verdict = v].day = panels[q].day
               /\ [panels[q] EXCEPT !.verdict = v].appt = panels[q].appt
    BY <2>1 DEF PanelRows
  <2> QED BY <1>1, <2>1, <2>2, <2>3
<1> QED BY <1>1, PanelsEvolve

LEMMA KnownRowsStep == ASSUME Types, KnownRows, Step PROVE KnownRows'
<1>0. existing \in Nat /\ existing' \in Nat /\ existing <= existing' /\ \A b \in Businesses : b \in Nat
  <2>1. Types => existing \in Nat
    BY BusinessNumbers DEF Types
  <2>2. existing' \in Nat
    <3>1. \/ UNCHANGED existing \/ existing' = existing + 1
      BY DEF Step, Start, Fetch, Count, Publishes, Commit, CommitUnheard, Publish, SaveFailure, Stops, FetchFails, Aborts,
             LosesConnection, Dies, PanelAsks, AskBook, AskAbout, AskSwitch, AskClose, Asks, Decide, Answer,
             OwnerAsks, OwnerDone, Take, Victim, CreateBusiness, Begins, vars, agenda
    <3> QED BY <2>1, <3>1
  <2> QED BY <2>1, <2>2, ExistingGrows, BusinessNumbers
<1>1. ASSUME NEW a \in Appts, appts'[a] # Nil PROVE appts'[a].business <= existing'
  <2>1. CASE appts[a] # Nil
    <3>1. appts[a].business <= existing /\ appts[a].business \in Businesses /\ appts'[a].business = appts[a].business
      BY <2>1, ApptsEvolve, NilIsNoRow DEF KnownRows, ApptRows
    <3> QED BY <1>0, <3>1
  <2>2. CASE appts[a] = Nil
    <3>1. PICK q \in Panels : panels[q] # Nil /\ appts'[a].business = panels[q].business
      BY <1>1, <2>2, ApptsEvolve DEF Acts
    <3>2. panels[q].business <= existing /\ panels[q].business \in Businesses
      BY <3>1, NilIsNoRow DEF KnownRows, PanelRows
    <3> QED BY <1>0, <3>1, <3>2
  <2> QED BY <2>1, <2>2
<1>2. ASSUME NEW q \in Panels, panels'[q] # Nil PROVE panels'[q].business <= existing'
  <2>1. CASE panels[q] # Nil /\ panels'[q].business = panels[q].business
    <3>1. panels[q].business <= existing /\ panels[q].business \in Businesses
      BY <2>1, NilIsNoRow DEF KnownRows, PanelRows
    <3> QED BY <1>0, <2>1, <3>1
  <2>2. ASSUME NEW op, NEW b, NEW d, NEW a, NEW ls, Arrives(q, op, b, d, a, ls) PROVE panels'[q].business <= existing'
    <3>1. panels'[q].business = b
      BY <2>2, ArrivesFrame
    <3>2. b <= existing /\ b \in Businesses
      BY <2>2 DEF Arrives
    <3> QED BY <1>0, <3>1, <3>2
  <2> QED BY <1>2, <2>1, <2>2, PanelsKeep
<1>3. ASSUME NEW q \in Panels, panels'[q] # Nil, panels'[q].op = "book"
      PROVE /\ panels'[q].day # Nil /\ panels'[q].appt # Nil /\ appts'[panels'[q].appt] = Nil
            /\ \A p \in Panels : panels'[p] # Nil /\ p # q => panels'[p].appt # panels'[q].appt
  <2>1. CASE panels'[q] = panels[q]
    <3>1. /\ panels[q].day # Nil /\ panels[q].appt # Nil /\ appts[panels[q].appt] = Nil /\ panels[q].appt \in Appts
          /\ \A p \in Panels : panels[p] # Nil /\ p # q => panels[p].appt # panels[q].appt
      BY <1>3, <2>1, NilIsNoRow DEF KnownRows, PanelRows
    <3>2. ASSUME appts'[panels[q].appt] # Nil PROVE FALSE
      <4>1. PICK p \in Panels : Acts(p, "book") /\ panels[p].appt = panels[q].appt
        BY <3>1, <3>2, ApptsEvolve
      <4>2. p = q
        BY <3>1, <4>1 DEF Acts
      <4> QED BY <1>3, <4>1, <4>2 DEF Acts, Answer, Types
    <3>3. ASSUME NEW p \in Panels, panels'[p] # Nil, p # q PROVE panels'[p].appt # panels[q].appt
      <4>1. CASE panels'[p] = panels[p]
        BY <3>1, <3>3, <4>1
      <4>2. CASE panels[p] # Nil /\ panels'[p].appt = panels[p].appt
        BY <3>1, <3>3, <4>2
      <4>3. ASSUME NEW op, NEW b, NEW d, NEW a, NEW ls, Arrives(p, op, b, d, a, ls)
            PROVE panels'[p].appt # panels[q].appt
        <5>1. panels'[p].appt = a
          BY <4>3, ArrivesFrame
        <5>2. op = "book" => NewKey(a)
          BY <4>3 DEF Arrives
        <5>3. op \in {"cancel", "keep"} => appts[a] # Nil
          BY <4>3 DEF Arrives
        <5>4. op \in {"switch", "close"} => a = Nil
          BY <4>3 DEF Arrives
        <5>5. op \in {"book", "cancel", "keep", "switch", "close"}
          BY <4>3, ArrivesFrame
        <5> QED BY <1>3, <2>1, <3>1, <5>1, <5>2, <5>3, <5>4, <5>5 DEF NewKey
      <4> QED BY <3>3, <4>1, <4>2, <4>3, PanelsKeep
    <3> QED BY <2>1, <3>1, <3>2, <3>3
  <2>2. CASE panels'[q] # panels[q] /\ Decide(q)
    <3>1. /\ panels[q] # Nil /\ panels[q].op = "book" /\ panels'[q].day = panels[q].day /\ panels'[q].appt = panels[q].appt
          /\ UNCHANGED appts /\ \A p \in Panels : p # q => panels'[p] = panels[p]
      <4>1. ASSUME NEW op, NEW b, NEW d, NEW a, NEW ls, Arrives(q, op, b, d, a, ls) PROVE FALSE
        BY <2>2, <4>1, ArrivesFrame DEF Decide
      <4> QED BY <1>3, <2>2, <4>1, PanelsKeep
    <3> QED BY <3>1 DEF KnownRows
  <2>3. ASSUME NEW op, NEW b, NEW d, NEW a, NEW ls, Arrives(q, op, b, d, a, ls)
        PROVE /\ panels'[q].day # Nil /\ panels'[q].appt # Nil /\ appts'[panels'[q].appt] = Nil
              /\ \A p \in Panels : panels'[p] # Nil /\ p # q => panels'[p].appt # panels'[q].appt
    <3>1. op = "book" /\ panels'[q].appt = a /\ panels'[q].day = d /\ UNCHANGED appts
          /\ \A p \in Panels : p # q => panels'[p] = panels[p]
      BY <1>3, <2>3, ArrivesFrame
    <3>2. NewKey(a) /\ d # Nil /\ a # Nil
      BY <2>3, <3>1 DEF Arrives
    <3> QED BY <3>1, <3>2 DEF NewKey
  <2> QED BY <1>3, <2>1, <2>2, <2>3, PanelsKeep
<1>4. ASSUME NEW q \in Panels, panels'[q] # Nil, panels'[q].op \in {"cancel", "keep"}
      PROVE /\ panels'[q].appt # Nil /\ appts'[panels'[q].appt] # Nil
            /\ panels'[q].business = appts'[panels'[q].appt].business /\ panels'[q].day = appts'[panels'[q].appt].day
  <2>1. CASE panels[q] # Nil /\ panels'[q].op = panels[q].op /\ panels'[q].business = panels[q].business
             /\ panels'[q].day = panels[q].day /\ panels'[q].appt = panels[q].appt
    <3>1. /\ panels[q].appt # Nil /\ appts[panels[q].appt] # Nil /\ panels[q].appt \in Appts
          /\ panels[q].business = appts[panels[q].appt].business /\ panels[q].day = appts[panels[q].appt].day
      BY <1>4, <2>1, NilIsNoRow DEF KnownRows, PanelRows
    <3> QED BY <2>1, <3>1, ApptsEvolve
  <2>2. ASSUME NEW op, NEW b, NEW d, NEW a, NEW ls, Arrives(q, op, b, d, a, ls)
        PROVE /\ panels'[q].appt # Nil /\ appts'[panels'[q].appt] # Nil
              /\ panels'[q].business = appts'[panels'[q].appt].business /\ panels'[q].day = appts'[panels'[q].appt].day
    <3>1. op \in {"cancel", "keep"} /\ panels'[q].appt = a /\ panels'[q].day = d /\ panels'[q].business = b /\ UNCHANGED appts
      BY <1>4, <2>2, ArrivesFrame
    <3> QED BY <2>2, <3>1 DEF Arrives
  <2> QED BY <1>4, <2>1, <2>2, PanelsKeep
<1> QED BY <1>1, <1>2, <1>3, <1>4 DEF KnownRows

-----------------------------------------------------------------------------
(* What was found still stands *)

\* While a request has decided, its business's rules and the holidays are as it saw them.
LEMMA DecidedSeeTheSame ==
    ASSUME Types, Exclusive, Shapes, RunInv, KnownRows, Step, NEW q \in Panels, Decided(q), ~Answer(q)
    PROVE /\ UNCHANGED holidays /\ applies'[panels[q].business] = applies[panels[q].business]
          /\ \A p \in Panels, op \in {"book", "cancel", "switch"} :
                Acts(p, op) => panels[p].business # panels[q].business
<1>1. \A s \in Syncs : ~(syncs[s] # Nil /\ Publish(s))
  BY Alone DEF Publish, Counted
<1>2. ASSUME NEW p \in Panels, NEW op \in {"book", "cancel", "switch"}, Acts(p, op)
      PROVE panels[p].business # panels[q].business
  <2>1. Decided(p) /\ p # q
    BY <1>2 DEF Acts, Decided
  <2> QED BY <2>1, Alone
<1>3. panels[q].business \in Businesses
  BY DEF Types, Decided, PanelRows
<1> QED BY <1>1, <1>2, <1>3, HolidaysEvolve, AppliesEvolve

LEMMA SwitchStillStands ==
    ASSUME Types, Exclusive, Shapes, RunInv, KnownRows, Step, NEW q \in Panels, Decided(q), ~Answer(q),
           panels'[q] = panels[q], GrantsSwitch(panels[q])
    PROVE GrantsSwitch(panels[q])'
<1> DEFINE b == panels[q].business
<1>1. UNCHANGED holidays /\ applies'[b] = applies[b]
  BY DecidedSeeTheSame
<1>2. ASSUME NEW a \in Appts, Confirmed(a)', appts'[a].business = b PROVE Confirmed(a) /\ appts[a].business = b /\ appts'[a].day = appts[a].day
  <2>1. appts'[a] # Nil
    BY <1>2 DEF Confirmed
  <2>2. CASE appts[a] = Nil
    <3>1. PICK p \in Panels : Acts(p, "book") /\ appts'[a].business = panels[p].business
      BY <2>1, <2>2, ApptsEvolve
    <3> QED BY <1>2, <3>1, DecidedSeeTheSame
  <2>3. CASE appts[a] # Nil
    BY <1>2, <2>3, ApptsEvolve
  <2> QED BY <2>2, <2>3
<1>3. CASE applies[b]
  BY <1>1, <1>3 DEF GrantsSwitch
<1>4. CASE ~applies[b]
  <2>1. \A a \in Appts : Confirmed(a) /\ appts[a].business = b => holidays[appts[a].day] = Nil
    BY <1>4 DEF GrantsSwitch
  <2>2. \A a \in Appts : Confirmed(a)' /\ appts'[a].business = b => holidays'[appts'[a].day] = Nil
    BY <1>1, <1>2, <2>1
  <2> QED BY <2>2 DEF GrantsSwitch
<1> QED BY <1>3, <1>4

LEMMA VerdictStep == ASSUME Types, Exclusive, Shapes, RunInv, KnownRows, VerdictInv, Step PROVE VerdictInv'
<1> SUFFICES ASSUME NEW q \in Panels, panels'[q] # Nil, panels'[q].verdict = "yes" PROVE StandsFor(panels[q])'
  BY DEF VerdictInv
<1>1. CASE panels'[q] = panels[q] /\ panels[q].op \in {"book", "keep", "switch"}
  <2>1. Decided(q) /\ StandsFor(panels[q]) /\ ~Answer(q)
    BY <1>1 DEF Decided, VerdictInv, Answer, Types
  <2>2. UNCHANGED holidays /\ applies'[panels[q].business] = applies[panels[q].business]
    BY <2>1, DecidedSeeTheSame
  <2>3. CASE panels[q].op = "book"
    BY <1>1, <2>1, <2>2, <2>3 DEF StandsFor
  <2>4. CASE panels[q].op = "keep"
    <3>1. /\ panels[q].appt # Nil /\ appts[panels[q].appt] # Nil /\ panels[q].appt \in Appts
          /\ panels[q].business = appts[panels[q].appt].business
      BY <1>1, <2>4, NilIsNoRow DEF KnownRows, PanelRows
    <3>2. PICK a \in Appts : a = panels[q].appt
      BY <3>1
    <3>3. ASSUME appts'[a].state = "cancelled" PROVE FALSE
      <4>1. appts[a].state # "cancelled"
        BY <2>1, <2>4, <3>2 DEF StandsFor
      <4>2. PICK p \in Panels : Acts(p, "cancel") /\ panels[p].appt = a
        BY <3>1, <3>2, <3>3, <4>1, ApptsEvolve
      <4>3. panels[p].business = appts[a].business
        BY <3>2, <4>2 DEF Acts, KnownRows
      <4> QED BY <2>1, <3>1, <3>2, <4>2, <4>3, DecidedSeeTheSame
    <3>4. appts'[a].day = appts[a].day
      BY <3>1, <3>2, ApptsEvolve
    <3> QED BY <1>1, <2>1, <2>2, <2>4, <3>2, <3>3, <3>4 DEF StandsFor
  <2>5. CASE panels[q].op = "switch"
    <3>1. GrantsSwitch(panels[q])'
      BY <1>1, <2>1, <2>5, SwitchStillStands DEF StandsFor
    <3> QED BY <1>1, <2>5, <3>1 DEF StandsFor
  <2> QED BY <1>1, <2>3, <2>4, <2>5
<1>2. CASE panels'[q] = panels[q] /\ panels[q].op \notin {"book", "keep", "switch"}
  BY <1>2 DEF StandsFor
<1>3. CASE panels'[q] # panels[q]
  <2>1. /\ Decide(q) /\ panels[q] # Nil /\ UNCHANGED <<appts, applies, holidays, existing>>
        /\ panels'[q] = [panels[q] EXCEPT !.verdict = IF Grants(panels[q]) THEN "yes" ELSE "no"]
        /\ panels'[q].op = panels[q].op /\ panels'[q].business = panels[q].business
        /\ panels'[q].day = panels[q].day /\ panels'[q].appt = panels[q].appt
    <3>1. ASSUME NEW op, NEW b, NEW d, NEW a, NEW ls, Arrives(q, op, b, d, a, ls) PROVE FALSE
      <4>1. panels'[q].verdict = "none"
        BY <3>1, ArrivesFrame
      <4> QED BY <4>1
    <3> QED BY <1>3, <3>1, PanelsKeep
  <2>2. Grants(panels[q])
    <3>1. panels[q] \in PanelRows
      BY <2>1, NilIsNoRow
    <3>2. \A v : [panels[q] EXCEPT !.verdict = v].verdict = v
      BY <3>1 DEF PanelRows
    <3> QED BY <2>1, <3>2
  <2>3. CASE panels[q].op = "book"
    BY <2>1, <2>2, <2>3 DEF StandsFor, Grants, GrantsBooking
  <2>4. CASE panels[q].op = "keep"
    <3>1. panels[q].day = appts[panels[q].appt].day
      BY <2>1, <2>4 DEF KnownRows
    <3>2. GrantsKeeping(panels[q])
      BY <2>2, <2>4 DEF Grants
    <3> QED BY <2>1, <2>4, <3>1, <3>2 DEF StandsFor, GrantsKeeping, Confirmed
  <2>5. CASE panels[q].op = "switch"
    <3>1. GrantsSwitch(panels[q])
      BY <2>2, <2>5 DEF Grants
    <3>2. GrantsSwitch(panels[q])'
      BY <2>1, <3>1 DEF GrantsSwitch, Confirmed
    <3> QED BY <2>1, <2>5, <3>2 DEF StandsFor
  <2>6. CASE panels[q].op \notin {"book", "keep", "switch"}
    BY <2>1, <2>6 DEF StandsFor
  <2> QED BY <2>3, <2>4, <2>5, <2>6
<1> QED BY <1>1, <1>2, <1>3

\* Whoever is counted now was counted before or is being counted.
LEMMA CountedBefore ==
    ASSUME Types, Step, NEW s \in Syncs, Counted(s)'
    PROVE (Counted(s) /\ syncs'[s] = syncs[s]) \/ (syncs[s] # Nil /\ Count(s))
<1>0. syncs[s] # Nil => syncs[s] \in SyncRows
  BY NilIsNoRow
<1>1. ASSUME NEW t \in Syncs, t # s,
             Start(t) \/ (syncs[t] # Nil /\ (Fetch(t) \/ Count(t) \/ Publishes(t) \/ Stops(t) \/ SaveFailure(t)))
      PROVE syncs'[s] = syncs[s]
  <2>1. \E v : syncs' = [syncs EXCEPT ![t] = v]
    <3>1. CASE Start(t)
      BY <3>1 DEF Start
    <3>2. CASE Fetch(t)
      <4>1. PICK answer : syncs' = [syncs EXCEPT ![t].at = "locking", ![t].answer = answer]
        BY <3>2 DEF Fetch
      <4>2. syncs' = [syncs EXCEPT ![t] = [syncs[t] EXCEPT !.at = "locking", !.answer = answer]]
        BY <4>1
      <4> QED BY <4>2
    <3>3. CASE Count(t)
      <4>1. syncs' = [syncs EXCEPT ![t] = [syncs[t] EXCEPT !.at = "counted", !.count = Affected(syncs[t].answer)]]
        BY <3>3 DEF Count
      <4> QED BY <4>1
    <3>4. CASE Publishes(t) \/ SaveFailure(t) \/ (syncs[t] # Nil /\ Stops(t))
      <4>1. syncs' = [syncs EXCEPT ![t] = Nil] \/ syncs' = [syncs EXCEPT ![t] = [syncs[t] EXCEPT !.at = "failing"]]
        BY <3>4, StopsMeans DEF Publishes, Commit, CommitUnheard, SaveFailure
      <4> QED BY <4>1
    <3> QED BY <1>1, <3>1, <3>2, <3>3, <3>4
  <2> QED BY <1>1, <2>1 DEF Types
<1>2. CASE Start(s) \/ (syncs[s] # Nil /\ (Fetch(s) \/ Publishes(s) \/ Stops(s) \/ SaveFailure(s)))
  <2>1. CASE Start(s)
    <3>1. PICK y : syncs' = [syncs EXCEPT ![s] = [at |-> "downloading", year |-> y, run |-> Len(runs) + 1, answer |-> {}, count |-> {}]]
      BY <2>1 DEF Start
    <3> QED BY <3>1 DEF Types, Counted
  <2>2. CASE syncs[s] # Nil /\ Fetch(s)
    <3>1. PICK answer : syncs' = [syncs EXCEPT ![s].at = "locking", ![s].answer = answer]
      BY <2>2 DEF Fetch
    <3>2. syncs'[s] = [syncs[s] EXCEPT !.at = "locking", !.answer = answer]
      BY <3>1 DEF Types
    <3>3. syncs'[s].at = "locking"
      BY <1>0, <2>2, <3>2 DEF SyncRows
    <3> QED BY <3>3 DEF Counted
  <2>3. CASE syncs[s] # Nil /\ (Publishes(s) \/ Stops(s) \/ SaveFailure(s))
    <3>1. syncs' = [syncs EXCEPT ![s] = Nil] \/ syncs' = [syncs EXCEPT ![s].at = "failing"]
      BY <2>3, StopsMeans DEF Publishes, Commit, CommitUnheard, SaveFailure
    <3>2. syncs'[s] = Nil \/ syncs'[s] = [syncs[s] EXCEPT !.at = "failing"]
      BY <3>1 DEF Types
    <3>3. syncs'[s] = Nil \/ syncs'[s].at = "failing"
      BY <1>0, <2>3, <3>2 DEF SyncRows
    <3> QED BY <3>3 DEF Counted
  <2> QED BY <1>2, <2>1, <2>2, <2>3
<1>3. ASSUME NEW q \in Panels, PanelAsks(q) \/ Decide(q) \/ Answer(q) PROVE UNCHANGED syncs
  BY <1>3 DEF PanelAsks, AskBook, AskAbout, AskSwitch, AskClose, Asks, Decide, Answer
<1>4. ASSUME \/ \E o \in Owners : OwnerAsks(o) \/ OwnerDone(o)
             \/ \E p \in Procs : Take(p) \/ Victim(p)
             \/ CreateBusiness \/ Begins \/ UNCHANGED vars
      PROVE UNCHANGED syncs
  BY <1>4 DEF OwnerAsks, OwnerDone, Take, Victim, CreateBusiness, Begins, vars
<1>5. syncs'[s] = syncs[s] => Counted(s)
  BY DEF Counted
<1> QED BY <1>1, <1>2, <1>3, <1>4, <1>5 DEF Step

\* No booking and no switch of a business answers while a synchronisation has counted.
LEMMA CountedSeeTheSame ==
    ASSUME Types, Exclusive, Shapes, KnownRows, Step, NEW s \in Syncs, Counted(s), NEW a \in Appts, Confirmed(a)'
    PROVE Confirmed(a) /\ appts'[a].day = appts[a].day /\ appts'[a].business = appts[a].business
          /\ applies'[appts[a].business] = applies[appts[a].business]
<1>1. \A q \in Panels, op \in {"book", "switch"} : ~Acts(q, op)
  BY Alone DEF Acts, Decided
<1>2. appts'[a] # Nil
  BY DEF Confirmed
<1>3. appts[a] # Nil
  BY <1>1, <1>2, ApptsEvolve
<1>4. appts[a].business \in Businesses
  BY <1>3, NilIsNoRow DEF ApptRows
<1> QED BY <1>1, <1>3, <1>4, ApptsEvolve, AppliesEvolve

LEMMA CountStep == ASSUME Types, Exclusive, Shapes, KnownRows, CountInv, Step PROVE CountInv'
<1> SUFFICES ASSUME NEW s \in Syncs, Counted(s)', NEW a \in Affected(syncs[s].answer)' PROVE a \in syncs'[s].count
  BY DEF CountInv, Counted
<1>1. a \in Appts /\ Confirmed(a)' /\ appts'[a].day \in syncs'[s].answer /\ applies'[appts'[a].business]
  BY DEF Affected
<1>2. CASE Counted(s) /\ syncs'[s] = syncs[s]
  <2>1. Confirmed(a) /\ appts[a].day \in syncs[s].answer /\ applies[appts[a].business]
    BY <1>1, <1>2, CountedSeeTheSame
  <2>2. a \in Affected(syncs[s].answer)
    BY <1>1, <2>1 DEF Affected
  <2> QED BY <1>2, <2>2 DEF CountInv, Counted
<1>3. CASE syncs[s] # Nil /\ Count(s)
  <2>1. syncs[s] \in SyncRows /\ syncs'[s] = [syncs[s] EXCEPT !.at = "counted", !.count = Affected(syncs[s].answer)]
    BY <1>3, NilIsNoRow DEF Count, Types
  <2>2. syncs'[s].count = Affected(syncs[s].answer) /\ syncs'[s].answer = syncs[s].answer
    BY <2>1 DEF SyncRows
  <2>3. UNCHANGED <<appts, applies>>
    BY <1>3 DEF Count, agenda
  <2>4. a \in Affected(syncs[s].answer)
    BY <1>1, <2>2, <2>3 DEF Affected, Confirmed
  <2> QED BY <2>2, <2>4
<1> QED BY <1>2, <1>3, CountedBefore

\* An appointment that stands on a holiday its business honours
OnHoliday(a) == Confirmed(a) /\ applies[appts[a].business] /\ holidays[appts[a].day] # Nil

LEMMA CountedGrows == ASSUME Step PROVE counted \subseteq counted'
<1>1. ASSUME NEW s \in Syncs, Start(s) \/ Fetch(s) \/ Count(s) \/ Publishes(s) \/ SaveFailure(s) PROVE counted \subseteq counted'
  BY <1>1 DEF Start, Fetch, Count, Publishes, Commit, CommitUnheard, Publish, SaveFailure, catalogue
<1>2. ASSUME NEW s \in Syncs, Stops(s) PROVE counted \subseteq counted'
  BY <1>2 DEF Stops, FetchFails, Aborts, LosesConnection, Dies, catalogue
<1>3. ASSUME NEW q \in Panels, PanelAsks(q) \/ Decide(q) \/ Answer(q) PROVE counted \subseteq counted'
  BY <1>3 DEF PanelAsks, AskBook, AskAbout, AskSwitch, AskClose, Asks, Decide, Answer, catalogue
<1>4. ASSUME \/ \E o \in Owners : OwnerAsks(o) \/ OwnerDone(o)
             \/ \E p \in Procs : Take(p) \/ Victim(p)
             \/ CreateBusiness \/ Begins \/ UNCHANGED vars
      PROVE counted \subseteq counted'
  BY <1>4 DEF OwnerAsks, OwnerDone, Take, Victim, CreateBusiness, Begins, vars, catalogue
<1> QED BY <1>1, <1>2, <1>3, <1>4 DEF Step

\* Whoever comes to stand on a holiday is in the impact of the run that put it there.
LEMMA NewlyOnHoliday ==
    ASSUME Types, Exclusive, Shapes, RunInv, KnownRows, VerdictInv, CountInv, Step,
           NEW a \in Appts, OnHoliday(a)', ~OnHoliday(a)
    PROVE a \in counted'
<1>0. Confirmed(a)' /\ applies'[appts'[a].business] /\ holidays'[appts'[a].day] # Nil /\ appts'[a] # Nil
  BY DEF OnHoliday, Confirmed
\* A booking finds no holiday on its day.
<1>1. ASSUME appts[a] = Nil PROVE FALSE
  <2>1. PICK q \in Panels : Acts(q, "book") /\ panels[q].appt = a
                            /\ appts'[a].business = panels[q].business /\ appts'[a].day = panels[q].day
    BY <1>0, <1>1, ApptsEvolve
  <2>2. Decided(q) /\ StandsFor(panels[q]) /\ panels[q].business \in Businesses
    BY <2>1 DEF Acts, Decided, VerdictInv, Types, PanelRows
  <2>3. UNCHANGED <<applies, holidays>>
    BY <2>1 DEF Acts, Answer, Effect
  <2>4. applies[panels[q].business] => holidays[panels[q].day] = Nil
    BY <2>1, <2>2 DEF StandsFor, Acts
  <2> QED BY <1>0, <2>1, <2>3, <2>4
<1>2. Confirmed(a) /\ appts'[a].business = appts[a].business /\ appts'[a].day = appts[a].day
      /\ appts[a].business \in Businesses /\ appts[a].day \in Days
  BY <1>0, <1>1, ApptsEvolve, NilIsNoRow DEF ApptRows
\* A switch finds no confirmed appointment on a holiday.
<1>3. CASE ~applies[appts[a].business]
  <2>1. PICK q \in Panels : Acts(q, "switch") /\ panels[q].business = appts[a].business
    BY <1>0, <1>2, <1>3, AppliesEvolve
  <2>2. GrantsSwitch(panels[q]) /\ UNCHANGED holidays
    BY <2>1 DEF Acts, VerdictInv, StandsFor, Answer
  <2> QED BY <1>0, <1>2, <1>3, <2>1, <2>2 DEF GrantsSwitch
\* A synchronisation counted it.
<1>4. CASE applies[appts[a].business]
  <2>1. holidays[appts[a].day] = Nil
    BY <1>2, <1>4 DEF OnHoliday
  <2>2. PICK s \in Syncs : syncs[s] # Nil /\ Publish(s)
    BY <1>0, <1>2, <2>1, HolidaysEvolve
  <2>3. appts[a].day \in syncs[s].answer
    BY <1>0, <1>2, <2>1, <2>2 DEF Publish, Reconciled
  <2>4. a \in Affected(syncs[s].answer)
    BY <1>2, <1>4, <2>3 DEF Affected
  <2>5. a \in syncs[s].count
    BY <2>2, <2>4 DEF CountInv, Publish
  <2> QED BY <2>2, <2>5 DEF Publish
<1> QED BY <1>3, <1>4

LEMMA SlipsMeans == ASSUME Types, KnownRows PROVE NothingSlipsPast <=> \A a \in Appts : OnHoliday(a) => a \in counted
BY DEF NothingSlipsPast, OnHoliday, KnownRows, Confirmed

LEMMA HInvInit == Init => HInv
<1> SUFFICES ASSUME Init PROVE HInv
  OBVIOUS
<1>1. Types
  BY InitTypes
<1>2. Exclusive
  BY DEF Init, Exclusive
<1>3. Shapes
  BY DEF Init, Shapes, SyncShape, PanelShape, Procs
<1>4. RunInv
  BY DEF Init, RunInv, MayPublish
<1>5. KnownRows /\ VerdictInv /\ CountInv
  BY DEF Init, KnownRows, VerdictInv, CountInv
<1>6. NothingSlipsPast
  BY DEF Init, NothingSlipsPast, Confirmed
<1> QED BY <1>1, <1>2, <1>3, <1>4, <1>5, <1>6 DEF HInv

LEMMA HInvStep == HInv /\ [Next]_vars => HInv'
<1> SUFFICES ASSUME HInv, [Next]_vars PROVE HInv'
  OBVIOUS
<1>0. Types /\ Exclusive /\ Shapes /\ RunInv /\ KnownRows /\ VerdictInv /\ CountInv /\ NothingSlipsPast /\ Step
  BY NextIsStep DEF HInv
<1>1. Types' /\ Exclusive' /\ Shapes' /\ RunInv' /\ KnownRows'
  BY <1>0, TypesStep, ExclusiveStep, ShapesStep, RunStep, KnownRowsStep
<1>2. VerdictInv' /\ CountInv'
  BY <1>0, VerdictStep, CountStep
<1>3. NothingSlipsPast'
  <2>1. \A a \in Appts : OnHoliday(a) => a \in counted
    BY <1>0, SlipsMeans
  <2>2. \A a \in Appts : OnHoliday(a)' => a \in counted'
    BY <1>0, <2>1, NewlyOnHoliday, CountedGrows
  <2>3. \A a \in Appts : Confirmed(a)' /\ applies'[appts'[a].business] /\ holidays'[appts'[a].day] # Nil => a \in counted'
    BY <2>2 DEF OnHoliday
  <2> QED BY <2>3 DEF NothingSlipsPast
<1> QED BY <1>1, <1>2, <1>3 DEF HInv

LEMMA HInvAlways == HolidaySpec => []HInv
BY HInvInit, HInvStep, PTL DEF HolidaySpec

-----------------------------------------------------------------------------
(***************************************************************************)
(* Types; and a process holds a lock only while its transaction is open.   *)
(***************************************************************************)
THEOREM HolidayTypes == HolidaySpec => []HTypeOK
<1>1. HInv => HTypeOK
  <2> SUFFICES ASSUME HInv PROVE HTypeOK
    OBVIOUS
  <2>1. Types /\ Shapes
    BY DEF HInv
  <2>2. ASSUME NEW s \in Syncs, held[s] # {} PROVE syncs[s] # Nil /\ syncs[s].at \in {"locking", "counted"}
    <3>1. syncs[s] # Nil /\ syncs[s].at \notin {"downloading", "failing"}
      BY <2>1, <2>2 DEF Shapes, SyncShape
    <3> QED BY <2>1, <3>1, NilIsNoRow DEF SyncRows
  <2>3. \A q \in Panels : held[q] # {} => panels[q] # Nil
    BY <2>1 DEF Shapes, PanelShape
  <2> QED BY <2>1, <2>2, <2>3 DEF Types, HTypeOK
<1> QED BY <1>1, HInvAlways, PTL

(***************************************************************************)
(* A synchronisation that may still publish is never taken for an          *)
(* interrupted one, and no other works on its year.                        *)
(***************************************************************************)
THEOREM LiveRuns == HolidaySpec => []LiveRunIsNotInterrupted
<1>1. HInv => LiveRunIsNotInterrupted
  BY RunsAreLive DEF HInv
<1> QED BY <1>1, HInvAlways, PTL

(***************************************************************************)
(* No booking slips past a synchronisation: whoever stands on a holiday    *)
(* its business honours was in the impact of a run that succeeded.         *)
(***************************************************************************)
THEOREM NoBookingSlipsPast == HolidaySpec => []NothingSlipsPast
<1>1. HInv => NothingSlipsPast
  BY DEF HInv
<1> QED BY <1>1, HInvAlways, PTL

(***************************************************************************)
(* Synchronisations, bulk closes and panel requests never wait in a        *)
(* circle, for any number of them and of businesses.                       *)
(***************************************************************************)
THEOREM NoCalendarDeadlock == HolidaySpec => []CalendarsNeverDeadlock
<1>1. HInv => CalendarsNeverDeadlock
  BY NoCircle DEF HInv
<1> QED BY <1>1, HInvAlways, PTL

(***************************************************************************)
(* An acknowledgement stands for what is true when it is saved.            *)
(***************************************************************************)
THEOREM Kept == HolidaySpec => KeptWhileItStands
<1>1. ASSUME HInv, [Next]_vars, NEW a \in Appts, reviews[a] = Nil, reviews'[a] # Nil
      PROVE appts[a].state # "cancelled" /\ holidays[appts[a].day] # Nil /\ applies[appts[a].business]
  <2>0. Types /\ KnownRows /\ VerdictInv /\ Step
    BY <1>1, NextIsStep DEF HInv
  <2>1. ASSUME NEW s \in Syncs, Start(s) \/ Fetch(s) \/ Count(s) \/ Publishes(s) \/ SaveFailure(s) PROVE FALSE
    BY <1>1, <2>1 DEF Start, Fetch, Count, Publishes, Commit, CommitUnheard, Publish, SaveFailure, catalogue
  <2>2. ASSUME NEW s \in Syncs, Stops(s) PROVE FALSE
    BY <1>1, <2>2 DEF Stops, FetchFails, Aborts, LosesConnection, Dies, catalogue
  <2>3. ASSUME NEW q \in Panels, PanelAsks(q) \/ Decide(q) PROVE FALSE
    BY <1>1, <2>3 DEF PanelAsks, AskBook, AskAbout, AskSwitch, AskClose, Asks, Decide, catalogue
  <2>4. ASSUME \/ \E o \in Owners : OwnerAsks(o) \/ OwnerDone(o)
               \/ \E p \in Procs : Take(p) \/ Victim(p)
               \/ CreateBusiness \/ Begins \/ UNCHANGED vars
        PROVE FALSE
    BY <1>1, <2>4 DEF OwnerAsks, OwnerDone, Take, Victim, CreateBusiness, Begins, vars, catalogue
  <2>5. PICK q \in Panels : Answer(q)
    BY <2>0, <2>1, <2>2, <2>3, <2>4 DEF Step
  <2>6. panels[q] # Nil /\ panels[q].verdict = "yes" /\ panels[q].op = "keep" /\ panels[q].appt = a
    BY <1>1, <2>0, <2>5 DEF Answer, Effect, Types
  <2>7. StandsFor(panels[q]) /\ panels[q].business = appts[a].business
    BY <2>0, <2>6 DEF VerdictInv, KnownRows
  <2> QED BY <2>6, <2>7 DEF StandsFor
<1>2. HInv /\ [Next]_vars => [\A a \in Appts : reviews[a] = Nil /\ reviews'[a] # Nil =>
          /\ appts[a].state # "cancelled"
          /\ holidays[appts[a].day] # Nil
          /\ applies[appts[a].business]]_vars
  BY <1>1
<1> QED BY <1>2, HInvAlways, PTL DEF HolidaySpec, KeptWhileItStands

(***************************************************************************)
(* What the professional acknowledged never comes back to the queue.       *)
(***************************************************************************)
THEOREM Acknowledged == HolidaySpec => AcknowledgedForGood
<1>1. ASSUME HInv, [Next]_vars, NEW a \in Appts, reviews[a] # Nil PROVE a \notin PendingQueue'
  <2>0. Types /\ Step /\ reviews[a] \in {"linked", "unlinked"}
    BY <1>1, NextIsStep DEF HInv, Types
  <2>1. ASSUME NEW s \in Syncs, Publishes(s) PROVE reviews'[a] # Nil
    BY <1>1, <2>1, MarkAssumption DEF Publishes, Commit, CommitUnheard, Publish
  <2>2. ASSUME NEW q \in Panels, Answer(q) PROVE reviews'[a] # Nil
    BY <1>1, <2>0, <2>2, MarkAssumption DEF Answer, Effect, Types, Reviewed
  <2>3. ASSUME NEW s \in Syncs, Start(s) \/ Fetch(s) \/ Count(s) \/ SaveFailure(s) PROVE UNCHANGED reviews
    BY <2>3 DEF Start, Fetch, Count, SaveFailure, catalogue
  <2>4. ASSUME NEW s \in Syncs, Stops(s) PROVE UNCHANGED reviews
    BY <2>4 DEF Stops, FetchFails, Aborts, LosesConnection, Dies, catalogue
  <2>5. ASSUME NEW q \in Panels, PanelAsks(q) \/ Decide(q) PROVE UNCHANGED reviews
    BY <2>5 DEF PanelAsks, AskBook, AskAbout, AskSwitch, AskClose, Asks, Decide, catalogue
  <2>6. ASSUME \/ \E o \in Owners : OwnerAsks(o) \/ OwnerDone(o)
               \/ \E p \in Procs : Take(p) \/ Victim(p)
               \/ CreateBusiness \/ Begins \/ UNCHANGED vars
        PROVE UNCHANGED reviews
    BY <2>6 DEF OwnerAsks, OwnerDone, Take, Victim, CreateBusiness, Begins, vars, catalogue
  <2>7. reviews'[a] # Nil
    BY <1>1, <2>0, <2>1, <2>2, <2>3, <2>4, <2>5, <2>6 DEF Step
  <2> QED BY <2>7 DEF PendingQueue, Reviewed
<1>2. HInv /\ [Next]_vars => [\A a \in Appts : reviews[a] # Nil => a \notin PendingQueue']_vars
  BY <1>1
<1> QED BY <1>2, HInvAlways, PTL DEF HolidaySpec, AcknowledgedForGood
=============================================================================
