------------------------------- MODULE HolidaySync -------------------------------
(***************************************************************************)
(* The national holidays: synchronisations of one year with the BOE, the   *)
(* panel requests that lock a calendar meanwhile, and what the professional *)
(* acknowledges.  PostgreSQL's locks are explicit: a transaction asks for  *)
(* them in order, keeps them to its end, and waits for those that conflict. *)
(***************************************************************************)
EXTENDS Naturals, Sequences

CONSTANTS
    MaxBusinesses,   \* businesses are numbered by primary key
    Days, Years,     \* a year is the set of its days
    Syncs,           \* processes that may be synchronising
    Panels,          \* requests of professionals and customers
    Owners,          \* professionals confirming their address
    MaxRuns,         \* bound on the synchronisations ever started
    Appts,
    Nil

ASSUME HolidayAssumption ==
    /\ MaxBusinesses \in Nat \ {0} /\ MaxRuns \in Nat
    /\ \A y \in Years : y \subseteq Days
    /\ Syncs \cap (Panels \cup Owners) = {} /\ Panels \cap Owners = {}

VARIABLES
    existing,        \* how many businesses there are
    applies,         \* business: honours national holidays
    appts,           \* appointment: Nil or its row
    holidays,        \* day: Nil or the source of its national holiday
    reviews,         \* appointment: Nil, or whether the holiday's row is still linked
    runs,            \* HolidaySyncRun, in the order they start
    counted,         \* appointments some successful run reported
    guard,           \* year: the session that holds its advisory lock
    syncs, panels,   \* what each process is doing
    held, wants      \* process: locks it has, locks it still asks for, in order

vars == <<existing, applies, appts, holidays, reviews, runs, counted, guard, syncs, panels, held, wants>>
catalogue == <<holidays, reviews, runs, counted>>
agenda == <<existing, applies, appts>>
locks == <<held, wants>>

Businesses == 1 .. MaxBusinesses
Procs == Syncs \cup Panels \cup Owners

ApptRows  == [business : Businesses, day : Days, state : {"confirmed", "started", "closed", "cancelled"}]
RunRows   == [year : Years, status : {"success", "failed"}, finished : BOOLEAN, interrupted : BOOLEAN]
SyncRows  == [at : {"downloading", "locking", "counted", "failing"}, year : Years, run : 1 .. MaxRuns,
              answer : SUBSET Days, count : SUBSET Appts]
PanelRows == [op : {"book", "cancel", "keep", "switch", "close"}, business : Businesses, day : Days \cup {Nil},
              appt : Appts \cup {Nil}, verdict : {"none", "yes", "no"}]

ASSUME MarkAssumption ==
    /\ Nil \notin ApptRows /\ Nil \notin SyncRows /\ Nil \notin PanelRows
    /\ Nil \notin Syncs /\ Nil \notin Days /\ Nil \notin Appts /\ Nil \notin {"linked", "unlinked"}

-----------------------------------------------------------------------------
(* Locks *)

Boe            == [kind |-> "boe"]
Share          == [kind |-> "table", mode |-> "share"]
RowExclusive   == [kind |-> "table", mode |-> "row exclusive"]
Lines(b)       == [kind |-> "lines", business |-> b]
BusinessRow(b) == [kind |-> "business", business |-> b]
Locks == {Boe, Share, RowExclusive}
         \cup {Lines(b) : b \in Businesses} \cup {BusinessRow(b) : b \in Businesses}

Conflict(l, m) == IF l.kind = "table" /\ m.kind = "table" THEN l.mode # m.mode ELSE l = m

Blocks(q, p) == p # q /\ wants[p] # <<>> /\ \E l \in held[q] : Conflict(Head(wants[p]), l)
Free(p) == \A q \in Procs : ~Blocks(q, p)

\* PostgreSQL finds a circle of transactions each waiting for another.
Circle(ps) == \A p \in ps : \E q \in ps : Blocks(q, p)
Circles(ps) == \E qs \in SUBSET ps : qs # {} /\ Circle(qs)

\* lock_business_calendar; the settings row follows the business's and is nobody else's first lock
CalendarLocksTable(b) == <<RowExclusive, RowExclusive, RowExclusive>>
CalendarLocks(b) == <<RowExclusive, Lines(b), BusinessRow(b)>>

\* _lock_all_business_calendars enumerates them once it has the table
Calendars(n) == [i \in 1 .. 3 * n |-> CalendarLocks((i + 2) \div 3)[1 + ((i + 2) % 3)]]

\* The BOE's own lock keeps two years from sharing the table and then both asking for it whole.
SyncLocksTogether == <<Share>>
SyncLocks == <<Boe, Share>>

Take(p) ==
    /\ wants[p] # <<>> /\ Free(p)
    /\ held' = [held EXCEPT ![p] = @ \cup {Head(wants[p])}]
    /\ wants' = [wants EXCEPT ![p] =
                   IF Head(@) = Share THEN Tail(@) \o Calendars(existing) ELSE Tail(@)]
    /\ UNCHANGED <<catalogue, agenda, guard, syncs, panels>>

ReleasedLate(p) == /\ wants' = [wants EXCEPT ![p] = <<>>]
                   /\ UNCHANGED held
Released(p) == /\ held' = [held EXCEPT ![p] = {}]
               /\ wants' = [wants EXCEPT ![p] = <<>>]

-----------------------------------------------------------------------------
Init ==
    /\ existing \in 1 .. MaxBusinesses
    /\ applies \in [Businesses -> BOOLEAN] /\ \A b \in Businesses : b > existing => applies[b]
    /\ appts = [a \in Appts |-> Nil]
    /\ holidays \in [Days -> {Nil, "legacy", "other"}]
    /\ reviews = [a \in Appts |-> Nil]
    /\ runs = <<>>
    /\ counted = {}
    /\ guard = [y \in Years |-> Nil]
    /\ syncs = [s \in Syncs |-> Nil]
    /\ panels = [q \in Panels |-> Nil]
    /\ held = [p \in Procs |-> {}]
    /\ wants = [p \in Procs |-> <<>>]

-----------------------------------------------------------------------------
(* Synchronising a year *)

\* _mark_interrupted_boe_runs
Interrupted(run, y) == run.year = y /\ ~run.finished

\* pg_try_advisory_lock refuses a year that is being synchronised.
AvailableUnguarded(y) == TRUE
Available(y) == guard[y] = Nil

Start(s) == \E y \in Years :
    /\ syncs[s] = Nil /\ Available(y) /\ Len(runs) < MaxRuns
    /\ guard' = [guard EXCEPT ![y] = s]
    /\ runs' = Append([i \in DOMAIN runs |->
                         IF Interrupted(runs[i], y)
                         THEN [runs[i] EXCEPT !.finished = TRUE, !.interrupted = TRUE] ELSE runs[i]],
                       [year |-> y, status |-> "failed", finished |-> FALSE, interrupted |-> FALSE])
    /\ syncs' = [syncs EXCEPT ![s] = [at |-> "downloading", year |-> y, run |-> Len(runs) + 1, answer |-> {}, count |-> {}]]
    /\ UNCHANGED <<holidays, reviews, counted, agenda, panels, locks>>

Fetch(s) == \E answer \in SUBSET syncs[s].year \ {{}} :
    /\ syncs[s].at = "downloading"
    /\ syncs' = [syncs EXCEPT ![s].at = "locking", ![s].answer = answer]
    /\ wants' = [wants EXCEPT ![s] = SyncLocks]
    /\ UNCHANGED <<catalogue, agenda, guard, panels, held>>

Fails(s) ==
    /\ syncs[s].at \in {"downloading", "locking", "counted"}
    /\ syncs' = [syncs EXCEPT ![s].at = "failing"]
    /\ Released(s)

\* The BOE's answer, or the transaction, fails; the session and its year go on.
FetchFails(s) == Fails(s) /\ syncs[s].at = "downloading" /\ UNCHANGED <<catalogue, agenda, guard, panels>>
Aborts(s)     == Fails(s) /\ syncs[s].at # "downloading" /\ UNCHANGED <<catalogue, agenda, guard, panels>>

Own(s) == {y \in Years : guard[y] = s}
WithoutSession(s) == [y \in Years |-> IF guard[y] = s THEN Nil ELSE guard[y]]

\* The connection dies inside the transaction: so does the advisory lock, but not the process.
LosesConnection(s) ==
    /\ Fails(s) /\ syncs[s].at # "downloading"
    /\ guard' = WithoutSession(s)
    /\ UNCHANGED <<catalogue, agenda, panels>>

\* _finish_failed_boe_run, and the end of the guard
SaveFailure(s) ==
    /\ syncs[s].at = "failing"
    /\ runs' = [runs EXCEPT ![syncs[s].run] =
                  [@ EXCEPT !.status = "failed", !.finished = TRUE, !.interrupted = FALSE]]
    /\ guard' = WithoutSession(s)
    /\ syncs' = [syncs EXCEPT ![s] = Nil]
    /\ UNCHANGED <<holidays, reviews, counted, agenda, panels, locks>>

\* The process is killed: nothing is saved and PostgreSQL frees all it held.
Dies(s) ==
    /\ syncs[s] # Nil
    /\ syncs' = [syncs EXCEPT ![s] = Nil]
    /\ guard' = WithoutSession(s)
    /\ Released(s)
    /\ UNCHANGED <<catalogue, agenda, panels>>

Confirmed(a) == appts[a] # Nil /\ appts[a].state = "confirmed"

\* _locked_affected_future_appointments
Affected(answer) == {a \in Appts : Confirmed(a) /\ appts[a].day \in answer /\ applies[appts[a].business]}

Count(s) ==
    /\ syncs[s].at = "locking" /\ wants[s] = <<>>
    /\ syncs' = [syncs EXCEPT ![s].at = "counted", ![s].count = Affected(syncs[s].answer)]
    /\ UNCHANGED <<catalogue, agenda, guard, panels, locks>>

\* _reconcile_national_holidays
Withdrawn(s) == {d \in syncs[s].year :
                   \/ holidays[d] = "legacy"
                   \/ holidays[d] = "boe" /\ d \notin syncs[s].answer}
Reconciled(s) == [d \in Days |->
    IF d \notin syncs[s].year THEN holidays[d]
    ELSE IF d \in syncs[s].answer THEN (IF holidays[d] = "other" THEN "other" ELSE "boe")
    ELSE IF d \in Withdrawn(s) THEN Nil ELSE holidays[d]]

Publish(s) ==
    /\ syncs[s].at = "counted"
    /\ holidays' = Reconciled(s)
    /\ reviews' = [a \in Appts |-> IF reviews[a] # Nil /\ appts[a].day \in Withdrawn(s) THEN "unlinked" ELSE reviews[a]]
    /\ runs' = [runs EXCEPT ![syncs[s].run] = [@ EXCEPT !.status = "success", !.finished = TRUE]]
    /\ counted' = counted \cup syncs[s].count
    /\ guard' = WithoutSession(s)
    /\ Released(s)
    /\ UNCHANGED <<agenda, panels>>

Commit(s) == Publish(s) /\ syncs' = [syncs EXCEPT ![s] = Nil]
\* The commit happened but its answer was lost: the process believes it failed.
CommitUnheard(s) == Publish(s) /\ syncs' = [syncs EXCEPT ![s].at = "failing"]

Proceeds(s) == syncs[s] # Nil /\ (Fetch(s) \/ Count(s) \/ Commit(s))
Breaks(s)   == syncs[s] # Nil /\ (FetchFails(s) \/ Aborts(s) \/ LosesConnection(s) \/ CommitUnheard(s) \/ Dies(s))
Ends(s)     == syncs[s] # Nil /\ SaveFailure(s)
SyncStep(s) == Start(s) \/ Proceeds(s) \/ Breaks(s) \/ Ends(s)

-----------------------------------------------------------------------------
(* Requests that lock a calendar *)

Asks(q, op, b, d, a, ls) ==
    /\ panels[q] = Nil
    /\ panels' = [panels EXCEPT ![q] = [op |-> op, business |-> b, day |-> d, appt |-> a, verdict |-> "none"]]
    /\ wants' = [wants EXCEPT ![q] = ls]
    /\ UNCHANGED <<catalogue, agenda, guard, syncs, held>>

\* The row a booking inserts gets a primary key of its own.
NewKey(a) == appts[a] = Nil /\ \A p \in Panels : panels[p] # Nil => panels[p].appt # a
AskBook(q) == \E b \in 1 .. existing, d \in Days, a \in Appts :
    NewKey(a) /\ Asks(q, "book", b, d, a, CalendarLocks(b))
AskAbout(q) == \E a \in Appts, op \in {"cancel", "keep"} :
    appts[a] # Nil /\ Asks(q, op, appts[a].business, appts[a].day, a, CalendarLocks(appts[a].business))
AskSwitch(q) == \E b \in 1 .. existing : Asks(q, "switch", b, Nil, Nil, CalendarLocks(b))
\* close_appointments locks every calendar of its appointments, in order.
AskClose(q) == Asks(q, "close", 1, Nil, Nil, Calendars(existing))

\* _pending_appointment_queryset
ReviewedByRow(a) == reviews[a] = "linked"
Reviewed(a) == reviews[a] # Nil
PendingQueue == {a \in Appts : Confirmed(a) /\ holidays[appts[a].day] # Nil
                                /\ applies[appts[a].business] /\ ~Reviewed(a)}

\* What each request finds once it has its locks
GrantsBooking(r) == appts[r.appt] = Nil /\ (applies[r.business] => holidays[r.day] = Nil)
GrantsKeeping(r) == Confirmed(r.appt) /\ applies[r.business] /\ holidays[r.day] # Nil
GrantsSwitchBlindly(r) == TRUE
GrantsSwitch(r)  == \/ applies[r.business]
                    \/ \A a \in Appts : Confirmed(a) /\ appts[a].business = r.business
                                            => holidays[appts[a].day] = Nil
Grants(r) ==
    \/ r.op = "book"   /\ GrantsBooking(r)
    \/ r.op = "cancel" /\ Confirmed(r.appt)
    \/ r.op = "keep"   /\ GrantsKeeping(r)
    \/ r.op = "switch" /\ GrantsSwitch(r)
    \/ r.op = "close"

Decide(q) ==
    /\ panels[q] # Nil /\ wants[q] = <<>> /\ panels[q].verdict = "none"
    /\ panels' = [panels EXCEPT ![q].verdict = IF Grants(panels[q]) THEN "yes" ELSE "no"]
    /\ UNCHANGED <<catalogue, agenda, guard, syncs, locks>>

Effect(r) ==
    /\ appts' = CASE r.op = "book"   -> [appts EXCEPT ![r.appt] =
                                           [business |-> r.business, day |-> r.day, state |-> "confirmed"]]
                  [] r.op = "cancel" -> [appts EXCEPT ![r.appt].state = "cancelled"]
                  [] r.op = "close"  -> [a \in Appts |-> IF appts[a] # Nil /\ appts[a].state = "started"
                                                          THEN [appts[a] EXCEPT !.state = "closed"] ELSE appts[a]]
                  [] OTHER           -> appts
    /\ applies' = IF r.op = "switch" THEN [applies EXCEPT ![r.business] = ~@] ELSE applies
    \* An appointment already acknowledged keeps the review it has.
    /\ reviews' = IF r.op = "keep" /\ ~Reviewed(r.appt) THEN [reviews EXCEPT ![r.appt] = "linked"] ELSE reviews

Answer(q) ==
    /\ panels[q] # Nil /\ panels[q].verdict # "none"
    /\ IF panels[q].verdict = "yes" THEN Effect(panels[q]) ELSE UNCHANGED <<appts, applies, reviews>>
    /\ panels' = [panels EXCEPT ![q] = Nil]
    /\ Released(q)
    /\ UNCHANGED <<existing, holidays, runs, counted, guard, syncs>>

PanelStep(q) == AskBook(q) \/ AskAbout(q) \/ AskSwitch(q) \/ AskClose(q) \/ Decide(q) \/ Answer(q)

-----------------------------------------------------------------------------
(* Others *)

\* mark_operational_email_verified_from_account: the row first, its table only when it saves
OwnerAsks(o) == \E b \in 1 .. existing :
    /\ wants[o] = <<>> /\ held[o] = {}
    /\ wants' = [wants EXCEPT ![o] = <<BusinessRow(b), RowExclusive>>]
    /\ UNCHANGED <<catalogue, agenda, guard, syncs, panels, held>>
OwnerDone(o) ==
    /\ wants[o] = <<>> /\ held[o] # {}
    /\ Released(o)
    /\ UNCHANGED <<catalogue, agenda, guard, syncs, panels>>

\* An INSERT takes the table's row exclusive lock by itself.
CreateBusiness ==
    /\ existing < MaxBusinesses
    /\ \A p \in Procs : Share \notin held[p]
    /\ existing' = existing + 1
    /\ UNCHANGED <<catalogue, applies, appts, guard, syncs, panels, locks>>

Begins == \E a \in Appts :
    /\ Confirmed(a)
    /\ appts' = [appts EXCEPT ![a].state = "started"]
    /\ UNCHANGED <<catalogue, existing, applies, guard, syncs, panels, locks>>

\* PostgreSQL cancels one transaction of a circle.
Victim(p) ==
    /\ \E qs \in SUBSET Procs : p \in qs /\ Circle(qs)
    /\ p \notin Syncs
    /\ Released(p)
    /\ panels' = IF p \in Panels THEN [panels EXCEPT ![p] = Nil] ELSE panels
    /\ UNCHANGED <<catalogue, agenda, guard, syncs>>

Next == \/ \E s \in Syncs : SyncStep(s)
        \/ \E q \in Panels : PanelStep(q)
        \/ \E o \in Owners : OwnerAsks(o) \/ OwnerDone(o)
        \/ \E p \in Procs : Take(p) \/ Victim(p)
        \/ CreateBusiness \/ Begins

HolidaySpec == Init /\ [][Next]_vars

-----------------------------------------------------------------------------
(***************************************************************************)
(* Types; and a process holds a lock only while its transaction is open.   *)
(***************************************************************************)
HTypeOK ==
    /\ existing \in 1 .. MaxBusinesses /\ applies \in [Businesses -> BOOLEAN]
    /\ appts \in [Appts -> ApptRows \cup {Nil}]
    /\ holidays \in [Days -> {Nil, "legacy", "other", "boe"}]
    /\ reviews \in [Appts -> {Nil, "linked", "unlinked"}]
    /\ runs \in Seq(RunRows) /\ counted \in SUBSET Appts
    /\ guard \in [Years -> Syncs \cup {Nil}]
    /\ syncs \in [Syncs -> SyncRows \cup {Nil}] /\ panels \in [Panels -> PanelRows \cup {Nil}]
    /\ held \in [Procs -> SUBSET Locks] /\ wants \in [Procs -> Seq(Locks)]
    /\ \A s \in Syncs : held[s] # {} => syncs[s] # Nil /\ syncs[s].at \in {"locking", "counted"}
    /\ \A q \in Panels : held[q] # {} => panels[q] # Nil

(***************************************************************************)
(* A synchronisation that may still publish is never taken for an          *)
(* interrupted one: its run has not ended, and no other works on its year. *)
(***************************************************************************)
MayPublish(s) == syncs[s] # Nil /\ syncs[s].at # "failing"
LiveRunIsNotInterrupted == \A s \in Syncs : MayPublish(s) =>
    /\ ~runs[syncs[s].run].finished
    /\ \A t \in Syncs \ {s} : MayPublish(t) => syncs[t].year # syncs[s].year

(***************************************************************************)
(* No booking slips past a synchronisation: every appointment that stands  *)
(* on a national holiday of a business that honours them was in the impact *)
(* of a run that succeeded, however bookings, new businesses and the       *)
(* switch of each business interleave with the download and the locks.     *)
(***************************************************************************)
NothingSlipsPast == \A a \in Appts :
    Confirmed(a) /\ appts[a].business <= existing /\ applies[appts[a].business] /\ holidays[appts[a].day] # Nil
        => a \in counted

(***************************************************************************)
(* Calendars are locked in one order: whatever synchronisations, bulk      *)
(* closes and panel requests are under way, they never wait in a circle.   *)
(***************************************************************************)
CalendarsNeverDeadlock == ~Circles(Syncs \cup Panels)

(***************************************************************************)
(* calendar_locking.py:27 says of the table lock that it keeps one global  *)
(* order, in which mutations in course end before the snapshot.            *)
(***************************************************************************)
NothingDeadlocks == ~Circles(Procs)

(***************************************************************************)
(* An acknowledgement stands for what is true when it is saved: the        *)
(* appointment not cancelled meanwhile, the day still a holiday, and the   *)
(* business still honouring it.                                            *)
(***************************************************************************)
KeptWhileItStands == [][\A a \in Appts : reviews[a] = Nil /\ reviews'[a] # Nil =>
    /\ appts[a].state # "cancelled"
    /\ holidays[appts[a].day] # Nil
    /\ applies[appts[a].business]]_vars

(***************************************************************************)
(* What the professional acknowledged never comes back to the queue, even  *)
(* if the BOE withdraws the holiday and publishes it again.                *)
(***************************************************************************)
AcknowledgedForGood == [][\A a \in Appts : reviews[a] # Nil => a \notin PendingQueue']_vars
=============================================================================
