-------------------------------- MODULE Agenda --------------------------------
(***************************************************************************)
(* The agenda of one business: its calendar configuration, its clients,    *)
(* its appointments, and the browser sessions that book.                   *)
(*                                                                         *)
(* Concurrency.  confirm_appointment, every outcome transition and every   *)
(* calendar configuration view run in a transaction that first takes       *)
(* lock_business_calendar, so each is ONE action here; what a request read *)
(* BEFORE that lock (its form, the browser's draft, the ids of a bulk      *)
(* close) is kept in a variable and may be stale when the action runs.     *)
(* Services, the two switches of the business and the client card are      *)
(* changed without the lock.                                               *)
(*                                                                         *)
(* Time is a day and a minute of it; the last day bounds the exploration.  *)
(***************************************************************************)
EXTENDS SlotRules, FiniteSetsExt

CONSTANTS
    LastDay,        \* days are 0..LastDay; the weekday of day d is d % 7
    Lines, Services, Clients,
    Sessions,       \* browser sessions, professional or public
    Appts,          \* rows of the appointment table
    Refs,           \* confirmation_reference of a public draft
    RuleIds, RuleRows,         \* weekly opening rules and the values they take
    ClosureIds, ClosureRows,   \* closures and the values they take
    Durations,      \* the durations a service may be given
    EveryLine,      \* work_line IS NULL in a closure
    Nil, Refused

Days    == 0 .. LastDay
Minutes == 0 .. DayLen - 1
Weekday(d) == d % 7

RuleShape    == [weekday : 0 .. 6, from : Minutes, to : Minutes]
ClosureShape == [line : Lines \cup {EveryLine}, first : Days, last : Days,
                 from : Minutes, to : 1 .. DayLen]

ASSUME AgendaAssumption ==
    /\ LastDay \in Nat
    /\ RuleRows \subseteq {r \in RuleShape : r.from < r.to}
    /\ ClosureRows \subseteq {c \in ClosureShape : c.first <= c.last /\ c.from < c.to}
    /\ Durations \subseteq {n \in 1 .. DayLen : OnGrid(n)}
    /\ EveryLine \notin Lines
    /\ Nil \notin Appts \cup Refs
    /\ Refused \notin Appts \cup {Nil}

VARIABLES
    today, clock,
    rules, closures,               \* Nil or [.., active]
    lines,                         \* "absent", "active" or "paused"
    holidays, applyHolidays,       \* national holidays, and the business's switch
    businessActive, publicEnabled,
    services,                      \* [active, duration]
    clientActive,
    pausing,                       \* clients whose pause passed its guard, not yet saved
    appts,
    drafts,                        \* public drafts, by confirmation reference
    request, answer,               \* the booking request of a session, and its result
    bulk                           \* the appointments a bulk close selected

moment   == <<today, clock>>
calendar == <<rules, closures, lines, holidays, applyHolidays>>
business == <<businessActive, publicEnabled, services>>
people   == <<clientActive, pausing>>
web      == <<drafts, request, answer>>
vars     == <<moment, calendar, business, people, appts, web, bulk>>

Statuses == {"confirmed", "cancelled", "completed", "no_show"}
Outcomes == {"completed", "no_show"}

\* What can be asked for; a total beyond the day's length could never be offered.
Bookable == {n \in 1 .. DayLen : OnGrid(n)}

-----------------------------------------------------------------------------
(* What the calendar offers *)

Confirmed == {a \in Appts : appts[a] # Nil /\ appts[a].status = "confirmed"}
Ended(a)  == appts[a].day < today \/ (appts[a].day = today /\ appts[a].to <= clock)

\* status CONFIRMED and ends_at > now: what every configuration guard protects
Pending == {a \in Confirmed : ~Ended(a)}

ActiveRulesOf(rs, d) == {r \in RuleIds : rs[r] # Nil /\ rs[r].active /\ rs[r].weekday = Weekday(d)}
OpeningsOf(rs, d)    == {Interval(rs[r].from, rs[r].to) : r \in ActiveRulesOf(rs, d)}

Reaches(c, l, d) == c.active /\ c.line \in {EveryLine, l} /\ c.first <= d /\ d <= c.last
ClosedOn(cs, l, d) ==
    {Interval(cs[c].from, cs[c].to) : c \in {x \in ClosureIds : cs[x] # Nil /\ Reaches(cs[x], l, d)}}

Slot(a) == Interval(appts[a].from, appts[a].to)
TakenOn(l, d) == {Slot(a) : a \in {x \in Confirmed : appts[x].line = l /\ appts[x].day = d}}

\* get_day_availability has a slot of line l from minute s of day d, n minutes long
HasSlot(l, d, s, n) ==
    /\ d >= today
    /\ businessActive
    /\ lines[l] = "active"
    /\ ~(applyHolidays /\ d \in holidays)
    /\ Offered(OpeningsOf(rules, d), ClosedOn(closures, l, d) \cup TakenOn(l, d),
               IF d = today THEN CeilToSlot(clock) ELSE 0, s, n)

\* Appointment.clean: the overlap check made again on the row about to be saved
ClashesWithConfirmed(l, d, i) == \E b \in TakenOn(l, d) : Overlaps(i, b)

-----------------------------------------------------------------------------
Init ==
    /\ today = 0 /\ clock = 0
    /\ rules \in [RuleIds -> {Nil} \cup {[weekday |-> r.weekday, from |-> r.from, to |-> r.to,
                                          active |-> TRUE] : r \in RuleRows}]
    /\ \A r, q \in RuleIds : r # q => Nil \in {rules[r], rules[q]}
    /\ closures = [c \in ClosureIds |-> Nil]
    /\ lines \in [Lines -> {"absent", "active"}]
    /\ holidays = {} /\ applyHolidays = TRUE
    /\ businessActive = TRUE /\ publicEnabled = TRUE
    /\ services \in [Services -> [active : {TRUE}, duration : Durations]]
    /\ clientActive \in [Clients -> BOOLEAN] /\ pausing = {}
    /\ appts = [a \in Appts |-> Nil]
    /\ drafts = [r \in Refs |-> Nil]
    /\ request = [s \in Sessions |-> Nil] /\ answer = [s \in Sessions |-> Nil]
    /\ bulk = Nil

\* Variant: midnight does not turn the day.
TickPastMidnight ==
    /\ clock' = clock + 1 /\ today' = today
    /\ UNCHANGED <<calendar, business, people, appts, web, bulk>>

Tick ==
    /\ \/ /\ clock < DayLen - 1
          /\ clock' = clock + 1 /\ today' = today
       \/ /\ clock = DayLen - 1 /\ today < LastDay
          /\ clock' = 0 /\ today' = today + 1
    /\ UNCHANGED <<calendar, business, people, appts, web, bulk>>

-----------------------------------------------------------------------------
(* Calendar configuration: one transaction under the calendar lock each *)

\* AvailabilityRule.clean / AvailabilityRuleForm.clean
ClashesWithRule(r, row) ==
    \E q \in RuleIds \ {r} :
        rules[q] # Nil /\ rules[q].active /\ rules[q].weekday = row.weekday /\ Overlaps(rules[q], row)

\* Variant: only the start of each appointment is looked at.
KeepsStartsCovered(rs) ==
    \A a \in Pending : CoveredBy(Interval(appts[a].from, appts[a].from + 1),
                                 OpeningsOf(rs, appts[a].day))

\* _validate_availability_keeps_confirmed_appointments, on the rules as they would be
KeepsAppointmentsCovered(rs) == \A a \in Pending : CoveredBy(Slot(a), OpeningsOf(rs, appts[a].day))

Rule(row, on) == [weekday |-> row.weekday, from |-> row.from, to |-> row.to, active |-> on]

CreateRule(r, row, on) ==
    /\ rules[r] = Nil
    /\ on => ~ClashesWithRule(r, row)
    /\ rules' = [rules EXCEPT ![r] = Rule(row, on)]

\* The form also carries is_active: an edit may pause or reactivate.
EditRule(r, row, on) ==
    /\ rules[r] # Nil
    /\ on => ~ClashesWithRule(r, row)
    /\ rules' = [rules EXCEPT ![r] = Rule(row, on)]
    /\ rules[r].active => KeepsAppointmentsCovered(rules')

ToggleRule(r) ==
    /\ rules[r] # Nil
    /\ ~rules[r].active => ~ClashesWithRule(r, rules[r])
    /\ rules' = [rules EXCEPT ![r].active = ~rules[r].active]
    /\ rules[r].active => KeepsAppointmentsCovered(rules')

ChangeRules ==
    /\ \E r \in RuleIds :
          \/ \E row \in RuleRows, on \in BOOLEAN : CreateRule(r, row, on) \/ EditRule(r, row, on)
          \/ ToggleRule(r)
    /\ UNCHANGED <<moment, closures, lines, holidays, applyHolidays, business, people, appts, web, bulk>>

\* Variant: a closure of the whole business is compared with no line.
KeepsOneLineClear(c) ==
    c.active => \A a \in Pending :
                    c.line = appts[a].line /\ Reaches(c, appts[a].line, appts[a].day)
                        => ~Overlaps(Slot(a), Interval(c.from, c.to))

\* _validate_closure_keeps_confirmed_appointments
KeepsClosureClear(c) ==
    c.active => \A a \in Pending :
                    Reaches(c, appts[a].line, appts[a].day)
                        => ~Overlaps(Slot(a), Interval(c.from, c.to))

Closure(row, on) ==
    [line |-> row.line, first |-> row.first, last |-> row.last,
     from |-> row.from, to |-> row.to, active |-> on]

\* Creating and editing validate alike.
SaveClosure(c, row, on) ==
    /\ KeepsClosureClear(Closure(row, on))
    /\ closures' = [closures EXCEPT ![c] = Closure(row, on)]

ToggleClosure(c) ==
    /\ closures[c] # Nil
    /\ KeepsClosureClear([closures[c] EXCEPT !.active = ~closures[c].active])
    /\ closures' = [closures EXCEPT ![c].active = ~closures[c].active]

ChangeClosures ==
    /\ \E c \in ClosureIds :
          \/ \E row \in ClosureRows, on \in BOOLEAN : SaveClosure(c, row, on)
          \/ ToggleClosure(c)
    /\ UNCHANGED <<moment, rules, lines, holidays, applyHolidays, business, people, appts, web, bulk>>

\* _work_line_has_future_confirmed_appointments
KeepsLineClear(l) == \A a \in Pending : appts[a].line # l

\* Create, edit or toggle; only an active line is guarded when it is paused.
ChangeLine ==
    /\ \E l \in Lines, state \in {"active", "paused"} :
          /\ lines[l] = "active" /\ state = "paused" => KeepsLineClear(l)
          /\ lines' = [lines EXCEPT ![l] = state]
    /\ UNCHANGED <<moment, rules, closures, holidays, applyHolidays, business, people, appts, web, bulk>>

\* _validate_national_holidays_keep_confirmed_appointments
KeepsHolidaysClear == \A a \in Pending : appts[a].day \notin holidays

\* Variant: the switch looks at no appointment.
SetNationalHolidaysBlindly ==
    /\ applyHolidays' = ~applyHolidays
    /\ UNCHANGED <<moment, rules, closures, lines, holidays, business, people, appts, web, bulk>>

SetNationalHolidays ==
    /\ ~applyHolidays => KeepsHolidaysClear
    /\ applyHolidays' = ~applyHolidays
    /\ UNCHANGED <<moment, rules, closures, lines, holidays, business, people, appts, web, bulk>>

\* The BOE synchronisation replaces the official days; appointments stay.
ReconcileHolidays ==
    /\ \E published \in SUBSET Days : holidays' = published
    /\ UNCHANGED <<moment, rules, closures, lines, applyHolidays, business, people, appts, web, bulk>>

-----------------------------------------------------------------------------
(* What changes without the calendar lock *)

\* Edit and toggle of a service; past appointments keep their snapshot.
ChangeService ==
    /\ \E x \in Services, n \in Durations, on \in BOOLEAN :
          services' = [services EXCEPT ![x] = [active |-> on, duration |-> n]]
    /\ UNCHANGED <<moment, calendar, businessActive, publicEnabled, people, appts, web, bulk>>

ToggleBusiness ==
    /\ businessActive' = ~businessActive
    /\ UNCHANGED <<moment, calendar, publicEnabled, services, people, appts, web, bulk>>

TogglePublicBooking ==
    /\ businessActive \/ publicEnabled
    /\ publicEnabled' = ~publicEnabled
    /\ UNCHANGED <<moment, calendar, businessActive, services, people, appts, web, bulk>>

(***************************************************************************)
(* set_professional_client_active takes no lock: what its guard read may   *)
(* be stale when the card is saved.                                        *)
(***************************************************************************)
BeginPauseClient(k) ==
    /\ clientActive[k] /\ k \notin pausing
    /\ \A a \in Pending : appts[a].client # k
    /\ pausing' = pausing \cup {k}
    /\ UNCHANGED clientActive

EndPauseClient(k) ==
    /\ k \in pausing
    /\ clientActive' = [clientActive EXCEPT ![k] = FALSE]
    /\ pausing' = pausing \ {k}

ReactivateClient(k) ==
    /\ clientActive' = [clientActive EXCEPT ![k] = TRUE]
    /\ UNCHANGED pausing

ChangeClient ==
    /\ \E k \in Clients : BeginPauseClient(k) \/ EndPauseClient(k) \/ ReactivateClient(k)
    /\ UNCHANGED <<moment, calendar, business, appts, web, bulk>>

-----------------------------------------------------------------------------
(* Booking: the unlocked half *)

AllActive(S)   == \A x \in S : services[x].active
Snapshot(S)    == [x \in S |-> services[x].duration]
SumOf(items)   == MapThenSumSet(LAMBDA x : items[x], DOMAIN items)
TotalOf(S)     == SumOf(Snapshot(S))
Idle(s)        == request[s] = Nil \/ answer[s] # Nil
PublicIsOpen   == businessActive /\ publicEnabled

\* A reference no draft, request or appointment holds: each saved draft gets a new uuid.
Fresh(r) ==
    /\ drafts[r] = Nil
    /\ \A s \in Sessions : request[s] # Nil => request[s].ref # r
    /\ \A a \in Appts : appts[a] # Nil => appts[a].ref # r

\* public_booking, action choose_slot: the hour is kept as posted, not yet verified.
ChooseSlot ==
    /\ PublicIsOpen
    /\ \E r \in Refs, S \in SUBSET Services \ {{}}, l \in Lines, d \in Days, m \in Minutes :
          /\ Fresh(r) /\ AllActive(S) /\ OnGrid(m)
          /\ drafts' = [drafts EXCEPT ![r] = [services |-> S, line |-> l, day |-> d, from |-> m]]
    /\ UNCHANGED <<moment, calendar, business, people, appts, request, answer, bulk>>

\* 30 minutes without confirming, or services no longer on sale when confirming.
DropDraft ==
    /\ \E r \in Refs : drafts[r] # Nil /\ drafts' = [drafts EXCEPT ![r] = Nil]
    /\ UNCHANGED <<moment, calendar, business, people, appts, request, answer, bulk>>

Submit(s, q) ==
    /\ Idle(s)
    /\ request' = [request EXCEPT ![s] = q]
    /\ answer' = [answer EXCEPT ![s] = Nil]
    /\ UNCHANGED <<moment, calendar, business, people, appts, drafts, bulk>>

(***************************************************************************)
(* confirm_booking, before the transaction: the draft of the browser       *)
(* session and TODAY'S durations; the beneficiary comes from the post, so  *)
(* two posts of one draft may name two clients.                            *)
(***************************************************************************)
SubmitPublic(s) ==
    /\ PublicIsOpen
    /\ \E r \in Refs, k \in Clients, n \in Bookable :
          /\ drafts[r] # Nil
          /\ AllActive(drafts[r].services)
          /\ n = TotalOf(drafts[r].services)
          /\ Submit(s, [client |-> k, services |-> drafts[r].services, line |-> drafts[r].line,
                        day |-> drafts[r].day, from |-> drafts[r].from,
                        duration |-> n, reason |-> FALSE, ref |-> r])

\* appointment_assistant, the form: the professional may adjust the duration, with a reason.
SubmitProfessional(s) ==
    /\ businessActive
    /\ \E k \in Clients, S \in SUBSET Services \ {{}}, l \in Lines, d \in Days, m \in Minutes,
          n \in Bookable, reason \in BOOLEAN :
          /\ clientActive[k] /\ AllActive(S) /\ OnGrid(m)
          /\ n # TotalOf(S) => reason
          /\ Submit(s, [client |-> k, services |-> S, line |-> l, day |-> d, from |-> m,
                        duration |-> n, reason |-> reason, ref |-> Nil])

-----------------------------------------------------------------------------
(* Booking: confirm_appointment, under the calendar lock *)

IsPublic(q) == q.ref # Nil
Waiting(s)  == request[s] # Nil /\ answer[s] = Nil

\* Variant: a cancelled appointment frees its reference.
LiveBookedWith(r) == {a \in Confirmed : appts[a].ref = r}

BookedWith(r) == {a \in Appts : appts[a] # Nil /\ appts[a].ref = r}

\* _lock_public_booking_identity; the professional flow has no such step
IdentityHolds(q) == IsPublic(q) => clientActive[q.client]

\* Variant: any live appointment of the draft answers it.
SameReference(q, a) == appts[a].status = "confirmed"

\* _validate_public_confirmation_replay
SameDraft(q, a) ==
    /\ appts[a].status = "confirmed"
    /\ appts[a].client = q.client
    /\ appts[a].day = q.day /\ appts[a].from = q.from
    /\ appts[a].to - appts[a].from = q.duration
    /\ DOMAIN appts[a].items = q.services

MayReplay(q, a) == IsPublic(q) /\ IdentityHolds(q) /\ a \in BookedWith(q.ref) /\ SameDraft(q, a)

\* The requested line if it has the slot; the web falls back on another with the same start.
LineFor(q, l) ==
    /\ HasSlot(l, q.day, q.from, q.duration)
    /\ l = q.line \/ (IsPublic(q) /\ ~HasSlot(q.line, q.day, q.from, q.duration))

\* Variant: the length the form computed is trusted.
LengthAsSubmitted(q) == q.duration > 0

\* services_duration, from the services as they are now
LengthExplained(q) == q.duration = TotalOf(q.services) \/ q.reason

MayBook(q, l) ==
    /\ IdentityHolds(q)
    /\ IsPublic(q) => BookedWith(q.ref) = {}
    /\ AllActive(q.services)
    /\ LengthExplained(q)
    /\ LineFor(q, l)
    /\ ~ClashesWithConfirmed(l, q.day, Interval(q.from, q.from + q.duration))

\* The draft is cleared with the session, after the commit: a crash in between, or
\* another request of the browser that saves its own copy of the session, keeps it.
Conclude(s, result) ==
    /\ answer' = [answer EXCEPT ![s] = result]
    /\ \/ UNCHANGED drafts
       \/ IsPublic(request[s]) /\ drafts' = [drafts EXCEPT ![request[s].ref] = Nil]
    /\ UNCHANGED <<moment, calendar, business, people, request, bulk>>

Replay(s) ==
    /\ Waiting(s)
    /\ \E a \in Appts : MayReplay(request[s], a) /\ Conclude(s, a)
    /\ UNCHANGED appts

Book(s) ==
    /\ Waiting(s)
    /\ \E a \in Appts, l \in Lines :
          LET q == request[s] IN
          /\ appts[a] = Nil
          /\ MayBook(q, l)
          /\ appts' = [appts EXCEPT ![a] =
                 [line |-> l, day |-> q.day, from |-> q.from, to |-> q.from + q.duration,
                  client |-> q.client, items |-> Snapshot(q.services), reason |-> q.reason,
                  ref |-> q.ref, status |-> "confirmed"]]
          /\ Conclude(s, a)

\* Any ValidationError rolls the transaction back.
Refuse(s) ==
    /\ Waiting(s)
    /\ ~\E a \in Appts : MayReplay(request[s], a)
    /\ ~\E l \in Lines : MayBook(request[s], l)
    /\ Conclude(s, Refused)
    /\ UNCHANGED appts

-----------------------------------------------------------------------------
(* Outcomes *)

WithStatus(S, outcome) ==
    [a \in Appts |-> IF a \in S THEN [appts[a] EXCEPT !.status = outcome] ELSE appts[a]]

CancelAppointment(a) ==
    /\ a \in Confirmed
    /\ appts' = WithStatus({a}, "cancelled")
    /\ UNCHANGED bulk

\* complete_appointment, mark_appointment_no_show
CloseAppointment(a, outcome) ==
    /\ a \in Confirmed /\ Ended(a)
    /\ appts' = WithStatus({a}, outcome)
    /\ UNCHANGED bulk

\* The view selects without a lock; the instant it closes at is not earlier.
BeginBulkClose ==
    /\ bulk = Nil
    /\ \E S \in SUBSET {a \in Confirmed : Ended(a)} \ {{}}, outcome \in Outcomes :
          bulk' = [selected |-> S, outcome |-> outcome]
    /\ UNCHANGED appts

\* Variant: what was selected is closed without looking again.
EndBulkCloseBlindly ==
    /\ bulk # Nil
    /\ appts' = WithStatus(bulk.selected, bulk.outcome)
    /\ bulk' = Nil

\* close_appointments: all of them or, if one is no longer confirmed, none.
EndBulkClose ==
    /\ bulk # Nil
    /\ appts' = IF bulk.selected \subseteq {a \in Confirmed : Ended(a)}
                THEN WithStatus(bulk.selected, bulk.outcome) ELSE appts
    /\ bulk' = Nil

ChangeOutcome ==
    /\ \/ \E a \in Appts : CancelAppointment(a)
       \/ \E a \in Appts, outcome \in Outcomes : CloseAppointment(a, outcome)
       \/ BeginBulkClose
       \/ EndBulkClose
    /\ UNCHANGED <<moment, calendar, business, people, web>>

-----------------------------------------------------------------------------
Configure ==
    ChangeRules \/ ChangeClosures \/ ChangeLine \/ SetNationalHolidays \/ ReconcileHolidays

ChangeAround == ChangeService \/ ToggleBusiness \/ TogglePublicBooking \/ ChangeClient

UseTheWeb ==
    \/ ChooseSlot \/ DropDraft
    \/ \E s \in Sessions : SubmitPublic(s) \/ SubmitProfessional(s)

Confirm == \E s \in Sessions : Replay(s) \/ Book(s) \/ Refuse(s)

Next == Tick \/ Configure \/ ChangeAround \/ UseTheWeb \/ Confirm \/ ChangeOutcome

Spec == Init /\ [][Next]_vars

-----------------------------------------------------------------------------
(* What must hold *)

Snapshots == UNION {[S -> Durations] : S \in SUBSET Services}

AppointmentRows ==
    [line : Lines, day : Days, from : Minutes, to : 1 .. DayLen, client : Clients,
     items : Snapshots, reason : BOOLEAN, ref : Refs \cup {Nil}, status : Statuses]

Drafts == [services : SUBSET Services, line : Lines, day : Days, from : Minutes]

Requests ==
    [client : Clients, services : SUBSET Services, line : Lines, day : Days, from : Minutes,
     duration : Bookable, reason : BOOLEAN, ref : Refs \cup {Nil}]

RuleRecords ==
    {r \in [weekday : 0 .. 6, from : Minutes, to : Minutes, active : BOOLEAN] : r.from < r.to}

ClosureRecords ==
    [line : Lines \cup {EveryLine}, first : Days, last : Days,
     from : Minutes, to : 1 .. DayLen, active : BOOLEAN]

MomentTyped == today \in Days /\ clock \in Minutes
CalendarTyped ==
    /\ rules \in [RuleIds -> RuleRecords \cup {Nil}]
    /\ closures \in [ClosureIds -> ClosureRecords \cup {Nil}]
    /\ lines \in [Lines -> {"absent", "active", "paused"}]
    /\ holidays \in SUBSET Days /\ applyHolidays \in BOOLEAN
BusinessTyped ==
    /\ businessActive \in BOOLEAN /\ publicEnabled \in BOOLEAN
    /\ services \in [Services -> [active : BOOLEAN, duration : Durations]]
    /\ clientActive \in [Clients -> BOOLEAN] /\ pausing \in SUBSET Clients
ApptsTyped == appts \in [Appts -> AppointmentRows \cup {Nil}]
WebTyped ==
    /\ drafts \in [Refs -> Drafts \cup {Nil}]
    /\ request \in [Sessions -> Requests \cup {Nil}]
    /\ answer \in [Sessions -> Appts \cup {Nil, Refused}]
BulkTyped == bulk \in [selected : SUBSET Appts, outcome : Outcomes] \cup {Nil}

(* The values the variables take. *)
TypeOK == MomentTyped /\ CalendarTyped /\ BusinessTyped /\ ApptsTyped /\ WebTyped /\ BulkTyped

(***************************************************************************)
(* Two confirmed appointments of a line never share a minute, whatever     *)
(* sessions, channels and stale forms led to them (README: "evitar         *)
(* solapamientos").                                                        *)
(***************************************************************************)
NoDoubleBooking ==
    \A a, b \in Confirmed :
        a # b /\ appts[a].line = appts[b].line /\ appts[a].day = appts[b].day
            => \A m \in Minutes : ~(/\ appts[a].from <= m /\ m < appts[a].to
                                    /\ appts[b].from <= m /\ m < appts[b].to)

(***************************************************************************)
(* The active opening rules cover a pending appointment whole, however     *)
(* they were cut, moved, paused and put back after it was booked.          *)
(***************************************************************************)
PendingInsideRules ==
    \A a \in Pending : CoveredBy(Slot(a), OpeningsOf(rules, appts[a].day))

(***************************************************************************)
(* The line of a pending appointment is in service and no active closure   *)
(* of that line or of the business touches it: closing and booking keep    *)
(* out of each other's way in either order.                                *)
(***************************************************************************)
PendingOnOpenLine ==
    \A a \in Pending :
        /\ lines[appts[a].line] = "active"
        /\ \A i \in ClosedOn(closures, appts[a].line, appts[a].day) :
              ~(i.from < appts[a].to /\ appts[a].from < i.to)

(* However often a draft is posted, it yields at most one appointment. *)
OneAppointmentPerReference ==
    \A a, b \in Appts :
        appts[a] # Nil /\ appts[b] # Nil /\ appts[a].ref = appts[b].ref /\ appts[a].ref # Nil
            => a = b

(***************************************************************************)
(* The appointment a session is shown is the one it asked for: same        *)
(* client, hour, duration and services, also when the answer is the replay *)
(* of an earlier confirmation.                                             *)
(***************************************************************************)
AnswerMatchesRequest ==
    \A s \in Sessions : answer[s] \in Appts =>
        LET q == request[s]  a == appts[answer[s]] IN
        /\ a # Nil
        /\ a.client = q.client /\ a.day = q.day /\ a.from = q.from
        /\ a.to - a.from = q.duration /\ DOMAIN a.items = q.services /\ a.ref = q.ref

(***************************************************************************)
(* An appointment lasts as long as the services it recorded, or somebody   *)
(* gave a reason: a duration changed between the form and the confirmation *)
(* never slips in.                                                         *)
(***************************************************************************)
DurationExplained ==
    \A a \in Appts : appts[a] # Nil =>
        appts[a].reason \/ appts[a].to - appts[a].from = SumOf(appts[a].items)

(***************************************************************************)
(* The agenda implements the ledger of Bookings: places never move, an     *)
(* outcome is final and comes after the end of the appointment.            *)
(***************************************************************************)
Place(row) == [line |-> row.line, day |-> row.day, from |-> row.from, to |-> row.to]
Entry(a) == IF appts[a] = Nil THEN Nil
            ELSE [place |-> Place(appts[a]), status |-> appts[a].status]
Places == [line : Lines, day : Days, from : Minutes, to : 1 .. DayLen]
Ledger == INSTANCE Bookings WITH
              Ids <- Appts, None <- Nil, ledger <- [a \in Appts |-> Entry(a)]
KeepsTheLedger == Ledger!Spec

\* A free row is told apart from every appointment and every entry.
ASSUME FreeRowAssumption ==
    Nil \notin AppointmentRows \cup [place : Places, status : Statuses]

(***************************************************************************)
(* A pending appointment of a business that honours national holidays      *)
(* falls on one only because a synchronisation published it: never because *)
(* somebody booked it there or switched holidays on.                       *)
(***************************************************************************)
OnHoliday == {a \in Pending : applyHolidays /\ appts[a].day \in holidays}
OnlySyncMovesOntoHolidays ==
    [][OnHoliday' \subseteq OnHoliday \/ (holidays' # holidays /\ appts' = appts)]_vars

(* Nothing is booked at an hour that has already passed. *)
NoPastBooking ==
    [][\A a \in Appts : appts[a] = Nil /\ appts'[a] # Nil =>
          \/ appts'[a].day > today
          \/ appts'[a].day = today /\ appts'[a].from >= clock]_vars

(* A client card with a pending appointment is not paused. *)
PendingClientActive == \A a \in Pending : clientActive[appts[a].client]
=============================================================================
