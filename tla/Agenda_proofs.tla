---------------------------- MODULE Agenda_proofs ----------------------------
(***************************************************************************)
(* The agenda's types and safety, that configuration and booking keep out  *)
(* of each other's way, and what a booking is worth once made, for every   *)
(* calendar, set of sessions, appointments, days and durations.            *)
(***************************************************************************)
EXTENDS Agenda, TLAPS

USE AgendaAssumption, DayAssumption

(* The three ways a step treats the appointments. *)
Settles ==
    /\ \E S \in SUBSET Confirmed, outcome \in {"cancelled"} \cup Outcomes :
          appts' = WithStatus(S, outcome)
    /\ UNCHANGED <<moment, calendar, business, people, web>>

LEMMA StepKinds ==
    ASSUME BulkTyped, Next
    PROVE  UNCHANGED appts \/ (\E s \in Sessions : Book(s)) \/ Settles
<1>1. CASE Tick \/ Configure \/ ChangeAround
  BY <1>1 DEF Tick, Configure, ChangeRules, ChangeClosures, ChangeLine, SetNationalHolidays,
              ReconcileHolidays, ChangeAround, ChangeService, ToggleBusiness,
              TogglePublicBooking, ChangeClient
<1>2. CASE UseTheWeb
  BY <1>2 DEF UseTheWeb, ChooseSlot, DropDraft, SubmitPublic, SubmitProfessional, Submit
<1>3. CASE Confirm
  BY <1>3 DEF Confirm, Replay, Refuse
<1>4. CASE ChangeOutcome
  <2>1. ASSUME NEW a \in Appts, CancelAppointment(a) PROVE Settles
    <3>1. {a} \in SUBSET Confirmed
      BY <2>1 DEF CancelAppointment
    <3>. QED
      BY <2>1, <3>1, <1>4 DEF Settles, CancelAppointment, ChangeOutcome
  <2>2. ASSUME NEW a \in Appts, NEW outcome \in Outcomes, CloseAppointment(a, outcome) PROVE Settles
    <3>1. {a} \in SUBSET Confirmed
      BY <2>2 DEF CloseAppointment
    <3>. QED
      BY <2>2, <3>1, <1>4 DEF Settles, CloseAppointment, ChangeOutcome
  <2>3. CASE BeginBulkClose
    BY <2>3 DEF BeginBulkClose
  <2>4. CASE EndBulkClose
    <3>1. bulk.outcome \in Outcomes
      BY <2>4 DEF EndBulkClose, BulkTyped
    <3>2. CASE bulk.selected \subseteq {a \in Confirmed : Ended(a)}
      <4>1. bulk.selected \in SUBSET Confirmed
        BY <3>2
      <4>. QED
        BY <2>4, <3>1, <3>2, <4>1, <1>4 DEF Settles, EndBulkClose, ChangeOutcome
    <3>3. CASE ~(bulk.selected \subseteq {a \in Confirmed : Ended(a)})
      BY <2>4, <3>3 DEF EndBulkClose
    <3>. QED
      BY <3>2, <3>3
  <2>. QED
    BY <1>4, <2>1, <2>2, <2>3, <2>4 DEF ChangeOutcome
<1>. QED
  BY <1>1, <1>2, <1>3, <1>4 DEF Next

-----------------------------------------------------------------------------
(* Types *)

LEMMA MomentStep == MomentTyped /\ [Next]_vars => MomentTyped'
<1>. SUFFICES ASSUME MomentTyped, [Next]_vars PROVE MomentTyped'
  OBVIOUS
<1>1. CASE Tick
  BY <1>1 DEF MomentTyped, Tick, Days, Minutes
<1>2. CASE UNCHANGED moment
  BY <1>2 DEF MomentTyped, moment
<1>3. Tick \/ UNCHANGED moment
  <2>1. CASE Configure \/ ChangeAround
    BY <2>1 DEF Configure, ChangeRules, ChangeClosures, ChangeLine, SetNationalHolidays,
                ReconcileHolidays, ChangeAround, ChangeService, ToggleBusiness,
                TogglePublicBooking, ChangeClient
  <2>2. CASE UseTheWeb
    BY <2>2 DEF UseTheWeb, ChooseSlot, DropDraft, SubmitPublic, SubmitProfessional, Submit
  <2>3. CASE Confirm
    BY <2>3 DEF Confirm, Replay, Book, Refuse, Conclude
  <2>4. CASE ChangeOutcome
    BY <2>4 DEF ChangeOutcome
  <2>. QED
    BY <2>1, <2>2, <2>3, <2>4 DEF Next, vars
<1>. QED
  BY <1>1, <1>2, <1>3

(* Only configuration touches the calendar. *)
LEMMA CalendarSteps ==
    ASSUME [Next]_vars PROVE Configure \/ UNCHANGED calendar
<1>1. CASE Tick \/ ChangeAround
  BY <1>1 DEF Tick, ChangeAround, ChangeService, ToggleBusiness, TogglePublicBooking, ChangeClient
<1>2. CASE UseTheWeb
  BY <1>2 DEF UseTheWeb, ChooseSlot, DropDraft, SubmitPublic, SubmitProfessional, Submit
<1>3. CASE Confirm
  BY <1>3 DEF Confirm, Replay, Book, Refuse, Conclude
<1>4. CASE ChangeOutcome
  BY <1>4 DEF ChangeOutcome
<1>. QED
  BY <1>1, <1>2, <1>3, <1>4 DEF Next, vars

LEMMA RuleTyped == \A row \in RuleRows, on \in BOOLEAN : Rule(row, on) \in RuleRecords
  BY DEF Rule, RuleRecords, RuleShape

LEMMA ClosureTyped == \A row \in ClosureRows, on \in BOOLEAN : Closure(row, on) \in ClosureRecords
  BY DEF Closure, ClosureRecords, ClosureShape

LEMMA CalendarStep == CalendarTyped /\ [Next]_vars => CalendarTyped'
<1>. SUFFICES ASSUME CalendarTyped, [Next]_vars PROVE CalendarTyped'
  OBVIOUS
<1>1. CASE ChangeRules
  <2>1. /\ \E r \in RuleIds, x \in RuleRecords : rules' = [rules EXCEPT ![r] = x]
        /\ UNCHANGED <<closures, lines, holidays, applyHolidays>>
    <3>1. ASSUME NEW r \in RuleIds, ToggleRule(r)
          PROVE  \E x \in RuleRecords : rules' = [rules EXCEPT ![r] = x]
      <4>1. rules[r] \in RuleRecords
        BY <3>1 DEF ToggleRule, CalendarTyped
      <4>2. [rules[r] EXCEPT !.active = ~rules[r].active] \in RuleRecords
        BY <4>1 DEF RuleRecords
      <4>. QED
        BY <3>1, <4>2 DEF ToggleRule
    <3>. QED
      BY <1>1, <3>1, RuleTyped DEF ChangeRules, CreateRule, EditRule
  <2>. QED
    BY <2>1 DEF CalendarTyped
<1>2. CASE ChangeClosures
  <2>1. /\ \E c \in ClosureIds, x \in ClosureRecords : closures' = [closures EXCEPT ![c] = x]
        /\ UNCHANGED <<rules, lines, holidays, applyHolidays>>
    <3>1. ASSUME NEW c \in ClosureIds, ToggleClosure(c)
          PROVE  \E x \in ClosureRecords : closures' = [closures EXCEPT ![c] = x]
      <4>1. closures[c] \in ClosureRecords
        BY <3>1 DEF ToggleClosure, CalendarTyped
      <4>2. [closures[c] EXCEPT !.active = ~closures[c].active] \in ClosureRecords
        BY <4>1 DEF ClosureRecords
      <4>. QED
        BY <3>1, <4>2 DEF ToggleClosure
    <3>. QED
      BY <1>2, <3>1, ClosureTyped DEF ChangeClosures, SaveClosure
  <2>. QED
    BY <2>1 DEF CalendarTyped
<1>3. CASE ChangeLine \/ SetNationalHolidays \/ ReconcileHolidays
  BY <1>3 DEF ChangeLine, SetNationalHolidays, ReconcileHolidays, CalendarTyped
<1>4. CASE UNCHANGED calendar
  BY <1>4 DEF calendar, CalendarTyped
<1>. QED
  BY <1>1, <1>2, <1>3, <1>4, CalendarSteps DEF Configure

LEMMA BusinessStep == BusinessTyped /\ [Next]_vars => BusinessTyped'
<1>. SUFFICES ASSUME BusinessTyped, [Next]_vars PROVE BusinessTyped'
  OBVIOUS
<1>1. CASE ChangeService
  BY <1>1 DEF ChangeService, BusinessTyped, people
<1>2. CASE ToggleBusiness \/ TogglePublicBooking
  BY <1>2 DEF ToggleBusiness, TogglePublicBooking, BusinessTyped, people
<1>3. CASE ChangeClient
  BY <1>3 DEF ChangeClient, BeginPauseClient, EndPauseClient, ReactivateClient, BusinessTyped, business
<1>4. CASE UNCHANGED <<business, people>>
  BY <1>4 DEF BusinessTyped, business, people
<1>5. CASE Tick \/ Configure
  BY <1>4, <1>5 DEF Tick, Configure, ChangeRules, ChangeClosures, ChangeLine,
                    SetNationalHolidays, ReconcileHolidays
<1>6. CASE UseTheWeb
  BY <1>4, <1>6 DEF UseTheWeb, ChooseSlot, DropDraft, SubmitPublic, SubmitProfessional, Submit
<1>7. CASE Confirm
  BY <1>4, <1>7 DEF Confirm, Replay, Book, Refuse, Conclude
<1>8. CASE ChangeOutcome
  BY <1>4, <1>8 DEF ChangeOutcome
<1>. QED
  BY <1>1, <1>2, <1>3, <1>4, <1>5, <1>6, <1>7, <1>8 DEF Next, ChangeAround, vars

LEMMA SubmitTyped ==
    ASSUME WebTyped, NEW s \in Sessions, NEW q \in Requests, Submit(s, q)
    PROVE  WebTyped'
  BY DEF WebTyped, Submit

LEMMA ConcludeTyped ==
    ASSUME WebTyped, NEW s \in Sessions, NEW result \in Appts \cup {Refused},
           Waiting(s), Conclude(s, result)
    PROVE  WebTyped'
<1>1. request[s] \in Requests
  BY DEF WebTyped, Waiting
<1>2. drafts' \in [Refs -> Drafts \cup {Nil}]
  <2>1. CASE IsPublic(request[s])
    BY <2>1, <1>1 DEF WebTyped, Conclude
  <2>2. CASE ~IsPublic(request[s])
    BY <2>2 DEF WebTyped, Conclude
  <2>. QED
    BY <2>1, <2>2
<1>. QED
  BY <1>2 DEF WebTyped, Conclude

LEMMA WebStep == WebTyped /\ [Next]_vars => WebTyped'
<1>. SUFFICES ASSUME WebTyped, [Next]_vars PROVE WebTyped'
  OBVIOUS
<1>1. CASE ChooseSlot
  <2>1. PICK r \in Refs, S \in SUBSET Services, l \in Lines, d \in Days, m \in Minutes :
            drafts' = [drafts EXCEPT ![r] = [services |-> S, line |-> l, day |-> d, from |-> m]]
    BY <1>1 DEF ChooseSlot
  <2>2. [services |-> S, line |-> l, day |-> d, from |-> m] \in Drafts
    BY DEF Drafts
  <2>. QED
    BY <1>1, <2>1, <2>2 DEF ChooseSlot, WebTyped
<1>2. CASE DropDraft
  BY <1>2 DEF DropDraft, WebTyped
<1>3. ASSUME NEW s \in Sessions, SubmitPublic(s) PROVE WebTyped'
  <2>1. PICK r \in Refs, k \in Clients, n \in Bookable :
            /\ drafts[r] # Nil
            /\ Submit(s, [client |-> k, services |-> drafts[r].services, line |-> drafts[r].line,
                          day |-> drafts[r].day, from |-> drafts[r].from,
                          duration |-> n, reason |-> FALSE, ref |-> r])
    BY <1>3 DEF SubmitPublic
  <2>2. drafts[r] \in Drafts
    BY <2>1 DEF WebTyped
  <2>3. [client |-> k, services |-> drafts[r].services, line |-> drafts[r].line,
         day |-> drafts[r].day, from |-> drafts[r].from,
         duration |-> n, reason |-> FALSE, ref |-> r] \in Requests
    BY <2>2 DEF Drafts, Requests
  <2>. QED
    BY <2>1, <2>3, SubmitTyped
<1>4. ASSUME NEW s \in Sessions, SubmitProfessional(s) PROVE WebTyped'
  <2>1. PICK k \in Clients, S \in SUBSET Services, l \in Lines, d \in Days, m \in Minutes,
             n \in Bookable, reason \in BOOLEAN :
            Submit(s, [client |-> k, services |-> S, line |-> l, day |-> d, from |-> m,
                       duration |-> n, reason |-> reason, ref |-> Nil])
    BY <1>4 DEF SubmitProfessional
  <2>2. [client |-> k, services |-> S, line |-> l, day |-> d, from |-> m,
         duration |-> n, reason |-> reason, ref |-> Nil] \in Requests
    BY DEF Requests
  <2>. QED
    BY <2>1, <2>2, SubmitTyped
<1>5. CASE Confirm
  BY <1>5, ConcludeTyped DEF Confirm, Replay, Book, Refuse
<1>6. CASE UNCHANGED web
  BY <1>6 DEF web, WebTyped
<1>7. CASE Tick \/ Configure \/ ChangeAround
  BY <1>6, <1>7 DEF Tick, Configure, ChangeRules, ChangeClosures, ChangeLine,
                    SetNationalHolidays, ReconcileHolidays, ChangeAround, ChangeService,
                    ToggleBusiness, TogglePublicBooking, ChangeClient
<1>8. CASE ChangeOutcome
  BY <1>6, <1>8 DEF ChangeOutcome
<1>. QED
  BY <1>1, <1>2, <1>3, <1>4, <1>5, <1>6, <1>7, <1>8 DEF Next, UseTheWeb, vars

(* The row a confirmation saves. *)
LEMMA BookedRow ==
    ASSUME CalendarTyped, BusinessTyped, WebTyped, NEW s \in Sessions, Book(s)
    PROVE  \E a \in Appts, l \in Lines :
              LET q == request[s]
                  row == [line |-> l, day |-> q.day, from |-> q.from, to |-> q.from + q.duration,
                          client |-> q.client, items |-> Snapshot(q.services),
                          reason |-> q.reason, ref |-> q.ref, status |-> "confirmed"] IN
              /\ appts[a] = Nil /\ MayBook(q, l) /\ Conclude(s, a)
              /\ q \in Requests /\ row \in AppointmentRows
              /\ appts' = [appts EXCEPT ![a] = row]
<1>1. PICK a \in Appts, l \in Lines :
          LET q == request[s] IN
          /\ appts[a] = Nil /\ MayBook(q, l) /\ Conclude(s, a)
          /\ appts' = [appts EXCEPT ![a] =
                 [line |-> l, day |-> q.day, from |-> q.from, to |-> q.from + q.duration,
                  client |-> q.client, items |-> Snapshot(q.services), reason |-> q.reason,
                  ref |-> q.ref, status |-> "confirmed"]]
  BY DEF Book
<1>. DEFINE q == request[s]
<1>2. q \in Requests
  BY DEF Book, Waiting, WebTyped
<1>3. q.from + q.duration \in 1 .. DayLen
  <2>1. PICK i \in OpeningsOf(rules, q.day) : q.from + q.duration <= i.to
    BY <1>1 DEF MayBook, LineFor, HasSlot, Offered
  <2>2. i.to \in Minutes
    BY <2>1 DEF OpeningsOf, ActiveRulesOf, Interval, CalendarTyped, RuleRecords
  <2>3. q.from \in Nat /\ q.duration \in Nat /\ 1 <= q.duration
    BY <1>2 DEF Requests, Minutes, Bookable
  <2>4. i.to \in Int /\ i.to <= DayLen
    BY <2>2 DEF Minutes
  <2>. QED
    BY <2>1, <2>3, <2>4
<1>4. Snapshot(q.services) \in Snapshots
  BY <1>2 DEF Snapshot, Snapshots, Requests, BusinessTyped
<1>5. [line |-> l, day |-> q.day, from |-> q.from, to |-> q.from + q.duration,
       client |-> q.client, items |-> Snapshot(q.services), reason |-> q.reason,
       ref |-> q.ref, status |-> "confirmed"] \in AppointmentRows
  BY <1>2, <1>3, <1>4 DEF Requests, AppointmentRows, Statuses
<1>. QED
  BY <1>1, <1>2, <1>5

LEMMA StatusTyped ==
    ASSUME ApptsTyped, NEW S \in SUBSET Confirmed, NEW outcome \in Statuses,
           appts' = WithStatus(S, outcome)
    PROVE  ApptsTyped'
<1>1. \A a \in S : [appts[a] EXCEPT !.status = outcome] \in AppointmentRows
  BY DEF ApptsTyped, Confirmed, AppointmentRows
<1>. QED
  BY <1>1 DEF ApptsTyped, WithStatus

LEMMA ApptsStep ==
    ASSUME ApptsTyped, CalendarTyped, BusinessTyped, WebTyped, BulkTyped, [Next]_vars
    PROVE  ApptsTyped'
<1>1. CASE UNCHANGED appts
  BY <1>1 DEF ApptsTyped
<1>2. ASSUME NEW s \in Sessions, Book(s) PROVE ApptsTyped'
  BY <1>2, BookedRow DEF ApptsTyped
<1>3. CASE Settles
  BY <1>3, StatusTyped DEF Settles, Statuses, Outcomes
<1>. QED
  BY <1>1, <1>2, <1>3, StepKinds DEF vars

LEMMA BulkStep == BulkTyped /\ [Next]_vars => BulkTyped'
<1>. SUFFICES ASSUME BulkTyped, [Next]_vars PROVE BulkTyped'
  OBVIOUS
<1>1. CASE UNCHANGED bulk
  BY <1>1 DEF BulkTyped
<1>2. CASE BeginBulkClose
  BY <1>2 DEF BeginBulkClose, BulkTyped, Confirmed
<1>3. CASE EndBulkClose
  BY <1>3 DEF EndBulkClose, BulkTyped
<1>4. CASE ChangeOutcome
  BY <1>1, <1>2, <1>3, <1>4 DEF ChangeOutcome, CancelAppointment, CloseAppointment
<1>5. CASE Tick \/ Configure \/ ChangeAround
  BY <1>1, <1>5 DEF Tick, Configure, ChangeRules, ChangeClosures, ChangeLine,
                    SetNationalHolidays, ReconcileHolidays, ChangeAround, ChangeService,
                    ToggleBusiness, TogglePublicBooking, ChangeClient
<1>6. CASE UseTheWeb
  BY <1>1, <1>6 DEF UseTheWeb, ChooseSlot, DropDraft, SubmitPublic, SubmitProfessional, Submit
<1>7. CASE Confirm
  BY <1>1, <1>7 DEF Confirm, Replay, Book, Refuse, Conclude
<1>. QED
  BY <1>1, <1>4, <1>5, <1>6, <1>7 DEF Next, vars

(* Agenda.TypeOK holds in every behaviour. *)
THEOREM TypeCorrect == Spec => []TypeOK
<1>1. Init => TypeOK
  <2>. SUFFICES ASSUME Init PROVE TypeOK
    OBVIOUS
  <2>1. MomentTyped
    BY DEF Init, MomentTyped, Days, Minutes
  <2>2. CalendarTyped
    <3>1. \A r \in RuleRows :
            [weekday |-> r.weekday, from |-> r.from, to |-> r.to, active |-> TRUE] \in RuleRecords
      BY DEF RuleRecords, RuleShape
    <3>2. rules \in [RuleIds -> RuleRecords \cup {Nil}]
      BY <3>1 DEF Init
    <3>. QED
      BY <3>2 DEF Init, CalendarTyped
  <2>3. BusinessTyped
    BY DEF Init, BusinessTyped
  <2>4. ApptsTyped /\ WebTyped /\ BulkTyped
    BY DEF Init, ApptsTyped, WebTyped, BulkTyped
  <2>. QED
    BY <2>1, <2>2, <2>3, <2>4 DEF TypeOK
<1>2. TypeOK /\ [Next]_vars => TypeOK'
  BY MomentStep, CalendarStep, BusinessStep, ApptsStep, WebStep, BulkStep DEF TypeOK
<1>. QED
  BY <1>1, <1>2, PTL DEF Spec

-----------------------------------------------------------------------------
(* No double booking *)

(* The appointments of one line and day keep apart; the shape Overlaps is made for. *)
Apart == \A a, b \in Confirmed :
    a # b /\ appts[a].line = appts[b].line /\ appts[a].day = appts[b].day
        => ~Overlaps(Slot(a), Slot(b))

(* Statuses only ever leave "confirmed", and slots never move. *)
LEMMA SettleShrinks ==
    ASSUME ApptsTyped, Settles
    PROVE  /\ Confirmed' \subseteq Confirmed
           /\ \A a \in Confirmed' : appts'[a] = appts[a]
<1>1. PICK S \in SUBSET Confirmed, outcome \in {"cancelled"} \cup Outcomes :
          appts' = WithStatus(S, outcome)
  BY DEF Settles
<1>2. ASSUME NEW a \in S PROVE a \notin Confirmed'
  <2>1. appts[a] \in AppointmentRows
    BY <1>2, <1>1 DEF ApptsTyped, Confirmed
  <2>2. appts'[a].status = outcome
    BY <1>1, <1>2, <2>1 DEF WithStatus, Confirmed, AppointmentRows
  <2>. QED
    BY <2>2 DEF Confirmed, Outcomes
<1>3. \A a \in Appts \ S : appts'[a] = appts[a]
  BY <1>1 DEF WithStatus
<1>. QED
  BY <1>2, <1>3 DEF Confirmed

LEMMA ApartStep == TypeOK /\ Apart /\ [Next]_vars => Apart'
<1>. SUFFICES ASSUME TypeOK, Apart, [Next]_vars PROVE Apart'
  OBVIOUS
<1>. USE DEF TypeOK
<1>1. CASE UNCHANGED appts
  BY <1>1 DEF Apart, Confirmed, Slot
<1>2. ASSUME NEW s \in Sessions, Book(s) PROVE Apart'
  <2>. DEFINE q == request[s]
  <2>1. PICK a \in Appts, l \in Lines :
          /\ appts[a] = Nil /\ MayBook(q, l) /\ q \in Requests
          /\ appts' = [appts EXCEPT ![a] =
                 [line |-> l, day |-> q.day, from |-> q.from, to |-> q.from + q.duration,
                  client |-> q.client, items |-> Snapshot(q.services), reason |-> q.reason,
                  ref |-> q.ref, status |-> "confirmed"]]
    BY <1>2, BookedRow
  <2>2. /\ appts'[a].line = l /\ appts'[a].day = q.day
        /\ Slot(a)' = Interval(q.from, q.from + q.duration)
        /\ \A b \in Appts : b # a => appts'[b] = appts[b] /\ Slot(b)' = Slot(b)
    BY <2>1 DEF ApptsTyped, Slot, Interval
  <2>3. \A b \in Confirmed' : b \in Appts /\ (b # a => b \in Confirmed)
    <3>1. \A b : b \in Confirmed' <=> b \in Appts /\ appts'[b] # Nil /\ appts'[b].status = "confirmed"
      BY DEF Confirmed
    <3>. QED
      BY <2>2, <3>1 DEF Confirmed
  <2>4. \A b \in TakenOn(l, q.day) : ~Overlaps(Interval(q.from, q.from + q.duration), b)
    BY <2>1 DEF MayBook, ClashesWithConfirmed
  <2>5. ASSUME NEW b \in Confirmed', b # a, appts'[b].line = l, appts'[b].day = q.day
        PROVE  ~Overlaps(Slot(a)', Slot(b)') /\ ~Overlaps(Slot(b)', Slot(a)')
    <3>1. Slot(b) \in TakenOn(l, q.day)
      BY <2>2, <2>3, <2>5 DEF TakenOn
    <3>2. ~Overlaps(Interval(q.from, q.from + q.duration), Slot(b))
      BY <3>1, <2>4
    <3>3. Slot(b)' = Slot(b) /\ Slot(a)' = Interval(q.from, q.from + q.duration)
      BY <2>2, <2>3, <2>5
    <3>4. \A i, j : Overlaps(i, j) <=> Overlaps(j, i)
      BY DEF Overlaps
    <3>. QED
      BY <3>2, <3>3, <3>4
  <2>. QED
    BY <2>2, <2>3, <2>5 DEF Apart
<1>3. CASE Settles
  <2>1. \A a \in Confirmed' : a \in Confirmed /\ appts'[a] = appts[a] /\ Slot(a)' = Slot(a)
    BY <1>3, SettleShrinks DEF Slot
  <2>. QED
    BY <2>1 DEF Apart
<1>. QED
  BY <1>1, <1>2, <1>3, StepKinds DEF vars

(***************************************************************************)
(* Two confirmed appointments of a line never share a minute: the check    *)
(* made under the calendar lock keeps all of them apart, however stale the *)
(* forms and drafts that led to it.                                        *)
(***************************************************************************)
THEOREM NeverDoubleBooked == Spec => []NoDoubleBooking
<1>1. Init => Apart
  BY DEF Init, Apart, Confirmed
<1>2. TypeOK /\ Apart => NoDoubleBooking
  <2>1. ASSUME TypeOK, Apart, NEW a \in Confirmed, NEW b \in Confirmed, a # b,
               appts[a].line = appts[b].line, appts[a].day = appts[b].day, NEW m \in Minutes
        PROVE  ~(/\ appts[a].from <= m /\ m < appts[a].to
                 /\ appts[b].from <= m /\ m < appts[b].to)
    <3>1. appts[a] \in AppointmentRows /\ appts[b] \in AppointmentRows
      BY <2>1 DEF TypeOK, ApptsTyped, Confirmed
    <3>2. ~Overlaps(Slot(a), Slot(b))
      BY <2>1 DEF Apart
    <3>. QED
      BY <3>1, <3>2 DEF Overlaps, Slot, Interval, AppointmentRows, Minutes
  <2>. QED
    BY <2>1 DEF NoDoubleBooking
<1>. QED
  BY <1>1, <1>2, ApartStep, TypeCorrect, PTL DEF Spec

-----------------------------------------------------------------------------
(* The calendar: what was booked stays open, on its line and clear of holidays until it is over *)

(* Time, outcomes and everything outside the calendar only shrink the pending. *)
Recedes == Pending' \subseteq Pending /\ \A a \in Pending' : appts'[a] = appts[a]

LEMMA EndedStaysEnded ==
    ASSUME TypeOK, Tick, NEW a \in Appts, appts[a] # Nil, Ended(a)
    PROVE  Ended(a)'
<1>1. appts[a] \in AppointmentRows
  BY DEF TypeOK, ApptsTyped
<1>2. appts[a].day \in Int /\ appts[a].to \in 1 .. DayLen /\ today \in Int /\ clock \in Minutes
  BY <1>1 DEF TypeOK, MomentTyped, AppointmentRows, Days
<1>. QED
  BY <1>2 DEF Ended, Tick, Minutes

LEMMA TimeRecedes == TypeOK /\ Tick => Recedes
<1>. SUFFICES ASSUME TypeOK, Tick PROVE Recedes
  OBVIOUS
<1>1. appts' = appts /\ Confirmed' = Confirmed
  BY DEF Tick, Confirmed
<1>2. \A a \in Confirmed : Ended(a) => Ended(a)'
  BY EndedStaysEnded DEF Confirmed
<1>. QED
  BY <1>1, <1>2 DEF Recedes, Pending

LEMMA StillnessRecedes == UNCHANGED <<moment, appts>> => Recedes
  BY DEF Recedes, Pending, Confirmed, Ended, moment

LEMMA OutcomesRecede == ApptsTyped /\ Settles => Recedes
<1>. SUFFICES ASSUME ApptsTyped, Settles PROVE Recedes
  OBVIOUS
<1>1. \A a \in Confirmed' : a \in Confirmed /\ appts'[a] = appts[a]
  BY SettleShrinks
<1>2. \A a \in Confirmed' : Ended(a)' <=> Ended(a)
  BY <1>1 DEF Ended, Settles, moment
<1>. QED
  BY <1>1, <1>2 DEF Recedes, Pending

(* What a step may do to the pending appointments and to the calendar. *)
LEMMA CalendarKinds ==
    ASSUME TypeOK, [Next]_vars
    PROVE  \/ \E s \in Sessions : Book(s)
           \/ Configure /\ UNCHANGED <<moment, appts>>
           \/ UNCHANGED calendar /\ Recedes
<1>1. CASE Configure
  BY <1>1 DEF Configure, ChangeRules, ChangeClosures, ChangeLine, SetNationalHolidays, ReconcileHolidays
<1>2. CASE Tick
  BY <1>2, TimeRecedes DEF Tick
<1>3. CASE ChangeAround \/ UNCHANGED vars
  BY <1>3, StillnessRecedes DEF ChangeAround, ChangeService, ToggleBusiness, TogglePublicBooking,
                                ChangeClient, vars
<1>4. CASE UseTheWeb
  BY <1>4, StillnessRecedes DEF UseTheWeb, ChooseSlot, DropDraft, SubmitPublic,
                                SubmitProfessional, Submit
<1>5. CASE \E s \in Sessions : Replay(s) \/ Refuse(s)
  BY <1>5, StillnessRecedes DEF Replay, Refuse, Conclude
<1>6. CASE ChangeOutcome
  <2>1. UNCHANGED <<moment, calendar>>
    BY <1>6 DEF ChangeOutcome
  <2>2. UNCHANGED appts \/ (\E s \in Sessions : Book(s)) \/ Settles
    BY <1>6, StepKinds DEF Next, TypeOK
  <2>. QED
    BY <2>1, <2>2, StillnessRecedes, OutcomesRecede DEF TypeOK
<1>. QED
  BY <1>1, <1>2, <1>3, <1>4, <1>5, <1>6 DEF Next, Confirm

(* What a booking adds: one appointment, where the calendar has a slot for it. *)
LEMMA BookAdds ==
    ASSUME TypeOK, NEW s \in Sessions, Book(s)
    PROVE  \E a \in Appts, l \in Lines, d \in Days, m \in Minutes, n \in Bookable :
              /\ UNCHANGED <<moment, calendar>>
              /\ HasSlot(l, d, m, n)
              /\ appts'[a].line = l /\ appts'[a].day = d
              /\ appts'[a].from = m /\ appts'[a].to = m + n
              /\ \A b \in Pending' : b = a \/ (b \in Pending /\ appts'[b] = appts[b])
<1>. USE DEF TypeOK
<1>. DEFINE q == request[s]
<1>1. PICK a \in Appts, l \in Lines :
        /\ MayBook(q, l) /\ q \in Requests /\ Conclude(s, a)
        /\ appts' = [appts EXCEPT ![a] =
               [line |-> l, day |-> q.day, from |-> q.from, to |-> q.from + q.duration,
                client |-> q.client, items |-> Snapshot(q.services), reason |-> q.reason,
                ref |-> q.ref, status |-> "confirmed"]]
  BY BookedRow
<1>2. q.day \in Days /\ q.from \in Minutes /\ q.duration \in Bookable
  BY <1>1 DEF Requests
<1>3. UNCHANGED <<moment, calendar>> /\ HasSlot(l, q.day, q.from, q.duration)
  BY <1>1 DEF Conclude, MayBook, LineFor
<1>4. /\ appts'[a].line = l /\ appts'[a].day = q.day
      /\ appts'[a].from = q.from /\ appts'[a].to = q.from + q.duration
      /\ \A b \in Appts \ {a} : appts'[b] = appts[b]
  BY <1>1 DEF ApptsTyped
<1>5. \A b \in Pending' : b = a \/ (b \in Pending /\ appts'[b] = appts[b])
  BY <1>3, <1>4 DEF Pending, Confirmed, Ended, moment
<1>. QED
  BY <1>2, <1>3, <1>4, <1>5

-----------------------------------------------------------------------------
(* Opening rules *)

LEMMA CoverageGrows ==
    ASSUME NEW i, NEW S, NEW T, S \subseteq T, CoveredBy(i, S)
    PROVE  CoveredBy(i, T)
  BY DEF CoveredBy

(* Whatever replaces a rule that was not in force closes nothing. *)
LEMMA IdleRuleReplaced ==
    ASSUME NEW r \in RuleIds, NEW x, NEW d, CalendarTyped,
           rules[r] = Nil \/ ~rules[r].active,
           rules' = [rules EXCEPT ![r] = x]
    PROVE  OpeningsOf(rules, d) \subseteq OpeningsOf(rules', d)
<1>1. \A p \in RuleIds \ {r} : rules'[p] = rules[p]
  BY DEF CalendarTyped
<1>2. r \notin ActiveRulesOf(rules, d)
  BY DEF ActiveRulesOf
<1>3. ActiveRulesOf(rules, d) \subseteq ActiveRulesOf(rules', d)
  BY <1>1, <1>2 DEF ActiveRulesOf
<1>4. \A p \in ActiveRulesOf(rules, d) : rules'[p] = rules[p]
  BY <1>1, <1>2 DEF ActiveRulesOf
<1>. QED
  BY <1>3, <1>4 DEF OpeningsOf

LEMMA RulesKeepPendingCovered ==
    ASSUME TypeOK, PendingInsideRules, ChangeRules
    PROVE  KeepsAppointmentsCovered(rules')
<1>1. ASSUME \A d : OpeningsOf(rules, d) \subseteq OpeningsOf(rules', d)
      PROVE  KeepsAppointmentsCovered(rules')
  BY <1>1, CoverageGrows DEF PendingInsideRules, KeepsAppointmentsCovered
<1>2. ASSUME NEW r \in RuleIds, NEW row \in RuleRows, NEW on \in BOOLEAN, CreateRule(r, row, on)
      PROVE  KeepsAppointmentsCovered(rules')
  BY <1>1, <1>2, IdleRuleReplaced DEF CreateRule, TypeOK
<1>3. ASSUME NEW r \in RuleIds, NEW row \in RuleRows, NEW on \in BOOLEAN, EditRule(r, row, on)
      PROVE  KeepsAppointmentsCovered(rules')
  BY <1>1, <1>3, IdleRuleReplaced DEF EditRule, TypeOK
<1>4. ASSUME NEW r \in RuleIds, ToggleRule(r) PROVE KeepsAppointmentsCovered(rules')
  <2>1. CASE rules[r].active
    BY <1>4, <2>1 DEF ToggleRule
  <2>2. CASE ~rules[r].active
    <3>1. rules' = [rules EXCEPT ![r] = [rules[r] EXCEPT !.active = ~rules[r].active]]
      BY <1>4 DEF ToggleRule
    <3>. QED
      BY <1>1, <2>2, <3>1, IdleRuleReplaced DEF TypeOK
  <2>. QED
    BY <2>1, <2>2
<1>. QED
  BY <1>2, <1>3, <1>4 DEF ChangeRules

LEMMA InsideStep == TypeOK /\ PendingInsideRules /\ [Next]_vars => PendingInsideRules'
<1>. SUFFICES ASSUME TypeOK, PendingInsideRules, [Next]_vars PROVE PendingInsideRules'
  OBVIOUS
<1>1. ASSUME NEW s \in Sessions, Book(s) PROVE PendingInsideRules'
  <2>1. PICK a \in Appts, l \in Lines, d \in Days, m \in Minutes, n \in Bookable :
          /\ UNCHANGED <<moment, calendar>>
          /\ HasSlot(l, d, m, n)
          /\ appts'[a].line = l /\ appts'[a].day = d
          /\ appts'[a].from = m /\ appts'[a].to = m + n
          /\ \A b \in Pending' : b = a \/ (b \in Pending /\ appts'[b] = appts[b])
    BY <1>1, BookAdds
  <2>2. rules' = rules
    BY <2>1 DEF calendar
  <2>3. CoveredBy(Interval(m, m + n), OpeningsOf(rules, d))
    <3>. DEFINE threshold == IF d = today THEN CeilToSlot(clock) ELSE 0
    <3>1. PICK i \in OpeningsOf(rules, d) : TrimFrom(threshold, i) <= m /\ m + n <= i.to
      BY <2>1 DEF HasSlot, Offered
    <3>2. i.from \in Minutes /\ i.to \in Minutes
      BY <3>1 DEF OpeningsOf, ActiveRulesOf, Interval, TypeOK, CalendarTyped, RuleRecords
    <3>3. threshold \in Int
      BY DEF TypeOK, MomentTyped, CeilToSlot, Minutes
    <3>4. i.from <= m
      BY <3>1, <3>2, <3>3 DEF TrimFrom, Minutes
    <3>. QED
      BY <3>1, <3>2, <3>4 DEF CoveredBy, Interval, Minutes, Bookable
  <2>4. ASSUME NEW b \in Pending' PROVE CoveredBy(Slot(b)', OpeningsOf(rules', appts'[b].day))
    <3>1. CASE b = a
      BY <2>1, <2>2, <2>3, <3>1 DEF Slot
    <3>2. CASE b \in Pending /\ appts'[b] = appts[b]
      BY <2>2, <3>2 DEF PendingInsideRules, Slot
    <3>. QED
      BY <2>1, <2>4, <3>1, <3>2
  <2>. QED
    BY <2>4 DEF PendingInsideRules
<1>2. CASE Configure /\ UNCHANGED <<moment, appts>>
  <2>1. Pending' = Pending /\ \A a \in Pending : Slot(a)' = Slot(a) /\ appts'[a] = appts[a]
    BY <1>2 DEF Pending, Confirmed, Ended, Slot, moment
  <2>2. CASE ChangeRules
    BY <2>1, <2>2, RulesKeepPendingCovered DEF KeepsAppointmentsCovered, PendingInsideRules
  <2>3. CASE UNCHANGED rules
    BY <2>1, <2>3 DEF PendingInsideRules
  <2>. QED
    BY <1>2, <2>2, <2>3 DEF Configure, ChangeClosures, ChangeLine, SetNationalHolidays, ReconcileHolidays
<1>3. CASE UNCHANGED calendar /\ Recedes
  BY <1>3 DEF calendar, Recedes, PendingInsideRules, Slot
<1>. QED
  BY <1>1, <1>2, <1>3, CalendarKinds

(***************************************************************************)
(* The active opening rules cover every pending appointment: the guard of  *)
(* each rule change and the slot check of each booking, both under the     *)
(* calendar lock, keep it so in whatever order they come.                  *)
(***************************************************************************)
THEOREM PendingStaysInside == Spec => []PendingInsideRules
<1>1. Init => PendingInsideRules
  BY DEF Init, PendingInsideRules, Pending, Confirmed
<1>. QED
  BY <1>1, InsideStep, TypeCorrect, PTL DEF Spec

-----------------------------------------------------------------------------
(* Lines and closures *)

(* No active closure, line by line, meets an appointment of line l on day d. *)
ClearOf(cs, l, d, i) == \A j \in ClosedOn(cs, l, d) : ~(j.from < i.to /\ i.from < j.to)

LEMMA SavedClosureIsClear ==
    ASSUME NEW c \in ClosureIds, NEW x, KeepsClosureClear(x), CalendarTyped,
           closures' = [closures EXCEPT ![c] = x],
           NEW a \in Pending, x.active \in BOOLEAN,
           ClearOf(closures, appts[a].line, appts[a].day, Slot(a))
    PROVE  ClearOf(closures', appts[a].line, appts[a].day, Slot(a))
<1>. DEFINE l == appts[a].line
<1>. DEFINE d == appts[a].day
<1>. SUFFICES ASSUME NEW j \in ClosedOn(closures', l, d)
              PROVE  ~(j.from < Slot(a).to /\ Slot(a).from < j.to)
  BY DEF ClearOf
<1>1. PICK p \in ClosureIds :
        /\ closures'[p] # Nil /\ Reaches(closures'[p], l, d)
        /\ j = Interval(closures'[p].from, closures'[p].to)
  BY DEF ClosedOn
<1>2. CASE p = c
  <2>1. closures'[p] = x
    BY <1>2 DEF CalendarTyped
  <2>2. x.active /\ Reaches(x, l, d)
    BY <1>1, <2>1 DEF Reaches
  <2>3. ~Overlaps(Slot(a), Interval(x.from, x.to))
    BY <2>2 DEF KeepsClosureClear
  <2>. QED
    BY <1>1, <2>1, <2>3 DEF Overlaps
<1>3. CASE p # c
  <2>1. closures'[p] = closures[p]
    BY <1>3 DEF CalendarTyped
  <2>2. j \in ClosedOn(closures, l, d)
    BY <1>1, <2>1 DEF ClosedOn
  <2>. QED
    BY <2>2 DEF ClearOf
<1>. QED
  BY <1>2, <1>3

LEMMA OpenLineReads ==
    PendingOnOpenLine <=>
        \A a \in Pending : /\ lines[appts[a].line] = "active"
                           /\ ClearOf(closures, appts[a].line, appts[a].day, Slot(a))
  BY DEF PendingOnOpenLine, ClearOf, Slot, Interval

LEMMA ClosuresKeepPendingClear ==
    ASSUME TypeOK, PendingOnOpenLine, ChangeClosures, NEW a \in Pending
    PROVE  ClearOf(closures', appts[a].line, appts[a].day, Slot(a))
<1>1. ClearOf(closures, appts[a].line, appts[a].day, Slot(a))
  BY OpenLineReads
<1>2. ASSUME NEW c \in ClosureIds, NEW row \in ClosureRows, NEW on \in BOOLEAN, SaveClosure(c, row, on)
      PROVE  ClearOf(closures', appts[a].line, appts[a].day, Slot(a))
  <2>1. Closure(row, on).active \in BOOLEAN
    BY DEF Closure
  <2>. QED
    BY <1>1, <1>2, <2>1, SavedClosureIsClear DEF SaveClosure, TypeOK
<1>3. ASSUME NEW c \in ClosureIds, ToggleClosure(c)
      PROVE  ClearOf(closures', appts[a].line, appts[a].day, Slot(a))
  <2>. DEFINE x == [closures[c] EXCEPT !.active = ~closures[c].active]
  <2>1. closures[c] \in ClosureRecords
    BY <1>3 DEF ToggleClosure, TypeOK, CalendarTyped
  <2>2. x.active \in BOOLEAN
    BY <2>1 DEF ClosureRecords
  <2>3. KeepsClosureClear(x) /\ closures' = [closures EXCEPT ![c] = x]
    BY <1>3 DEF ToggleClosure
  <2>. QED
    BY <1>1, <2>2, <2>3, SavedClosureIsClear DEF TypeOK
<1>. QED
  BY <1>2, <1>3 DEF ChangeClosures

LEMMA OpenLineStep == TypeOK /\ PendingOnOpenLine /\ [Next]_vars => PendingOnOpenLine'
<1>. SUFFICES ASSUME TypeOK, PendingOnOpenLine, [Next]_vars PROVE PendingOnOpenLine'
  OBVIOUS
<1>0. PendingOnOpenLine' <=>
        \A a \in Pending' : /\ lines'[appts'[a].line] = "active"
                            /\ ClearOf(closures', appts'[a].line, appts'[a].day, Slot(a)')
  BY DEF PendingOnOpenLine, ClearOf, Slot, Interval
<1>1. ASSUME NEW s \in Sessions, Book(s) PROVE PendingOnOpenLine'
  <2>1. PICK a \in Appts, l \in Lines, d \in Days, m \in Minutes, n \in Bookable :
          /\ UNCHANGED <<moment, calendar>>
          /\ HasSlot(l, d, m, n)
          /\ appts'[a].line = l /\ appts'[a].day = d
          /\ appts'[a].from = m /\ appts'[a].to = m + n
          /\ \A b \in Pending' : b = a \/ (b \in Pending /\ appts'[b] = appts[b])
    BY <1>1, BookAdds
  <2>2. lines' = lines /\ closures' = closures
    BY <2>1 DEF calendar
  <2>3. lines[l] = "active" /\ ClearOf(closures, l, d, Interval(m, m + n))
    BY <2>1 DEF HasSlot, Offered, ClearOf, Overlaps
  <2>4. Slot(a)' = Interval(m, m + n)
    BY <2>1 DEF Slot
  <2>5. ASSUME NEW b \in Pending, appts'[b] = appts[b]
        PROVE  /\ lines'[appts'[b].line] = "active"
               /\ ClearOf(closures', appts'[b].line, appts'[b].day, Slot(b)')
    BY <2>2, <2>5, OpenLineReads DEF Slot
  <2>. QED
    BY <1>0, <2>1, <2>2, <2>3, <2>4, <2>5
<1>2. CASE Configure /\ UNCHANGED <<moment, appts>>
  <2>1. Pending' = Pending /\ \A a \in Pending : Slot(a)' = Slot(a) /\ appts'[a] = appts[a]
    BY <1>2 DEF Pending, Confirmed, Ended, Slot, moment
  <2>2. CASE ChangeClosures
    <3>1. lines' = lines
      BY <2>2 DEF ChangeClosures
    <3>. QED
      BY <1>0, <2>1, <2>2, <3>1, ClosuresKeepPendingClear, OpenLineReads
  <2>3. CASE ChangeLine
    <3>1. closures' = closures
      BY <2>3 DEF ChangeLine
    <3>2. ASSUME NEW a \in Pending PROVE lines'[appts[a].line] = "active"
      <4>1. lines[appts[a].line] = "active"
        BY OpenLineReads
      <4>2. PICK l \in Lines, state \in {"active", "paused"} :
              /\ lines[l] = "active" /\ state = "paused" => KeepsLineClear(l)
              /\ lines' = [lines EXCEPT ![l] = state]
        BY <2>3 DEF ChangeLine
      <4>3. appts[a].line = l => state = "active"
        BY <4>1, <4>2 DEF KeepsLineClear
      <4>. QED
        BY <4>1, <4>2, <4>3 DEF TypeOK, CalendarTyped
    <3>. QED
      BY <1>0, <2>1, <3>1, <3>2, OpenLineReads
  <2>4. CASE UNCHANGED <<lines, closures>>
    BY <1>0, <2>1, <2>4, OpenLineReads
  <2>. QED
    BY <1>2, <2>2, <2>3, <2>4 DEF Configure, ChangeRules, SetNationalHolidays, ReconcileHolidays
<1>3. CASE UNCHANGED calendar /\ Recedes
  <2>1. ASSUME NEW a \in Pending' PROVE a \in Pending /\ appts'[a] = appts[a] /\ Slot(a)' = Slot(a)
    BY <1>3, <2>1 DEF Recedes, Slot
  <2>2. lines' = lines /\ closures' = closures
    BY <1>3 DEF calendar
  <2>. QED
    BY <1>0, <2>1, <2>2, OpenLineReads
<1>. QED
  BY <1>1, <1>2, <1>3, CalendarKinds

(***************************************************************************)
(* Closing and booking exclude one another in either order: the line of a  *)
(* pending appointment is in service and no active closure touches it.     *)
(***************************************************************************)
THEOREM PendingStaysOpen == Spec => []PendingOnOpenLine
<1>1. Init => PendingOnOpenLine
  BY DEF Init, PendingOnOpenLine, Pending, Confirmed
<1>. QED
  BY <1>1, OpenLineStep, TypeCorrect, PTL DEF Spec

-----------------------------------------------------------------------------
(* National holidays *)

HolidayMove == OnHoliday' \subseteq OnHoliday \/ (holidays' # holidays /\ appts' = appts)

LEMMA HolidayStep == TypeOK /\ [Next]_vars => HolidayMove
<1>. SUFFICES ASSUME TypeOK, [Next]_vars PROVE HolidayMove
  OBVIOUS
<1>1. ASSUME NEW s \in Sessions, Book(s) PROVE HolidayMove
  <2>1. PICK a \in Appts, l \in Lines, d \in Days, m \in Minutes, n \in Bookable :
          /\ UNCHANGED <<moment, calendar>>
          /\ HasSlot(l, d, m, n)
          /\ appts'[a].line = l /\ appts'[a].day = d
          /\ appts'[a].from = m /\ appts'[a].to = m + n
          /\ \A b \in Pending' : b = a \/ (b \in Pending /\ appts'[b] = appts[b])
    BY <1>1, BookAdds
  <2>2. applyHolidays' = applyHolidays /\ holidays' = holidays
    BY <2>1 DEF calendar
  <2>3. ~(applyHolidays /\ d \in holidays)
    BY <2>1 DEF HasSlot
  <2>. QED
    BY <2>1, <2>2, <2>3 DEF HolidayMove, OnHoliday
<1>2. CASE Configure /\ UNCHANGED <<moment, appts>>
  <2>1. Pending' = Pending /\ appts' = appts
    BY <1>2 DEF Pending, Confirmed, Ended, moment
  <2>2. CASE SetNationalHolidays
    <3>1. holidays' = holidays /\ applyHolidays' = ~applyHolidays
      BY <2>2 DEF SetNationalHolidays
    <3>2. ~applyHolidays => \A a \in Pending : appts[a].day \notin holidays
      BY <2>2 DEF SetNationalHolidays, KeepsHolidaysClear
    <3>. QED
      BY <2>1, <3>1, <3>2 DEF HolidayMove, OnHoliday
  <2>3. CASE ReconcileHolidays
    BY <2>1, <2>3 DEF ReconcileHolidays, HolidayMove, OnHoliday
  <2>4. CASE UNCHANGED <<holidays, applyHolidays>>
    BY <2>1, <2>4 DEF HolidayMove, OnHoliday
  <2>. QED
    BY <1>2, <2>2, <2>3, <2>4 DEF Configure, ChangeRules, ChangeClosures, ChangeLine
<1>3. CASE UNCHANGED calendar /\ Recedes
  BY <1>3 DEF calendar, Recedes, HolidayMove, OnHoliday
<1>. QED
  BY <1>1, <1>2, <1>3, CalendarKinds

(***************************************************************************)
(* A pending appointment comes to lie on an honoured national holiday only *)
(* in a step of the synchronisation, which books and settles nothing.      *)
(***************************************************************************)
THEOREM HolidaysArriveBySync == Spec => OnlySyncMovesOntoHolidays
<1>1. TypeOK /\ [Next]_vars => [HolidayMove]_vars
  BY HolidayStep
<1>. QED
  BY <1>1, TypeCorrect, PTL DEF Spec, OnlySyncMovesOntoHolidays, HolidayMove

-----------------------------------------------------------------------------
(* The booking: one per draft, as it was asked, as long as it was explained, and in the ledger *)

USE FreeRowAssumption

(* A row keeps everything but its status; only a new row appears. *)
SameBut(row, old) ==
    /\ row.line = old.line /\ row.day = old.day /\ row.from = old.from /\ row.to = old.to
    /\ row.client = old.client /\ row.items = old.items
    /\ row.reason = old.reason /\ row.ref = old.ref

LEMMA StatusKeepsTheRow ==
    ASSUME ApptsTyped, NEW S \in SUBSET Confirmed, NEW outcome \in Statuses,
           appts' = WithStatus(S, outcome), NEW a \in Appts
    PROVE  /\ appts[a] = Nil <=> appts'[a] = Nil
           /\ appts[a] # Nil => SameBut(appts'[a], appts[a])
<1>1. CASE a \in S
  <2>1. appts[a] \in AppointmentRows /\ appts[a] # Nil
    BY <1>1 DEF ApptsTyped, Confirmed
  <2>2. appts'[a] = [appts[a] EXCEPT !.status = outcome]
    BY <1>1 DEF WithStatus
  <2>3. appts'[a] \in AppointmentRows
    BY <2>1, <2>2 DEF AppointmentRows
  <2>4. SameBut(appts'[a], appts[a])
    BY <2>1, <2>2 DEF SameBut, AppointmentRows
  <2>. QED
    BY <2>1, <2>3, <2>4
<1>2. CASE a \notin S
  BY <1>2 DEF WithStatus, SameBut
<1>. QED
  BY <1>1, <1>2

LEMMA SettleKeepsTheRows ==
    ASSUME ApptsTyped, Settles, NEW a \in Appts
    PROVE  /\ appts[a] = Nil <=> appts'[a] = Nil
           /\ appts[a] # Nil => SameBut(appts'[a], appts[a])
  BY StatusKeepsTheRow DEF Settles, Statuses, Outcomes

-----------------------------------------------------------------------------
(* One appointment per draft *)

LEMMA ReferenceStep ==
    TypeOK /\ OneAppointmentPerReference /\ [Next]_vars => OneAppointmentPerReference'
<1>. SUFFICES ASSUME TypeOK, OneAppointmentPerReference, [Next]_vars
              PROVE  OneAppointmentPerReference'
  OBVIOUS
<1>. USE DEF TypeOK
<1>1. CASE UNCHANGED appts
  BY <1>1 DEF OneAppointmentPerReference
<1>2. ASSUME NEW s \in Sessions, Book(s) PROVE OneAppointmentPerReference'
  <2>. DEFINE q == request[s]
  <2>1. PICK a \in Appts, l \in Lines :
          /\ MayBook(q, l)
          /\ appts' = [appts EXCEPT ![a] =
                 [line |-> l, day |-> q.day, from |-> q.from, to |-> q.from + q.duration,
                  client |-> q.client, items |-> Snapshot(q.services), reason |-> q.reason,
                  ref |-> q.ref, status |-> "confirmed"]]
    BY <1>2, BookedRow
  <2>2. appts'[a].ref = q.ref /\ \A b \in Appts \ {a} : appts'[b] = appts[b]
    BY <2>1 DEF ApptsTyped
  <2>3. q.ref # Nil => \A b \in Appts : appts[b] # Nil => appts[b].ref # q.ref
    BY <2>1 DEF MayBook, IsPublic, BookedWith
  <2>. QED
    BY <2>2, <2>3 DEF OneAppointmentPerReference
<1>3. CASE Settles
  BY <1>3, SettleKeepsTheRows DEF OneAppointmentPerReference, SameBut
<1>. QED
  BY <1>1, <1>2, <1>3, StepKinds DEF vars

(***************************************************************************)
(* However often, from however many tabs, a draft is posted, and whatever  *)
(* became of its appointment since, at most one row carries its reference. *)
(***************************************************************************)
THEOREM OnePerDraft == Spec => []OneAppointmentPerReference
<1>1. Init => OneAppointmentPerReference
  BY DEF Init, OneAppointmentPerReference
<1>. QED
  BY <1>1, ReferenceStep, TypeCorrect, PTL DEF Spec

-----------------------------------------------------------------------------
(* An appointment lasts as long as its services *)

LEMMA DurationStep == TypeOK /\ DurationExplained /\ [Next]_vars => DurationExplained'
<1>. SUFFICES ASSUME TypeOK, DurationExplained, [Next]_vars PROVE DurationExplained'
  OBVIOUS
<1>. USE DEF TypeOK
<1>1. CASE UNCHANGED appts
  BY <1>1 DEF DurationExplained
<1>2. ASSUME NEW s \in Sessions, Book(s) PROVE DurationExplained'
  <2>. DEFINE q == request[s]
  <2>1. PICK a \in Appts, l \in Lines :
          /\ MayBook(q, l) /\ q \in Requests
          /\ appts' = [appts EXCEPT ![a] =
                 [line |-> l, day |-> q.day, from |-> q.from, to |-> q.from + q.duration,
                  client |-> q.client, items |-> Snapshot(q.services), reason |-> q.reason,
                  ref |-> q.ref, status |-> "confirmed"]]
    BY <1>2, BookedRow
  <2>2. /\ appts'[a].from = q.from /\ appts'[a].to = q.from + q.duration
        /\ appts'[a].items = Snapshot(q.services) /\ appts'[a].reason = q.reason
        /\ \A b \in Appts \ {a} : appts'[b] = appts[b]
    BY <2>1 DEF ApptsTyped
  <2>3. q.duration = SumOf(Snapshot(q.services)) \/ q.reason
    BY <2>1 DEF MayBook, LengthExplained, TotalOf
  <2>4. (q.from + q.duration) - q.from = q.duration
    BY <2>1 DEF Requests, Minutes, Bookable
  <2>. QED
    BY <2>2, <2>3, <2>4 DEF DurationExplained
<1>3. CASE Settles
  BY <1>3, SettleKeepsTheRows DEF DurationExplained, SameBut
<1>. QED
  BY <1>1, <1>2, <1>3, StepKinds DEF vars

(***************************************************************************)
(* A duration changed while a form was open never slips into the agenda:   *)
(* the row's length is the sum of the services it recorded, or explained.  *)
(***************************************************************************)
THEOREM DurationIsExplained == Spec => []DurationExplained
<1>1. Init => DurationExplained
  BY DEF Init, DurationExplained
<1>. QED
  BY <1>1, DurationStep, TypeCorrect, PTL DEF Spec

-----------------------------------------------------------------------------
(* The answer is what was asked *)

Answers(q, row) ==
    /\ row # Nil
    /\ row.client = q.client /\ row.day = q.day /\ row.from = q.from
    /\ row.to - row.from = q.duration /\ DOMAIN row.items = q.services /\ row.ref = q.ref

LEMMA AnswerIsAnswered ==
    AnswerMatchesRequest <=>
        \A s \in Sessions : answer[s] \in Appts => Answers(request[s], appts[answer[s]])
  BY DEF AnswerMatchesRequest, Answers

LEMMA SubmitKeepsAnswers ==
    ASSUME WebTyped, AnswerMatchesRequest, NEW s \in Sessions, NEW q, Submit(s, q)
    PROVE  AnswerMatchesRequest'
<1>1. answer'[s] = Nil /\ \A t \in Sessions \ {s} : answer'[t] = answer[t] /\ request'[t] = request[t]
  BY DEF Submit, WebTyped
<1>2. appts' = appts
  BY DEF Submit
<1>. QED
  BY <1>1, <1>2 DEF AnswerMatchesRequest

(* A session concludes with a row that answers it; the rows of the others stay. *)
LEMMA ConcludeKeepsAnswers ==
    ASSUME WebTyped, AnswerMatchesRequest, NEW s \in Sessions, NEW result, Conclude(s, result),
           result \in Appts => Answers(request[s], appts'[result]),
           \A a \in Appts : appts[a] # Nil => appts'[a] = appts[a]
    PROVE  AnswerMatchesRequest'
<1>1. answer'[s] = result /\ request' = request /\ \A t \in Sessions \ {s} : answer'[t] = answer[t]
  BY DEF Conclude, WebTyped
<1>2. ASSUME NEW t \in Sessions, answer'[t] \in Appts
      PROVE  Answers(request'[t], appts'[answer'[t]])
  <2>1. CASE t = s
    BY <1>1, <1>2, <2>1
  <2>2. CASE t # s
    <3>1. Answers(request[t], appts[answer[t]])
      BY <1>1, <1>2, <2>2, AnswerIsAnswered
    <3>2. appts[answer[t]] # Nil
      BY <3>1 DEF Answers
    <3>. QED
      BY <1>1, <1>2, <2>2, <3>1, <3>2
  <2>. QED
    BY <2>1, <2>2
<1>. QED
  BY <1>2 DEF AnswerMatchesRequest, Answers

LEMMA AnswerStep == TypeOK /\ AnswerMatchesRequest /\ [Next]_vars => AnswerMatchesRequest'
<1>. SUFFICES ASSUME TypeOK, AnswerMatchesRequest, [Next]_vars PROVE AnswerMatchesRequest'
  OBVIOUS
<1>. USE DEF TypeOK
<1>1. ASSUME NEW s \in Sessions, SubmitPublic(s) \/ SubmitProfessional(s)
      PROVE  AnswerMatchesRequest'
  <2>1. PICK q : Submit(s, q)
    BY <1>1 DEF SubmitPublic, SubmitProfessional
  <2>. QED
    BY <2>1, SubmitKeepsAnswers
<1>2. ASSUME NEW s \in Sessions, Book(s) PROVE AnswerMatchesRequest'
  <2>. DEFINE q == request[s]
  <2>1. PICK a \in Appts, l \in Lines :
          /\ appts[a] = Nil /\ Conclude(s, a) /\ q \in Requests
          /\ appts' = [appts EXCEPT ![a] =
                 [line |-> l, day |-> q.day, from |-> q.from, to |-> q.from + q.duration,
                  client |-> q.client, items |-> Snapshot(q.services), reason |-> q.reason,
                  ref |-> q.ref, status |-> "confirmed"]]
          /\ [line |-> l, day |-> q.day, from |-> q.from, to |-> q.from + q.duration,
              client |-> q.client, items |-> Snapshot(q.services), reason |-> q.reason,
              ref |-> q.ref, status |-> "confirmed"] \in AppointmentRows
    BY <1>2, BookedRow
  <2>2. \A b \in Appts : appts[b] # Nil => appts'[b] = appts[b]
    BY <2>1 DEF ApptsTyped
  <2>3. DOMAIN Snapshot(q.services) = q.services
    BY DEF Snapshot
  <2>4. (q.from + q.duration) - q.from = q.duration
    BY <2>1 DEF Requests, Minutes, Bookable
  <2>5. appts'[a] \in AppointmentRows /\ appts'[a] # Nil
    BY <2>1 DEF ApptsTyped
  <2>6. Answers(q, appts'[a])
    BY <2>1, <2>3, <2>4, <2>5 DEF Answers, ApptsTyped
  <2>. QED
    BY <2>1, <2>2, <2>6, ConcludeKeepsAnswers
<1>3. ASSUME NEW s \in Sessions, Replay(s) PROVE AnswerMatchesRequest'
  <2>1. PICK a \in Appts : MayReplay(request[s], a) /\ Conclude(s, a) /\ appts' = appts
    BY <1>3 DEF Replay
  <2>2. Answers(request[s], appts'[a])
    BY <2>1 DEF MayReplay, SameDraft, BookedWith, Answers
  <2>. QED
    BY <2>1, <2>2, ConcludeKeepsAnswers
<1>4. ASSUME NEW s \in Sessions, Refuse(s) PROVE AnswerMatchesRequest'
  BY <1>4, ConcludeKeepsAnswers DEF Refuse
<1>5. CASE UNCHANGED <<appts, request, answer>>
  BY <1>5 DEF AnswerMatchesRequest
<1>6. CASE Settles
  <2>1. request' = request /\ answer' = answer
    BY <1>6 DEF Settles, web
  <2>2. \A a \in Appts : (appts[a] = Nil <=> appts'[a] = Nil)
                         /\ (appts[a] # Nil => SameBut(appts'[a], appts[a]))
    BY <1>6, SettleKeepsTheRows
  <2>. QED
    BY <2>1, <2>2 DEF AnswerMatchesRequest, SameBut
<1>7. CASE Tick \/ Configure \/ ChangeAround \/ ChooseSlot \/ DropDraft
  BY <1>5, <1>7 DEF Tick, Configure, ChangeRules, ChangeClosures, ChangeLine,
                    SetNationalHolidays, ReconcileHolidays, ChangeAround, ChangeService,
                    ToggleBusiness, TogglePublicBooking, ChangeClient, ChooseSlot, DropDraft, web
<1>8. CASE ChangeOutcome
  <2>1. request' = request /\ answer' = answer
    BY <1>8 DEF ChangeOutcome, web
  <2>2. UNCHANGED appts \/ (\E s \in Sessions : Book(s)) \/ Settles
    BY <1>8, StepKinds DEF Next
  <2>. QED
    BY <2>1, <2>2, <1>2, <1>5, <1>6
<1>9. CASE UNCHANGED vars
  BY <1>5, <1>9 DEF vars, web
<1>. QED
  BY <1>1, <1>2, <1>3, <1>4, <1>7, <1>8, <1>9 DEF Next, UseTheWeb, Confirm

(***************************************************************************)
(* What a session is shown is what it asked for, fresh or replayed, and    *)
(* stays so while it is shown.                                             *)
(***************************************************************************)
THEOREM AnsweredAsAsked == Spec => []AnswerMatchesRequest
<1>1. Init => AnswerMatchesRequest
  BY DEF Init, AnswerMatchesRequest
<1>. QED
  BY <1>1, AnswerStep, TypeCorrect, PTL DEF Spec

-----------------------------------------------------------------------------
(* The agenda implements the ledger of Bookings *)

LEMMA EntryReads ==
    ASSUME ApptsTyped, NEW a \in Appts
    PROVE  /\ appts[a] = Nil => Entry(a) = Nil
           /\ appts[a] # Nil =>
                 /\ Entry(a) # Nil
                 /\ Entry(a) = [place |-> Place(appts[a]), status |-> appts[a].status]
                 /\ Place(appts[a]) \in Places
<1>1. CASE appts[a] # Nil
  <2>1. appts[a] \in AppointmentRows
    BY <1>1 DEF ApptsTyped
  <2>2. Place(appts[a]) \in Places
    BY <2>1 DEF Place, Places, AppointmentRows
  <2>3. [place |-> Place(appts[a]), status |-> appts[a].status] \in [place : Places, status : Statuses]
    BY <2>1, <2>2 DEF AppointmentRows
  <2>. QED
    BY <1>1, <2>2, <2>3 DEF Entry
<1>. QED
  BY <1>1 DEF Entry

LEMMA LedgerReads ==
    ASSUME ApptsTyped
    PROVE  /\ Ledger!Live = Confirmed
           /\ \A a \in Confirmed : Ended(a) <=> Ledger!Over(a)
<1>1. Ledger!Live = Confirmed
  BY EntryReads DEF Ledger!Live, Confirmed
<1>2. ASSUME NEW a \in Confirmed PROVE Ended(a) <=> Ledger!Over(a)
  <2>1. a \in Appts /\ Entry(a).place = Place(appts[a])
    BY EntryReads DEF Confirmed
  <2>. QED
    BY <2>1 DEF Ended, Ledger!Over, Place
<1>. QED
  BY <1>1, <1>2

LEMMA StatusSettles ==
    ASSUME ApptsTyped, NEW S \in SUBSET Confirmed, NEW outcome \in Statuses,
           appts' = WithStatus(S, outcome), UNCHANGED moment
    PROVE  Ledger!Settle(S, outcome)
<1>1. ASSUME NEW a \in Appts
      PROVE  Entry(a)' = IF a \in S THEN Ledger!Reservation(Entry(a).place, outcome) ELSE Entry(a)
  <2>1. CASE a \in S
    <3>1. appts[a] \in AppointmentRows /\ appts[a] # Nil
      BY <2>1 DEF ApptsTyped, Confirmed
    <3>2. appts'[a] # Nil /\ SameBut(appts'[a], appts[a])
      BY <3>1, StatusKeepsTheRow
    <3>3. appts'[a].status = outcome
      BY <2>1, <3>1 DEF WithStatus, AppointmentRows
    <3>4. Place(appts'[a]) = Place(appts[a])
      BY <3>2 DEF Place, SameBut
    <3>5. Entry(a)' = [place |-> Place(appts[a]), status |-> outcome]
      BY <3>2, <3>3, <3>4 DEF Entry
    <3>6. Entry(a).place = Place(appts[a])
      BY <3>1, EntryReads
    <3>. QED
      BY <2>1, <3>5, <3>6 DEF Ledger!Reservation
  <2>2. CASE a \notin S
    <3>1. appts'[a] = appts[a]
      BY <2>2 DEF WithStatus
    <3>. QED
      BY <2>2, <3>1 DEF Entry
  <2>. QED
    BY <2>1, <2>2
<1>. QED
  BY <1>1 DEF Ledger!Settle, moment

LEMMA OutcomeIsSettled ==
    ASSUME TypeOK, ChangeOutcome
    PROVE  Ledger!Cancel \/ Ledger!Close \/ UNCHANGED <<moment, appts>>
<1>. USE DEF TypeOK
<1>1. ASSUME NEW a \in Appts, CancelAppointment(a) PROVE Ledger!Cancel
  <2>1. a \in Confirmed /\ {a} \in SUBSET Confirmed /\ a \in Ledger!Live
    BY <1>1, LedgerReads DEF CancelAppointment
  <2>2. Ledger!Settle({a}, "cancelled")
    BY <1>1, <2>1, StatusSettles DEF CancelAppointment, Statuses, ChangeOutcome
  <2>. QED
    BY <2>1, <2>2 DEF Ledger!Cancel
<1>2. ASSUME NEW S \in SUBSET Confirmed, NEW outcome \in Outcomes, \A a \in S : Ended(a),
             appts' = WithStatus(S, outcome)
      PROVE  Ledger!Close
  <2>1. S \in SUBSET Ledger!Live /\ \A a \in S : Ledger!Over(a)
    BY <1>2, LedgerReads
  <2>2. Ledger!Settle(S, outcome)
    BY <1>2, StatusSettles DEF Outcomes, Statuses, ChangeOutcome
  <2>. QED
    BY <1>2, <2>1, <2>2 DEF Ledger!Close, Outcomes
<1>3. ASSUME NEW a \in Appts, NEW outcome \in Outcomes, CloseAppointment(a, outcome)
      PROVE  Ledger!Close
  <2>1. {a} \in SUBSET Confirmed /\ \A b \in {a} : Ended(b)
    BY <1>3 DEF CloseAppointment
  <2>. QED
    BY <1>2, <1>3, <2>1 DEF CloseAppointment
<1>4. CASE BeginBulkClose
  BY <1>4 DEF BeginBulkClose, ChangeOutcome
<1>5. CASE EndBulkClose
  <2>1. CASE bulk.selected \subseteq {a \in Confirmed : Ended(a)}
    <3>1. bulk.selected \in SUBSET Confirmed /\ \A a \in bulk.selected : Ended(a)
      BY <2>1
    <3>2. bulk.outcome \in Outcomes
      BY <1>5 DEF EndBulkClose, BulkTyped
    <3>. QED
      BY <1>2, <1>5, <2>1, <3>1, <3>2 DEF EndBulkClose
  <2>2. CASE ~(bulk.selected \subseteq {a \in Confirmed : Ended(a)})
    BY <1>5, <2>2 DEF EndBulkClose, ChangeOutcome
  <2>. QED
    BY <2>1, <2>2
<1>. QED
  BY <1>1, <1>3, <1>4, <1>5 DEF ChangeOutcome

LEMMA BookReserves ==
    ASSUME TypeOK, NEW s \in Sessions, Book(s)
    PROVE  Ledger!Reserve
<1>. USE DEF TypeOK
<1>. DEFINE q == request[s]
<1>. DEFINE row(l) == [line |-> l, day |-> q.day, from |-> q.from, to |-> q.from + q.duration,
                       client |-> q.client, items |-> Snapshot(q.services),
                       reason |-> q.reason, ref |-> q.ref, status |-> "confirmed"]
<1>1. PICK a \in Appts, l \in Lines :
        /\ appts[a] = Nil /\ MayBook(q, l) /\ Conclude(s, a)
        /\ row(l) \in AppointmentRows
        /\ appts' = [appts EXCEPT ![a] = row(l)]
  BY BookedRow
<1>2. appts'[a] = row(l) /\ row(l) # Nil /\ \A b \in Appts \ {a} : appts'[b] = appts[b]
  BY <1>1 DEF ApptsTyped
<1>. DEFINE p == [line |-> l, day |-> q.day, from |-> q.from, to |-> q.from + q.duration]
<1>3. p \in Places
  BY <1>1 DEF AppointmentRows, Places
<1>4. Entry(a) = Nil /\ Entry(a)' = [place |-> p, status |-> "confirmed"]
  BY <1>1, <1>2 DEF Entry, Place
<1>5. Entry(a)' # Nil
  BY <1>3, <1>4 DEF Statuses
<1>6. \A b \in Appts \ {a} : Entry(b)' = Entry(b)
  BY <1>2 DEF Entry
<1>7. ASSUME NEW b \in Ledger!Live PROVE ~Ledger!Meet(p, Entry(b).place)
  <2>1. b \in Confirmed /\ Entry(b).place = Place(appts[b])
    BY <1>7, LedgerReads, EntryReads DEF Confirmed
  <2>2. CASE appts[b].line = l /\ appts[b].day = q.day
    <3>1. Slot(b) \in TakenOn(l, q.day)
      BY <2>1, <2>2 DEF TakenOn
    <3>2. ~Overlaps(Interval(q.from, q.from + q.duration), Slot(b))
      BY <1>1, <3>1 DEF MayBook, ClashesWithConfirmed
    <3>. QED
      BY <2>1, <3>2 DEF Overlaps, Slot, Interval, Place, Ledger!Meet
  <2>3. CASE ~(appts[b].line = l /\ appts[b].day = q.day)
    BY <2>1, <2>3 DEF Place, Ledger!Meet
  <2>. QED
    BY <2>2, <2>3
<1>8. UNCHANGED <<today, clock>>
  BY <1>1 DEF Conclude, moment
<1>. DEFINE L == [b \in Appts |-> Entry(b)]
<1>9. L' = [L EXCEPT ![a] = Ledger!Reservation(p, "confirmed")]
  <2>1. L' = [b \in Appts |-> Entry(b)']
    OBVIOUS
  <2>2. ASSUME NEW b \in Appts
        PROVE  Entry(b)' = [L EXCEPT ![a] = Ledger!Reservation(p, "confirmed")][b]
    BY <1>4, <1>6 DEF Ledger!Reservation
  <2>. QED
    BY <2>1, <2>2
<1>10. L[a] = Nil /\ L'[a] # Nil /\ L'[a].place = p
  BY <1>4, <1>5
<1>11. \A b \in Ledger!Live : ~Ledger!Meet(L'[a].place, L[b].place)
  BY <1>7, <1>10 DEF Ledger!Live
<1>. HIDE DEF L, p
<1>. QED
  BY <1>3, <1>8, <1>9, <1>10, <1>11 DEF Ledger!Reserve, L

LEMMA StutterKeepsTheLedger ==
    UNCHANGED <<moment, appts>> => UNCHANGED <<today, clock, [a \in Appts |-> Entry(a)]>>
  BY DEF moment, Entry

LEMMA LedgerStep == TypeOK /\ [Next]_vars => [Ledger!Next]_(Ledger!vars)
<1>. SUFFICES ASSUME TypeOK, [Next]_vars PROVE [Ledger!Next]_(Ledger!vars)
  OBVIOUS
<1>1. CASE UNCHANGED <<moment, appts>>
  BY <1>1, StutterKeepsTheLedger DEF Ledger!vars
<1>2. CASE Tick
  <2>1. UNCHANGED [a \in Appts |-> Entry(a)]
    BY <1>2 DEF Tick, Entry
  <2>2. (today' = today /\ clock' > clock) \/ today' > today
    BY <1>2 DEF Tick, TypeOK, MomentTyped, Days, Minutes
  <2>. QED
    BY <2>1, <2>2 DEF Ledger!Next, Ledger!Pass
<1>3. CASE ChangeOutcome
  BY <1>1, <1>3, OutcomeIsSettled DEF Ledger!Next
<1>4. ASSUME NEW s \in Sessions, Book(s) PROVE Ledger!Next
  BY <1>4, BookReserves DEF Ledger!Next
<1>5. CASE Configure \/ ChangeAround
  BY <1>1, <1>5 DEF Configure, ChangeRules, ChangeClosures, ChangeLine, SetNationalHolidays,
                    ReconcileHolidays, ChangeAround, ChangeService, ToggleBusiness,
                    TogglePublicBooking, ChangeClient
<1>6. CASE UseTheWeb
  BY <1>1, <1>6 DEF UseTheWeb, ChooseSlot, DropDraft, SubmitPublic, SubmitProfessional, Submit
<1>7. CASE \E s \in Sessions : Replay(s) \/ Refuse(s)
  BY <1>1, <1>7 DEF Replay, Refuse, Conclude
<1>8. CASE UNCHANGED vars
  BY <1>1, <1>8 DEF vars
<1>. QED
  BY <1>2, <1>3, <1>4, <1>5, <1>6, <1>7, <1>8 DEF Next, Confirm

(***************************************************************************)
(* The agenda implements the ledger: whatever its calendar, its channels   *)
(* and its bulk closings do, reservations are made on free minutes, never  *)
(* move, get one outcome, and are attended or missed only once over.       *)
(***************************************************************************)
THEOREM ImplementsTheLedger == Spec => KeepsTheLedger
<1>1. Init => Ledger!Init
  BY DEF Init, Ledger!Init, Entry
<1>. QED
  BY <1>1, LedgerStep, TypeCorrect, PTL DEF Spec, KeepsTheLedger, Ledger!Spec
=============================================================================
