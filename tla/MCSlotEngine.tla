----------------------------- MODULE MCSlotEngine -----------------------------
(***************************************************************************)
(* Puts every small question to the slot engine and compares its answer    *)
(* with what the answer means.  Nothing but the duration is on the grid,   *)
(* so that off-grid rules, closures and old appointments occur.            *)
(***************************************************************************)
EXTENDS SlotEngine

CONSTANTS Lengths, MaxRules, MaxBusy, DaysAhead, Limit

\* _validate_duration accepts no other.
ASSUME LengthAssumption == Lengths \subseteq {n \in Nat \ {0} : OnGrid(n)}

ASSUME SizeAssumption ==
    MaxRules \in Nat /\ MaxBusy \in Nat /\ DaysAhead \in Nat /\ Limit \in Nat

\* A day has more than one step of the grid.
ASSUME StepAssumption == Step < DayLen

VARIABLES question, reply

NotAnswered == [ready |-> FALSE]

Intervals == {i \in [from : 0 .. DayLen - 1, to : 1 .. DayLen] : i.from < i.to}

\* The opening rules of the day, disjoint, in start order; no rule ends at
\* midnight (a TimeField has no 24:00).
Rules == {i \in Intervals : i.to < DayLen}
OpeningLists == {open \in UNION {[1 .. k -> Rules] : k \in 1 .. MaxRules} :
                \A k \in DOMAIN open : \A j \in 1 .. k - 1 : open[j].to <= open[k].from}

BusyDays == UNION {[1 .. k -> Intervals] : k \in 0 .. MaxBusy}

\* One day of one line: its rules, what is busy, the time of day and a duration.
LineQuestions == [kind : {"line"}, open : OpeningLists, busy : BusyDays,
                  clock : 0 .. DayLen - 1, n : Lengths]

\* The public short list over several days of three lines, the most the schema admits.
AllDay == <<Interval(0, DayLen - 1)>>
Occupations == {<<>>, <<Interval(0, Step)>>, <<Interval(1, Step + 1)>>, <<Interval(0, DayLen)>>}
PublicQuestions == [kind : {"public"}, busy : [0 .. DaysAhead -> [1 .. 3 -> Occupations]],
                    clock : {0, 1, Step + 1}]

Asking ==
    /\ reply = NotAnswered
    /\ question \in LineQuestions \/ question \in PublicQuestions

SlotsOf(q, d) == DaySlots(d, AllDay, q.busy[d], IF d = 0 THEN CeilToSlot(q.clock) ELSE 0,
                          Step, <<1, 2, 3>>)

AnswerLine ==
    /\ question.kind = "line"
    /\ reply' = [slots   |-> LineSlots(question.open, question.busy,
                                       CeilToSlot(question.clock), question.n),
                 covered |-> CoveredByRuleChain(
                                 Interval(question.clock, question.clock + question.n),
                                 question.open),
                 ready   |-> TRUE]

AnswerPublic ==
    /\ question.kind = "public"
    /\ reply' = [options |-> GetPublicBookingOptions(
                                 [d \in 0 .. DaysAhead |-> SlotsOf(question, d)],
                                 DaysAhead, Limit),
                 ready   |-> TRUE]

Answering == ~reply.ready /\ (AnswerLine \/ AnswerPublic) /\ UNCHANGED question
QuestionSpec == Asking /\ [][Answering]_<<question, reply>>

Answered(kind) == reply.ready /\ question.kind = kind

\* The grid starts that fit in an opening rule and touch nothing busy, each once, in order
OffersExactlyTheFreeSlots(q, slots) ==
    LET starts == [k \in DOMAIN slots |-> slots[k].from]
    IN  /\ \A s \in 0 .. DayLen :
               (s \in ToSet(starts)) <=>
                   Offered(ToSet(q.open), ToSet(q.busy), CeilToSlot(q.clock), s, q.n)
        /\ \A k \in 2 .. Len(starts) : starts[k - 1] < starts[k]

(***************************************************************************)
(* The engine offers exactly the free slots: no hole is lost by merging,   *)
(* clipping or subtracting, no start is offered twice and none is invented.*)
(* And the guard that protects appointments when a rule changes, which     *)
(* walks a chain of rules, accepts exactly when every minute of the        *)
(* appointment lies in some rule, adjoining rules included.                *)
(***************************************************************************)
EngineMeansWhatItAnswers ==
    Answered("line") =>
        LET a == Interval(question.clock, question.clock + question.n)
        IN  /\ OffersExactlyTheFreeSlots(question, reply.slots)
            /\ reply.covered <=> CoveredBy(a, ToSet(question.open))

(***************************************************************************)
(* get_booking_options searches a bounded number of raw slots, day after   *)
(* day, and only then keeps one slot per start.  Nothing is lost by it:    *)
(* the web shows the first starts of the whole horizon, each with its best *)
(* line.                                                                   *)
(***************************************************************************)
PublicOptionsLoseNothing ==
    Answered("public") =>
        LET all == FlattenSeq([k \in 1 .. DaysAhead + 1 |-> SlotsOf(question, k - 1)])
        IN  reply.options = Upto(CollapsePublicSlots(all), Limit)
=============================================================================
