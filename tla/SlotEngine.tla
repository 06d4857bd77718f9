------------------------------ MODULE SlotEngine ------------------------------
(***************************************************************************)
(* apps/booking/slot_engine.py: how the free slots of a day are computed,  *)
(* ranked, and offered to a professional or to the public web.  Sequences  *)
(* stand for the tuples of the code, recursive functions over the number   *)
(* of rounds done for its loops.  A slot is [line, day, from, to, score];  *)
(* one number stands for both work_line_id and work_line_number.           *)
(***************************************************************************)
EXTENDS SlotRules, Sequences, SequencesExt

Least(a, b) == IF a <= b THEN a ELSE b
Greatest(a, b) == IF a >= b THEN a ELSE b

AnyInterval == [from : Int, to : Int]

\* The elements of s that are in S, in their order.
Kept(s, S) == FlattenSeq([k \in DOMAIN s |-> IF s[k] \in S THEN <<s[k]>> ELSE <<>>])

(***************************************************************************)
(* sorted(...): the sort of Python is stable, so an element goes after     *)
(* those already placed that may stand before it.  order holds the pairs   *)
(* <<a, b>> whose key allows a before b.                                   *)
(***************************************************************************)
Inserted(order, placed, x) ==
    LET first == {y \in ToSet(placed) : <<y, x>> \in order}
    IN  Kept(placed, first) \o <<x>> \o Kept(placed, ToSet(placed) \ first)

Sorting(order, s) ==
    LET placed[k \in 0 .. Len(s)] ==
            IF k = 0 THEN <<>> ELSE Inserted(order, placed[k - 1], s[k])
    IN  placed
Sorted(order, s) == Sorting(order, s)[Len(s)]

TrimIntervalsBefore(open, threshold) ==
    LET kept == Kept(open, {i \in AnyInterval : i.to > threshold})
    IN  [k \in DOMAIN kept |->
            Interval(Greatest(kept[k].from, threshold), kept[k].to)]

\* calculated_from: the trim applies only while its date is the target date.
OpenFrom(open, threshold) ==
    IF threshold < DayLen THEN TrimIntervalsBefore(open, threshold) ELSE open

\* key=lambda interval: interval[0]
ByStart == {p \in AnyInterval \X AnyInterval : p[1].from <= p[2].from}

\* Variant: a busy interval inside the previous one shortens it.
AbsorbKeepingLastEnd(merged, i) ==
    IF merged # <<>> /\ i.from <= Last(merged).to
    THEN Append(Front(merged), Interval(Last(merged).from, i.to))
    ELSE Append(merged, i)

\* One round of the merge: i extends the last interval it touches, or follows it.
Absorb(merged, i) ==
    IF merged # <<>> /\ i.from <= Last(merged).to
    THEN Append(Front(merged),
                Interval(Last(merged).from, Greatest(Last(merged).to, i.to)))
    ELSE Append(merged, i)

Merging(sorted) ==
    LET merged[k \in 0 .. Len(sorted)] ==
            IF k = 0 THEN <<>> ELSE Absorb(merged[k - 1], sorted[k])
    IN  merged

MergeIntervals(intervals) ==
    LET sorted == Sorted(ByStart, Kept(intervals, {i \in AnyInterval : i.from < i.to}))
    IN  Merging(sorted)[Len(sorted)]

(***************************************************************************)
(* One availability interval minus the busy ones.  The cursor is the first *)
(* minute not yet known to be free or busy; the code's break once it has   *)
(* reached the end changes nothing, later intervals being skipped anyway.  *)
(***************************************************************************)
Cut(i, state, b) ==
    IF b.to <= state.cursor \/ b.from >= i.to
    THEN state
    ELSE [cursor |-> Greatest(state.cursor, b.to),
          free   |-> IF b.from > state.cursor
                     THEN Append(state.free, Interval(state.cursor, Least(b.from, i.to)))
                     ELSE state.free]

Cutting(i, busy) ==
    LET state[k \in 0 .. Len(busy)] ==
            IF k = 0 THEN [cursor |-> i.from, free |-> <<>>]
            ELSE Cut(i, state[k - 1], busy[k])
    IN  state

SubtractFrom(i, busy) ==
    LET end == Cutting(i, busy)[Len(busy)]
    IN  IF end.cursor < i.to
        THEN Append(end.free, Interval(end.cursor, i.to))
        ELSE end.free

SubtractBusyIntervals(open, busy) ==
    FlattenSeq([k \in DOMAIN open |-> SubtractFrom(open[k], busy)])

Score(slot, gap, n) ==
    LET before == slot.from - gap.from
        after  == gap.to - slot.to
        useful == Least(n, 60)
        Leaves(rest)  == IF 0 < rest /\ rest < useful THEN -140
                         ELSE IF rest >= useful THEN 15 ELSE 0
    IN  IF before = 0 /\ after = 0 THEN 1240
        ELSE 1000 + (IF before = 0 \/ after = 0 THEN 120 ELSE 0)
                  + Leaves(before) + Leaves(after)

\* The slots of one free gap, a grid step apart.
SlotsOfGap(gap, n) ==
    LET first == CeilToSlot(gap.from)
        count == IF first + n > gap.to THEN 0 ELSE 1 + (gap.to - n - first) \div Step
    IN  [k \in 1 .. count |->
            LET slot == Interval(first + (k - 1) * Step, first + (k - 1) * Step + n)
            IN  [from |-> slot.from, to |-> slot.to, score |-> Score(slot, gap, n)]]

\* The slots of one line on one day (the loop body of get_day_availability).
LineSlots(open, busy, threshold, n) ==
    LET free == SubtractBusyIntervals(OpenFrom(open, threshold), MergeIntervals(busy))
    IN  FlattenSeq([k \in DOMAIN free |-> SlotsOfGap(free[k], n)])

AnySlot == [line : Int, day : Int, from : Int, to : Int, score : Int]

\* The order within a day, and the order of suggestions over several days.
SuggestionBefore(a, b) ==
    LET ka == <<a.day, -a.score, a.from, a.line>>
        kb == <<b.day, -b.score, b.from, b.line>>
    IN  \E k \in 1 .. 4 : ka[k] < kb[k] /\ \A j \in 1 .. k - 1 : ka[j] = kb[j]

BySuggestion == {p \in AnySlot \X AnySlot : ~SuggestionBefore(p[2], p[1])}
RankSlots(slots) == Sorted(BySuggestion, slots)

\* DayAvailability.slots: every line's slots, ranked.
DaySlots(day, openOf, busyOf, threshold, n, lines) ==
    LET Of(l) == LET slots == LineSlots(openOf, busyOf[l], threshold, n)
                 IN  [k \in DOMAIN slots |->
                        [line |-> l, day |-> day, from |-> slots[k].from, to |-> slots[k].to,
                         score |-> slots[k].score]]
    IN  RankSlots(FlattenSeq([k \in DOMAIN lines |-> Of(lines[k])]))

Upto(slots, limit) == SubSeq(slots, 1, Least(limit, Len(slots)))

(***************************************************************************)
(* suggest_next_slots: days are added until there are limit slots, then    *)
(* the whole is sorted and cut.  slotsOf[d] is DaySlots of the d-th day,   *)
(* found[k] what the first k days have.                                    *)
(***************************************************************************)
AddDay(found, slots, limit) == IF Len(found) >= limit THEN found ELSE found \o slots

Finding(slotsOf, daysAhead, limit) ==
    LET found[k \in 0 .. daysAhead + 1] ==
            IF k = 0 THEN <<>> ELSE AddDay(found[k - 1], slotsOf[k - 1], limit)
    IN  found

SuggestNextSlots(slotsOf, daysAhead, limit) ==
    Upto(Sorted(BySuggestion, Finding(slotsOf, daysAhead, limit)[daysAhead + 1]), limit)

\* One slot per start, the best of those that share it.
SameStart(a, b) == a.day = b.day /\ a.from = b.from
BestOfItsStart(slots) ==
    {s \in ToSet(slots) : ~\E o \in ToSet(slots) : SameStart(o, s) /\ SuggestionBefore(o, s)}
CollapsePublicSlots(slots) == Sorted(BySuggestion, Kept(slots, BestOfItsStart(slots)))

\* Variant: two lines per start are enough.
PublicSearchOfTwoLines(limit) == limit * 2

\* How many raw slots the public channel asks for before collapsing them.
PublicSearchLimit(limit) == limit * 3

GetPublicBookingOptions(slotsOf, daysAhead, limit) ==
    Upto(CollapsePublicSlots(SuggestNextSlots(slotsOf, daysAhead, PublicSearchLimit(limit))),
         limit)

\* Variant: adjoining rules do not continue one another.
CoveredByOneRule(appointment, rules) ==
    \E r \in ToSet(rules) : Within(appointment, r)

\* key=lambda item: (item.start_time, item.end_time, ...)
ByStartAndEnd ==
    {p \in AnyInterval \X AnyInterval :
        \/ p[1].from < p[2].from
        \/ p[1].from = p[2].from /\ p[1].to <= p[2].to}

(***************************************************************************)
(* _appointment_is_covered_by_rules: the chain of rules, sorted by start,  *)
(* that must reach from the appointment's start to its end.                *)
(***************************************************************************)
Reach(appointment, state, r) ==
    IF state.done \/ r.to <= state.cursor THEN state
    ELSE IF r.from > state.cursor THEN [state EXCEPT !.done = TRUE]
    ELSE [cursor  |-> r.to,
          covered |-> r.to >= appointment.to,
          done    |-> r.to >= appointment.to]

Reaching(appointment, sorted) ==
    LET state[k \in 0 .. Len(sorted)] ==
            IF k = 0 THEN [cursor |-> appointment.from, covered |-> FALSE, done |-> FALSE]
            ELSE Reach(appointment, state[k - 1], sorted[k])
    IN  state

CoveredByRuleChain(appointment, rules) ==
    LET sorted == Sorted(ByStartAndEnd, rules)
    IN  Reaching(appointment, sorted)[Len(sorted)].covered
=============================================================================
