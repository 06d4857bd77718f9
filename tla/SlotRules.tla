------------------------------ MODULE SlotRules ------------------------------
(***************************************************************************)
(* The vocabulary of one calendar day of a salon, shared by the slot       *)
(* engine (which computes the free slots) and by the agenda (which books   *)
(* them).  A moment of a day is a minute 0..DayLen - 1 of the wall clock;  *)
(* DayLen and Step (slot_interval_minutes) are parameters so that small    *)
(* days can be explored.  Intervals are half open: [from, to).             *)
(***************************************************************************)
EXTENDS Integers

CONSTANTS
    DayLen,   \* minutes of a day
    Step      \* slot_interval_minutes of the business calendar

ASSUME DayAssumption == DayLen \in Nat \ {0} /\ Step \in Nat \ {0}

Interval(from, to) == [from |-> from, to |-> to]

\* Variant: an interval that began earlier does not count.
OverlapsFromItsStart(i, j) == i.from <= j.from /\ j.from < i.to

\* starts_at__lt=ends_at, ends_at__gt=starts_at
Overlaps(i, j) == i.from < j.to /\ j.from < i.to

Within(i, j) == j.from <= i.from /\ i.to <= j.to

OnGrid(m) == m % Step = 0

\* The first grid minute not before m; from the last Step minutes of a day it
\* lies on the NEXT date (the result is then DayLen or more).
CeilToSlot(m) == IF OnGrid(m) THEN m ELSE m + Step - (m % Step)

(***************************************************************************)
(* A day calculated "from now" drops what lies before the threshold, but   *)
(* only while the rounded threshold still falls on the day itself          *)
(* (calculated_from.date() == target_date).                                *)
(***************************************************************************)
TrimFrom(threshold, i) ==
    IF threshold < DayLen /\ i.from < threshold THEN threshold ELSE i.from

(***************************************************************************)
(* What it means for [s, s + n) to be a slot: on the grid, inside one      *)
(* opening interval once trimmed, and clear of everything busy.  SlotEngine*)
(* computes exactly this set (MCSlotEngine checks it); Agenda books by it. *)
(***************************************************************************)
Offered(open, busy, threshold, s, n) ==
    /\ OnGrid(s)
    /\ \E i \in open : TrimFrom(threshold, i) <= s /\ s + n <= i.to
    /\ \A b \in busy : ~Overlaps(Interval(s, s + n), b)

\* Every minute of i lies in some interval of S.
CoveredBy(i, S) ==
    \A m \in i.from .. i.to - 1 : \E j \in S : j.from <= m /\ m < j.to
=============================================================================
