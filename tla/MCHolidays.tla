------------------------------- MODULE MCHolidays -------------------------------
(***************************************************************************)
(* Small instances of HolidaySync, one start and one set of whole actions  *)
(* per question; `focus' never changes.                                    *)
(***************************************************************************)
EXTENDS HolidaySync, TLC

CONSTANTS s1, s2, q1, q2, a1, a2

VARIABLE focus
mcvars == <<vars, focus>>

Focused(f, step) == focus = f /\ step /\ UNCHANGED focus

TwoYears == {{1, 2}, {3}}

\* No definition below tells one panel request from another.
PanelSymmetry == Permutations(Panels)

\* An empty agenda, or one whose appointment a1 a withdrawn holiday may fall on.
InitImpact  == focus = "impact"  /\ Init /\ existing = 1 /\ holidays \in [Days -> {Nil, "other"}]
InitOverlap == focus = "overlap" /\ Init /\ existing = 1 /\ applies = [b \in Businesses |-> TRUE]
                 /\ holidays[1] = Nil /\ holidays[3] = Nil
InitCircle  == focus = "circle"  /\ Init /\ existing = 2 /\ applies = [b \in Businesses |-> TRUE]
                 /\ holidays = [d \in Days |-> Nil]

\* Only a1's fate is at stake in the reviews.
InitReviews ==
    /\ focus = "reviews"
    /\ existing = 1 /\ applies = [b \in Businesses |-> TRUE]
    /\ appts = [a \in Appts |-> IF a = a1 THEN [business |-> 1, day |-> 1, state |-> "confirmed"] ELSE Nil]
    /\ holidays \in [Days -> {Nil, "legacy"}] /\ holidays[1] = "legacy" /\ holidays[3] = Nil
    /\ reviews = [a \in Appts |-> Nil] /\ runs = <<>> /\ counted = {a1}
    /\ guard = [y \in Years |-> Nil]
    /\ syncs = [s \in Syncs |-> Nil] /\ panels = [q \in Panels |-> Nil]
    /\ held = [p \in Procs |-> {}] /\ wants = [p \in Procs |-> <<>>]

MCInit == InitImpact \/ InitOverlap \/ InitCircle \/ InitReviews

Serves(q) == Decide(q) \/ Answer(q)
Impact ==
    \/ Start(s1) /\ runs = <<>> /\ guard'[{3}] = Nil
    \/ Proceeds(s1) \/ Ends(s1)
    \/ \E q \in Panels : \/ AskBook(q) /\ panels'[q].day # 3 /\ (panels'[q].appt = a1 \/ ~NewKey(a1))
                         \/ AskSwitch(q) \/ Serves(q)
    \/ \E p \in Procs : Take(p)
    \/ CreateBusiness
Overlap ==
    \/ \E s \in Syncs : Start(s) \/ Proceeds(s) \/ Breaks(s) \/ Ends(s)
    \/ \E p \in Procs : Take(p)
Circling ==
    \/ \E s \in Syncs : \/ Start(s)
                        \/ Proceeds(s) /\ (syncs'[s] # Nil => syncs'[s].answer = syncs[s].year)
    \/ \E q \in Panels : AskClose(q) \/ Serves(q)
    \/ \E o \in Owners : OwnerAsks(o) \/ OwnerDone(o)
    \/ \E p \in Procs : Take(p) \/ Victim(p)
Reviewing ==
    \/ Start(s1) \/ Proceeds(s1)
    \/ \E q \in Panels : AskAbout(q) \/ AskSwitch(q) \/ Serves(q)
    \/ \E p \in Procs : Take(p)
    \/ Begins

MCNext == \/ Focused("impact", Impact) \/ Focused("overlap", Overlap)
          \/ Focused("circle", Circling) \/ Focused("reviews", Reviewing)

Spec == MCInit /\ [][MCNext]_mcvars

\* The one question about the paths that lock a row before its table
InitDeadlock == InitCircle
SpecDeadlock == InitDeadlock /\ [][Focused("circle", Circling)]_mcvars
=============================================================================
