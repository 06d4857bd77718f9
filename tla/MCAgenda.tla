------------------------------ MODULE MCAgenda ------------------------------
(***************************************************************************)
(* Small agendas for TLC.  The whole Next multiplies every switch by every *)
(* pair of requests, so each behaviour has a focus, fixed from the start,  *)
(* that keeps the actions one question is about, all of them whole.        *)
(* Agenda_proofs covers Next itself.                                       *)
(***************************************************************************)
EXTENDS Agenda, TLC

VARIABLE focus

Row(weekday, from, to) == [weekday |-> weekday, from |-> from, to |-> to]
Block(line, first, last, from, to) ==
    [line |-> line, first |-> first, last |-> last, from |-> from, to |-> to]

\* A first day open until its last minute, and one of adjoining openings.
WholeDay == {Row(0, 0, DayLen - 1)}
BothDays == {Row(0, 0, DayLen - 1), Row(1, 0, DayLen - 1)}
Openings == {Row(0, 0, 3), Row(0, 0, 1), Row(0, 1, 3), Row(1, 0, 3)}

NoClosures == {}
Closures   == {Block(EveryLine, 0, 0, 0, DayLen)}
              \cup {Block(l, 0, LastDay, 1, 3) : l \in Lines}

Interchangeable == Permutations(Sessions) \cup Permutations(Appts) \cup Permutations(Lines)
                   \cup Permutations(Clients) \cup Permutations(RuleIds)

-----------------------------------------------------------------------------
(* Booking: what sessions of both channels do to each other *)

Focused(f, step) == focus = f /\ step /\ UNCHANGED focus

\* Professionals and the web race for the same hours of one line.
Race == UseTheWeb \/ Confirm \/ ChangeOutcome

\* One draft posted again and again while services and client cards change.
Repost ==
    \/ ChooseSlot \/ DropDraft \/ \E s \in Sessions : SubmitPublic(s)
    \/ Confirm \/ ChangeService \/ ChangeClient \/ ChangeOutcome

InService == {l \in Lines : lines[l] = "active"}
Usable    == {k \in Clients : clientActive[k]}

\* The race needs one line, one usable client and one duration to be a race.
InitBooking ==
    /\ Init
    /\ \/ /\ focus = "race"
          /\ Cardinality(InService) = 1 /\ Cardinality(Usable) = 1
          /\ \A x \in Services : services[x].duration = Step
       \/ /\ focus = "repost"
          /\ InService = Lines /\ Usable = Clients

\* ... and everybody wants that line, for that client.
Contended ==
    /\ \A s \in Sessions : request'[s] # Nil =>
          request'[s].line \in InService /\ request'[s].client \in Usable
    /\ \A r \in Refs : drafts'[r] # Nil => drafts'[r].line \in InService

NextBooking == Focused("race", Race /\ Contended) \/ Focused("repost", Repost)
SpecBooking == InitBooking /\ [][NextBooking]_<<vars, focus>>

-----------------------------------------------------------------------------
(* The calendar changes, and time passes, under booked and wanted hours *)

Professional == \E s \in Sessions : SubmitProfessional(s)
Passing == Tick \/ Professional \/ Confirm

Recut    == Passing \/ ChangeRules
Shut     == Passing \/ ChangeClosures \/ ChangeLine
Holidays == Passing \/ SetNationalHolidays \/ ReconcileHolidays
            \/ ToggleBusiness \/ TogglePublicBooking
Settling == Passing \/ ChangeOutcome

OpenOn(weekdays) ==
    \E r \in RuleIds : rules[r] # Nil /\ rules[r].weekday \in weekdays /\ rules[r].to - rules[r].from = 3

\* Only the closures tell two lines apart; only the rules begin without openings.
InitCalendar ==
    /\ Init /\ Usable = Clients
    /\ \/ focus = "rules" /\ Cardinality(InService) = 1 /\ \A r \in RuleIds : rules[r] = Nil
       \/ focus \in {"holidays", "outcomes"} /\ Cardinality(InService) = 1 /\ OpenOn({0, 1})
       \/ focus = "closures" /\ InService = Lines /\ OpenOn({0})
NextCalendar == Focused("rules", Recut) \/ Focused("closures", Shut)
                \/ Focused("holidays", Holidays) \/ Focused("outcomes", Settling)
SpecCalendar == InitCalendar /\ [][NextCalendar]_<<vars, focus>>

-----------------------------------------------------------------------------
(* The two disagreements *)

SpecPast  == Init /\ Usable = Clients /\ focus = "outcomes" /\ [][Focused("outcomes", Settling)]_<<vars, focus>>

Pause     == Professional \/ Confirm \/ ChangeClient
SpecPause == Init /\ Usable = Clients /\ focus = "pause" /\ [][Focused("pause", Pause)]_<<vars, focus>>
=============================================================================
