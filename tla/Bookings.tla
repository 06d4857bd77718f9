------------------------------- MODULE Bookings -------------------------------
(***************************************************************************)
(* What the agenda promises, without calendars, browsers or locks: a       *)
(* ledger of reservations.  A reservation is made on minutes of a line     *)
(* that no live reservation holds, keeps its place for ever, and gets at   *)
(* most one outcome; it is attended or missed only once it is over.        *)
(***************************************************************************)
EXTENDS Integers

CONSTANTS Ids, Places, None   \* Places: [line, day, from, to]

VARIABLES today, clock, ledger

vars == <<today, clock, ledger>>

Reservation(place, status) == [place |-> place, status |-> status]

Live == {a \in Ids : ledger[a] # None /\ ledger[a].status = "confirmed"}
Over(a) == LET p == ledger[a].place
           IN  p.day < today \/ (p.day = today /\ p.to <= clock)
Meet(p, q) == p.line = q.line /\ p.day = q.day /\ p.from < q.to /\ q.from < p.to

Init == /\ today = 0 /\ clock = 0
        /\ ledger = [a \in Ids |-> None]

Pass ==
    /\ \/ today' = today /\ clock' > clock
       \/ today' > today
    /\ UNCHANGED ledger

Reserve ==
    /\ UNCHANGED <<today, clock>>
    /\ \E a \in Ids :
          /\ ledger[a] = None /\ ledger'[a] # None
          /\ ledger'[a].place \in Places
          /\ \A b \in Live : ~Meet(ledger'[a].place, ledger[b].place)
          /\ ledger' = [ledger EXCEPT ![a] = Reservation(ledger'[a].place, "confirmed")]

Settle(S, outcome) ==
    /\ UNCHANGED <<today, clock>>
    /\ ledger' = [a \in Ids |-> IF a \in S THEN Reservation(ledger[a].place, outcome)
                                ELSE ledger[a]]

Cancel == \E a \in Live : Settle({a}, "cancelled")

Close == \E S \in SUBSET Live, outcome \in {"completed", "no_show"} :
             (\A a \in S : Over(a)) /\ Settle(S, outcome)

Next == Pass \/ Reserve \/ Cancel \/ Close

Spec == Init /\ [][Next]_vars
=============================================================================
