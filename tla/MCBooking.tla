------------------------------ MODULE MCBooking ------------------------------
(***************************************************************************)
(* The hours the engine answers with, and the bookings made of them.  The  *)
(* questions are put to the engine alone: nothing of an agenda but its     *)
(* grid is in them, so they are asked beside a single agenda at rest.      *)
(***************************************************************************)
EXTENDS MCAgenda, MCSlotEngine

bookingvars == <<vars, focus, question, reply>>

NoQuestion == [kind |-> "none"]

AtRest ==
    /\ Init /\ InService = Lines /\ Usable = Clients
    /\ \A r \in RuleIds : rules[r] = Nil
    /\ \A x \in Services : services[x].duration = Step

InitBookingOrQuestion ==
    \/ InitBooking /\ question = NoQuestion /\ reply = NotAnswered
    \/ AtRest /\ focus = "questions" /\ Asking

NextBookingOrQuestion ==
    \/ NextBooking /\ UNCHANGED <<question, reply>>
    \/ Focused("questions", Answering) /\ UNCHANGED vars

SpecBookingOrQuestion == InitBookingOrQuestion /\ [][NextBookingOrQuestion]_bookingvars
=============================================================================
