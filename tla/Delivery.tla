------------------------------- MODULE Delivery -------------------------------
(***************************************************************************)
(* What the outbox promises, without rows, leases or workers.  SMTP gives  *)
(* no exactly-once delivery, so a message may be handed over more than     *)
(* once: but no more than MaxAttempts times under one delivery reference,  *)
(* it is called sent only if the mail service took it, and a verdict       *)
(* stands until somebody asks for the message again.                       *)
(***************************************************************************)
EXTENDS Integers

CONSTANTS Emails, Resendable, MaxRefs, MaxAttempts

VARIABLES state, reference, handed

vars == <<state, reference, handed>>

Copies == (1 .. MaxRefs) \X (1 .. MaxAttempts)   \* <<reference, attempt>>

Init ==
    /\ state = [e \in Emails |-> "none"]
    /\ reference = [e \in Emails |-> 1]
    /\ handed = [e \in Emails |-> {}]

Queue(e) ==
    /\ state[e] = "none"
    /\ state' = [state EXCEPT ![e] = "open"]
    /\ UNCHANGED <<reference, handed>>

HandOver(e) ==
    /\ \E copy \in Copies :
          /\ copy \notin handed[e]
          /\ copy[1] <= reference[e]
          /\ handed' = [handed EXCEPT ![e] = @ \cup {copy}]
    /\ UNCHANGED <<state, reference>>

TakenByService(e) == \E copy \in handed[e] : copy[1] = reference[e]

Settle(e, verdict) ==
    /\ state[e] = "open"
    /\ verdict = "sent" => TakenByService(e)
    /\ state' = [state EXCEPT ![e] = verdict]
    /\ UNCHANGED <<reference, handed>>

Reopen(e) ==
    /\ e \in Resendable /\ state[e] # "none"
    /\ state' = [state EXCEPT ![e] = "open"]
    /\ reference' = [reference EXCEPT ![e] = @ + 1]
    /\ UNCHANGED handed

Next == \E e \in Emails :
    \/ Queue(e) \/ HandOver(e) \/ Reopen(e)
    \/ \E verdict \in {"sent", "failed", "cancelled"} : Settle(e, verdict)

Spec == Init /\ [][Next]_vars
=============================================================================
