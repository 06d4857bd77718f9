-------------------------------- MODULE Outbox --------------------------------
(***************************************************************************)
(* The transactional outbox (notifications/services.py): rows of           *)
(* OutboundEmail, the web requests that queue, resend and cancel them, and *)
(* the workers that deliver them (the timer's dispatch_due_emails and the  *)
(* immediate dispatch of a request run the same code).                     *)
(*                                                                         *)
(* Each database statement of a worker is one step, so other workers, a    *)
(* cancellation, an expired lease or a crash may come between any two.  A  *)
(* lease token is a new uuid per claim; as a worker holds one claim at a   *)
(* time, the worker's name stands for it.  Time is abstract: a row is due  *)
(* or not, a lease live or expired, and either may change at any moment.   *)
(* Queueing an existing key without resend changes texts, never control.   *)
(***************************************************************************)
EXTENDS Integers, FiniteSets

CONSTANTS
    Emails,
    Resendable,     \* account mails, queued with allow_resend; the rest are an appointment's
    Workers,
    MaxAttempts,    \* MAX_EMAIL_ATTEMPTS
    MaxRefs,        \* delivery references of a row: bounds the resends
    Nil

ASSUME OutboxAssumption ==
    /\ Resendable \subseteq Emails
    /\ MaxAttempts \in Nat \ {0} /\ MaxRefs \in Nat \ {0}
    /\ Nil \notin Workers

VARIABLES
    row,        \* OutboundEmail
    standing,   \* whether recipient and operation are still valid
    pc, claim,  \* a worker's next statement, and its _EmailClaim
    handed      \* history: copies <<delivery reference, attempt>> the mail service took

vars == <<row, standing, pc, claim, handed>>

Terminal == {"sent", "failed", "cancelled"}
Sending  == {"sending", "orphaned"}     \* orphaned: its heartbeat found the lease lost

Absent == [status |-> "absent", attempts |-> 0, due |-> FALSE, token |-> Nil,
           lease |-> FALSE, cancel |-> FALSE, ref |-> 1]
Renewed(ref) == [status |-> "pending", attempts |-> 0, due |-> TRUE, token |-> Nil,
                 lease |-> FALSE, cancel |-> FALSE, ref |-> ref]
NoClaim == [email |-> Nil, attempt |-> 0, ref |-> 0]

LeaseLive(e) == row[e].status = "processing" /\ row[e].lease

\* The compare of every compare-and-set: still PROCESSING under my token.
Owns(w) == LET e == claim[w].email IN row[e].status = "processing" /\ row[e].token = w

\* _active_claim_email finds the row: the lease must not have expired either.
Holds(w) == Owns(w) /\ row[claim[w].email].lease

\* _is_still_valid
StillValid(e) == standing[e] = "ok"

Init ==
    /\ row = [e \in Emails |-> Absent]
    /\ standing = [e \in Emails |-> "ok"]
    /\ pc = [w \in Workers |-> "idle"]
    /\ claim = [w \in Workers |-> NoClaim]
    /\ handed = [e \in Emails |-> {}]

-----------------------------------------------------------------------------
(* Web requests *)

Queue(e) ==
    /\ row[e].status = "absent" /\ StillValid(e)
    /\ \E due \in BOOLEAN :
          row' = [row EXCEPT ![e] = [@ EXCEPT !.status = "pending", !.due = due]]
    /\ UNCHANGED <<standing, pc, claim, handed>>

\* Variant: the lease of a sending worker is not looked at.
ResendOverLease(e) ==
    /\ e \in Resendable /\ row[e].status # "absent" /\ row[e].ref < MaxRefs
    /\ row' = [row EXCEPT ![e] = Renewed(row[e].ref + 1)]
    /\ UNCHANGED <<standing, pc, claim, handed>>

\* _upsert_email, allow_resend: an active lease is left alone.
Resend(e) ==
    /\ e \in Resendable /\ row[e].status # "absent" /\ row[e].ref < MaxRefs
    /\ ~LeaseLive(e)
    /\ row' = [row EXCEPT ![e] = Renewed(row[e].ref + 1)]
    /\ UNCHANGED <<standing, pc, claim, handed>>

\* cancel_appointment: the appointment and its mails, in one transaction.
CancelAppointment(e) ==
    /\ e \in Emails \ Resendable
    /\ row[e].status # "absent" /\ standing[e] # "cancelled"
    /\ standing' = [standing EXCEPT ![e] = "cancelled"]
    /\ row' = [row EXCEPT ![e] =
          CASE @.status = "processing" -> [@ EXCEPT !.cancel = TRUE]
            [] @.status = "pending" -> [@ EXCEPT !.status = "cancelled", !.cancel = TRUE,
                                                 !.token = Nil, !.lease = FALSE]
            [] OTHER -> @]
    /\ UNCHANGED <<pc, claim, handed>>

\* Access paused and back, address changed, reminder too late, account already verified...
ChangeStanding(e) ==
    /\ standing[e] # "cancelled"
    /\ standing' = [standing EXCEPT ![e] = IF @ = "ok" THEN "lapsed" ELSE "ok"]
    /\ UNCHANGED <<row, pc, claim, handed>>

-----------------------------------------------------------------------------
(* Time *)

BecomeDue(e) ==
    /\ row[e].status = "pending" /\ ~row[e].due
    /\ row' = [row EXCEPT ![e].due = TRUE]
    /\ UNCHANGED <<standing, pc, claim, handed>>

LeaseExpires(e) ==
    /\ LeaseLive(e)
    /\ row' = [row EXCEPT ![e].lease = FALSE]
    /\ UNCHANGED <<standing, pc, claim, handed>>

-----------------------------------------------------------------------------
(* Workers *)

\* Variant: only PENDING rows are looked for, so nobody recovers a dead worker's row.
PendingOnly(e) == row[e].status = "pending" /\ row[e].due

\* _claimable_email_filter
Claimable(e) ==
    \/ row[e].status = "pending" /\ row[e].due
    \/ row[e].status = "processing" /\ ~row[e].lease

\* Variant: one attempt too many.
OneMoreAttempt(e) == row[e].attempts <= MaxAttempts

AttemptsLeft(e) == row[e].attempts < MaxAttempts

\* _claim_outbound_email, when a recovered row has no attempt left
FailExhausted(e) ==
    /\ \E w \in Workers : pc[w] = "idle"
    /\ Claimable(e) /\ ~AttemptsLeft(e)
    /\ row' = [row EXCEPT ![e] = [@ EXCEPT !.status = "failed", !.token = Nil, !.lease = FALSE]]
    /\ UNCHANGED <<standing, pc, claim, handed>>

\* Variant: attempts are counted when a send fails, so a crash costs none.
ClaimUncounted(w, e) ==
    /\ pc[w] = "idle"
    /\ Claimable(e) /\ AttemptsLeft(e)
    /\ row' = [row EXCEPT ![e] = [@ EXCEPT !.status = "processing", !.attempts = 1,
                                           !.token = w, !.lease = TRUE]]
    /\ claim' = [claim EXCEPT ![w] = [email |-> e, attempt |-> 1, ref |-> row[e].ref]]
    /\ pc' = [pc EXCEPT ![w] = "claimed"]
    /\ UNCHANGED <<standing, handed>>

\* The delivery reference is read with the row and cannot change under a live claim.
Claim(w, e) ==
    /\ pc[w] = "idle"
    /\ Claimable(e) /\ AttemptsLeft(e)
    /\ row' = [row EXCEPT ![e] = [@ EXCEPT !.status = "processing", !.attempts = row[e].attempts + 1,
                                           !.token = w, !.lease = TRUE]]
    /\ claim' = [claim EXCEPT ![w] = [email |-> e, attempt |-> row[e].attempts + 1,
                                      ref |-> row[e].ref]]
    /\ pc' = [pc EXCEPT ![w] = "claimed"]
    /\ UNCHANGED <<standing, handed>>

Goto(w, label) == pc' = [pc EXCEPT ![w] = label]
LetGo(w) == Goto(w, "idle") /\ claim' = [claim EXCEPT ![w] = NoClaim]

\* _active_claim_email and the two tests that follow it, wherever they are made
Check(w, next) ==
    LET e == claim[w].email IN
    /\ IF ~Holds(w) THEN LetGo(w)
       ELSE /\ Goto(w, IF row[e].cancel \/ ~StillValid(e) THEN "cancelling" ELSE next)
            /\ UNCHANGED claim
    /\ UNCHANGED <<row, standing, handed>>

CheckBeforeRender(w) == pc[w] = "claimed" /\ Check(w, "rendering")

\* Dispatch blocked meanwhile, a template or a header fails.
RenderFails(w) ==
    /\ pc[w] = "rendering" /\ Goto(w, "failing")
    /\ UNCHANGED <<row, standing, claim, handed>>

Renew(w) ==
    /\ pc[w] = "rendering"
    /\ IF Holds(w) THEN Goto(w, "renewed") /\ UNCHANGED claim ELSE LetGo(w)
    /\ UNCHANGED <<row, standing, handed>>

CheckBeforeSend(w) == pc[w] = "renewed" /\ Check(w, "sending")

\* _EmailClaimHeartbeat: a renewal keeps the lease live, or finds it is no longer ours.
HeartbeatLosesLease(w) ==
    /\ pc[w] = "sending" /\ ~Holds(w) /\ Goto(w, "orphaned")
    /\ UNCHANGED <<row, standing, claim, handed>>

\* The mail service takes the message; the call may still fail on the way back.
HandOver(w) ==
    LET c == claim[w] IN
    /\ pc[w] \in Sending
    /\ handed' = [handed EXCEPT ![c.email] = @ \cup {<<c.ref, c.attempt>>}]
    /\ \/ pc[w] = "orphaned" /\ LetGo(w)
       \/ pc[w] = "sending" /\ Goto(w, "accepted") /\ UNCHANGED claim
       \/ Goto(w, "failing") /\ UNCHANGED claim
    /\ UNCHANGED <<row, standing>>

\* Variant: a send that the service did not confirm counts as accepted.
SendFailsSilently(w) ==
    /\ pc[w] \in Sending /\ Goto(w, "accepted")
    /\ UNCHANGED <<row, standing, claim, handed>>

\* An exception, or a backend that reports zero messages accepted.
SendFails(w) ==
    /\ pc[w] \in Sending /\ Goto(w, "failing")
    /\ UNCHANGED <<row, standing, claim, handed>>

Close(e, status) ==
    row' = [row EXCEPT ![e] = [@ EXCEPT !.status = status, !.due = FALSE,
                                        !.token = Nil, !.lease = FALSE]]

\* Variant: the row is closed by its key alone, whoever holds it now.
FinishByKey(w) ==
    /\ pc[w] = "accepted"
    /\ Close(claim[w].email, "sent")
    /\ LetGo(w) /\ UNCHANGED <<standing, handed>>

\* _finish_claim_as_accepted: the acceptance is recorded even after a cancellation.
FinishAsAccepted(w) ==
    /\ pc[w] = "accepted"
    /\ IF Owns(w) THEN Close(claim[w].email, "sent") ELSE UNCHANGED row
    /\ LetGo(w) /\ UNCHANGED <<standing, handed>>

\* _finish_claim_with_error, up to its last statement
CheckAfterError(w) == pc[w] = "failing" /\ Check(w, "rescheduling")

\* Variant: the compare-and-set forgets cancellation_requested_at.
RescheduleAnyway(w) ==
    LET c == claim[w] IN
    /\ pc[w] = "rescheduling"
    /\ IF Owns(w)
         THEN Close(c.email, IF c.attempt >= MaxAttempts THEN "failed" ELSE "pending")
         ELSE UNCHANGED row
    /\ LetGo(w) /\ UNCHANGED <<standing, handed>>

\* Retry later, give up, or leave it to the cancellation that came in between.
Reschedule(w) ==
    LET c == claim[w] IN
    /\ pc[w] = "rescheduling"
    /\ \/ /\ Owns(w) /\ ~row[c.email].cancel
          /\ Close(c.email, IF c.attempt >= MaxAttempts THEN "failed" ELSE "pending")
          /\ LetGo(w)
       \/ /\ Owns(w) /\ row[c.email].cancel
          /\ Goto(w, "cancelling") /\ UNCHANGED <<row, claim>>
       \/ ~Owns(w) /\ LetGo(w) /\ UNCHANGED row
    /\ UNCHANGED <<standing, handed>>

\* _cancel_claim
CancelClaim(w) ==
    /\ pc[w] = "cancelling"
    /\ IF Owns(w) THEN Close(claim[w].email, "cancelled") ELSE UNCHANGED row
    /\ LetGo(w) /\ UNCHANGED <<standing, handed>>

\* The process dies, or a database error escapes: the claim is forgotten, the row is not.
Crash(w) ==
    /\ pc[w] # "idle" /\ LetGo(w)
    /\ UNCHANGED <<row, standing, handed>>

-----------------------------------------------------------------------------
Deliver(w) ==
    \/ CheckBeforeRender(w) \/ RenderFails(w) \/ Renew(w) \/ CheckBeforeSend(w)
    \/ HandOver(w) \/ SendFails(w)
    \/ FinishAsAccepted(w) \/ CheckAfterError(w) \/ Reschedule(w) \/ CancelClaim(w)

Request(e) == Queue(e) \/ Resend(e) \/ CancelAppointment(e) \/ ChangeStanding(e)
Elapse(e)  == BecomeDue(e) \/ LeaseExpires(e)
Pick(e)    == FailExhausted(e) \/ \E w \in Workers : Claim(w, e)

Next ==
    \/ \E e \in Emails : Request(e) \/ Elapse(e) \/ Pick(e)
    \/ \E w \in Workers : Deliver(w) \/ HeartbeatLosesLease(w) \/ Crash(w)

Spec == Init /\ [][Next]_vars

\* A lease nobody renews runs out; a live worker's may be renewed for as long as it sends.
Abandoned(e) == \A w \in Workers : ~(claim[w].email = e /\ Owns(w))

(***************************************************************************)
(* The timer looks for due rows every five minutes (agendasalon-email      *)
(* .timer), a worker that lives goes on (EMAIL_TIMEOUT ends a hung SMTP    *)
(* call) and time passes.  Nothing is assumed of crashes.                  *)
(***************************************************************************)
Fairness ==
    /\ \A e \in Emails : WF_vars(Pick(e)) /\ WF_vars(BecomeDue(e))
                         /\ WF_vars(Abandoned(e) /\ LeaseExpires(e))
    /\ \A w \in Workers : WF_vars(Deliver(w))

FairSpec == Spec /\ Fairness

-----------------------------------------------------------------------------
(* What must hold *)

Labels == {"idle", "claimed", "rendering", "renewed", "sending", "orphaned", "accepted",
           "failing", "rescheduling", "cancelling"}
Rows == [status : {"absent", "pending", "processing"} \cup Terminal,
         attempts : 0 .. MaxAttempts, due : BOOLEAN, token : Workers \cup {Nil},
         lease : BOOLEAN, cancel : BOOLEAN, ref : 1 .. MaxRefs]
Claims == [email : Emails, attempt : 1 .. MaxAttempts, ref : 1 .. MaxRefs]

(* The values the variables take; a worker has a claim exactly when it is busy. *)
TypeOK ==
    /\ row \in [Emails -> Rows]
    /\ standing \in [Emails -> {"ok", "lapsed", "cancelled"}]
    /\ pc \in [Workers -> Labels]
    /\ claim \in [Workers -> Claims \cup {NoClaim}]
    /\ \A w \in Workers : pc[w] # "idle" <=> claim[w] \in Claims
    /\ handed \in [Emails -> SUBSET ((1 .. MaxRefs) \X (1 .. MaxAttempts))]

(***************************************************************************)
(* What a worker is about to hand over was never handed over before, and   *)
(* no other worker carries the same copy: leases that expire, recoveries   *)
(* and crashes never let one attempt be spent twice, so a reference        *)
(* reaches the mail service at most MaxAttempts times.                     *)
(***************************************************************************)
FreshAttempt ==
    \A w \in Workers : pc[w] \in Sending =>
        /\ <<claim[w].ref, claim[w].attempt>> \notin handed[claim[w].email]
        /\ \A v \in Workers \ {w} : claim[v] # claim[w]

(***************************************************************************)
(* SENT is never said of a message the mail service did not take, under    *)
(* the very reference the row shows.                                       *)
(***************************************************************************)
SentWasHandedOver ==
    \A e \in Emails : row[e].status = "sent" =>
        \E copy \in handed[e] : copy[1] = row[e].ref

(***************************************************************************)
(* Once an appointment is cancelled its mails are never queued again, also *)
(* when the cancellation falls between the last look of a failing worker   *)
(* and the update that reschedules.                                        *)
(***************************************************************************)
CancelledIsNotRetried == \A e \in Emails : standing[e] = "cancelled" => row[e].status # "pending"

(***************************************************************************)
(* While a lease is live only the worker that holds it moves the row, be   *)
(* it against other workers, a resend or a cancellation.                   *)
(***************************************************************************)
HolderKeepsRow(w) ==
    LET e == claim[w].email IN
    pc[w] # "idle" /\ Holds(w) =>
        \/ row'[e].status = "processing" /\ row'[e].token = w
        \/ claim'[w] # claim[w]
LeaseIsRespected == [][\A w \in Workers : HolderKeepsRow(w)]_vars

(***************************************************************************)
(* Every mail queued or taken by a worker comes to a verdict, whatever the *)
(* crashes, lapses and cancellations, and without a limit on crashes.      *)
(***************************************************************************)
ComesToAVerdict ==
    \A e \in Emails :
        (row[e].status \in {"pending", "processing"}) ~> (row[e].status \in Terminal)

(***************************************************************************)
(* The outbox implements Delivery: leases, retries and recoveries stay     *)
(* invisible, and a verdict stands until a resend.                         *)
(***************************************************************************)
StateOf(e) == CASE row[e].status = "absent" -> "none"
                [] row[e].status \in {"pending", "processing"} -> "open"
                [] OTHER -> row[e].status
Promise == INSTANCE Delivery WITH
               state <- [e \in Emails |-> StateOf(e)],
               reference <- [e \in Emails |-> row[e].ref]
KeepsThePromise == Promise!Spec
=============================================================================
