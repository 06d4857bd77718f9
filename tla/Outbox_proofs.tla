---------------------------- MODULE Outbox_proofs ----------------------------
(***************************************************************************)
(* For every set of mails and workers and every bound: the types, that no  *)
(* attempt is ever handed over twice, and that the outbox implements       *)
(* Delivery.                                                               *)
(***************************************************************************)
EXTENDS Outbox, TLAPS

USE OutboxAssumption DEF AttemptsLeft

WorkersTyped ==
    /\ pc \in [Workers -> Labels]
    /\ claim \in [Workers -> Claims \cup {NoClaim}]
    /\ \A w \in Workers : pc[w] # "idle" <=> claim[w] \in Claims

RowsTyped == row \in [Emails -> Rows]

(* The empty claim is no claim: its attempt is 0. *)
LEMMA NoClaimIsNone == NoClaim \notin Claims
  BY DEF NoClaim, Claims

(* A worker that lets go, or that goes on with its claim, stays well typed. *)
LEMMA LetGoTyped ==
    ASSUME WorkersTyped, NEW w \in Workers, LetGo(w)
    PROVE  WorkersTyped'
  BY NoClaimIsNone DEF WorkersTyped, LetGo, Goto, Labels

LEMMA GotoTyped ==
    ASSUME WorkersTyped, NEW w \in Workers, NEW label \in Labels \ {"idle"},
           pc[w] # "idle", Goto(w, label), UNCHANGED claim
    PROVE  WorkersTyped'
  BY DEF WorkersTyped, Goto

LEMMA CheckTyped ==
    ASSUME WorkersTyped, NEW w \in Workers, NEW next \in Labels \ {"idle"},
           pc[w] # "idle", Check(w, next)
    PROVE  WorkersTyped'
<1>1. CASE LetGo(w)
  BY <1>1, LetGoTyped
<1>2. CASE \E label \in Labels \ {"idle"} : Goto(w, label) /\ UNCHANGED claim
  BY <1>2, GotoTyped
<1>. QED
  BY <1>1, <1>2 DEF Check, Labels

(* Closing a row, with any verdict or for a retry, keeps it well typed. *)
LEMMA CloseTyped ==
    ASSUME RowsTyped, NEW e \in Emails, NEW status \in Terminal \cup {"pending"}, Close(e, status)
    PROVE  RowsTyped'
<1>1. row[e] \in Rows
  BY DEF RowsTyped
<1>2. [row[e] EXCEPT !.status = status, !.due = FALSE, !.token = Nil, !.lease = FALSE] \in Rows
  BY <1>1 DEF Rows
<1>. QED
  BY <1>2 DEF RowsTyped, Close

LEMMA ClaimedMailTyped ==
    ASSUME WorkersTyped, NEW w \in Workers, pc[w] # "idle"
    PROVE  /\ claim[w].email \in Emails
           /\ claim[w].attempt \in 1 .. MaxAttempts
           /\ claim[w].ref \in 1 .. MaxRefs
  BY DEF WorkersTyped, Claims

-----------------------------------------------------------------------------
(* Outbox.TypeOK: every value the variables take, for every Next. *)
LEMMA TypeStep == TypeOK /\ [Next]_vars => TypeOK'
<1>. SUFFICES ASSUME TypeOK, [Next]_vars PROVE TypeOK'
  OBVIOUS
<1>t. RowsTyped /\ WorkersTyped
  BY DEF RowsTyped, WorkersTyped, TypeOK
<1>s. ASSUME RowsTyped', WorkersTyped',
             UNCHANGED standing \/ standing' \in [Emails -> {"ok", "lapsed", "cancelled"}],
             UNCHANGED handed \/ handed' \in [Emails -> SUBSET ((1 .. MaxRefs) \X (1 .. MaxAttempts))]
      PROVE  TypeOK'
  BY <1>s DEF RowsTyped, WorkersTyped, TypeOK
<1>u. ASSUME UNCHANGED <<pc, claim>> PROVE WorkersTyped'
  BY <1>u, <1>t DEF WorkersTyped
<1>r. ASSUME UNCHANGED row PROVE RowsTyped'
  BY <1>r, <1>t DEF RowsTyped
<1>n. ASSUME NEW e \in Emails, NEW r \in Rows, row' = [row EXCEPT ![e] = r] PROVE RowsTyped'
  BY <1>n, <1>t DEF RowsTyped
<1>e. ASSUME NEW e \in Emails PROVE row[e] \in Rows
  BY <1>t DEF RowsTyped
<1>1. ASSUME NEW e \in Emails, Queue(e) PROVE TypeOK'
  <2>1. \A due \in BOOLEAN : [row[e] EXCEPT !.status = "pending", !.due = due] \in Rows
    BY <1>e DEF Rows
  <2>2. RowsTyped'
    BY <1>1, <1>n, <2>1 DEF Queue
  <2>. QED
    BY <1>1, <2>2, <1>s, <1>u DEF Queue
<1>2. ASSUME NEW e \in Emails, Resend(e) PROVE TypeOK'
  <2>a. row[e].ref + 1 \in 1 .. MaxRefs
    BY <1>2, <1>e DEF Resend, Rows
  <2>1. Renewed(row[e].ref + 1) \in Rows
    BY <2>a DEF Rows, Renewed
  <2>2. RowsTyped'
    BY <1>2, <1>n, <2>1 DEF Resend
  <2>. QED
    BY <1>2, <2>2, <1>s, <1>u DEF Resend
<1>3. ASSUME NEW e \in Emails, CancelAppointment(e) PROVE TypeOK'
  <2>1. RowsTyped'
    <3>1. CASE row[e].status = "processing"
      <4>1. [row[e] EXCEPT !.cancel = TRUE] \in Rows
        BY <1>e DEF Rows
      <4>. QED
        BY <1>3, <3>1, <4>1, <1>n DEF CancelAppointment
    <3>2. CASE row[e].status = "pending"
      <4>1. [row[e] EXCEPT !.status = "cancelled", !.cancel = TRUE,
                           !.token = Nil, !.lease = FALSE] \in Rows
        BY <1>e DEF Rows, Terminal
      <4>. QED
        BY <1>3, <3>2, <4>1, <1>n DEF CancelAppointment
    <3>3. CASE row[e].status \notin {"processing", "pending"}
      BY <1>3, <3>3, <1>e, <1>n DEF CancelAppointment
    <3>. QED
      BY <3>1, <3>2, <3>3
  <2>. QED
    BY <1>3, <2>1, <1>s, <1>u, <1>t DEF CancelAppointment, TypeOK
<1>4. ASSUME NEW e \in Emails, ChangeStanding(e) PROVE TypeOK'
  BY <1>4, <1>s, <1>u, <1>r DEF ChangeStanding, TypeOK
<1>5. ASSUME NEW e \in Emails, BecomeDue(e) \/ LeaseExpires(e) PROVE TypeOK'
  <2>1. /\ [row[e] EXCEPT !.due = TRUE] \in Rows
        /\ [row[e] EXCEPT !.lease = FALSE] \in Rows
    BY <1>e DEF Rows
  <2>2. RowsTyped'
    BY <1>5, <2>1, <1>n DEF BecomeDue, LeaseExpires
  <2>. QED
    BY <1>5, <2>2, <1>s, <1>u DEF BecomeDue, LeaseExpires
<1>6. ASSUME NEW e \in Emails, FailExhausted(e) PROVE TypeOK'
  <2>1. [row[e] EXCEPT !.status = "failed", !.token = Nil, !.lease = FALSE] \in Rows
    BY <1>e DEF Rows, Terminal
  <2>2. RowsTyped'
    BY <1>6, <2>1, <1>n DEF FailExhausted
  <2>. QED
    BY <1>6, <2>2, <1>s, <1>u DEF FailExhausted
<1>7. ASSUME NEW w \in Workers, NEW e \in Emails, Claim(w, e) PROVE TypeOK'
  <2>1. [row[e] EXCEPT !.status = "processing", !.attempts = row[e].attempts + 1,
                       !.token = w, !.lease = TRUE] \in Rows
    <3>1. row[e].attempts + 1 \in 0 .. MaxAttempts
      BY <1>7, <1>e DEF Claim, Rows
    <3>. QED
      BY <3>1, <1>e DEF Rows
  <2>2. RowsTyped'
    BY <1>7, <2>1, <1>n DEF Claim
  <2>3. [email |-> e, attempt |-> row[e].attempts + 1, ref |-> row[e].ref] \in Claims
    BY <1>7, <1>e DEF Claim, Claims, Rows
  <2>4. WorkersTyped'
    BY <1>7, <1>t, <2>3 DEF Claim, WorkersTyped, Labels
  <2>. QED
    BY <1>7, <1>s, <2>2, <2>4 DEF Claim
<1>8. ASSUME NEW w \in Workers,
             CheckBeforeRender(w) \/ CheckBeforeSend(w) \/ CheckAfterError(w)
      PROVE  TypeOK'
  <2>1. \E next \in Labels \ {"idle"} : Check(w, next) /\ pc[w] # "idle"
    BY <1>8 DEF CheckBeforeRender, CheckBeforeSend, CheckAfterError, Labels
  <2>2. UNCHANGED <<row, standing, handed>>
    BY <2>1 DEF Check
  <2>. QED
    BY <2>1, <2>2, <1>t, <1>r, <1>s, CheckTyped
<1>9. ASSUME NEW w \in Workers, RenderFails(w) \/ SendFails(w) \/ HeartbeatLosesLease(w)
      PROVE  TypeOK'
  <2>1. \E label \in Labels \ {"idle"} : Goto(w, label) /\ UNCHANGED claim /\ pc[w] # "idle"
    BY <1>9 DEF RenderFails, SendFails, HeartbeatLosesLease, Labels, Sending
  <2>2. UNCHANGED <<row, standing, handed>>
    BY <1>9 DEF RenderFails, SendFails, HeartbeatLosesLease
  <2>. QED
    BY <2>1, <2>2, <1>t, <1>r, <1>s, GotoTyped
<1>10. ASSUME NEW w \in Workers, Renew(w) \/ Crash(w) PROVE TypeOK'
  <2>1. \/ LetGo(w)
        \/ \E label \in Labels \ {"idle"} : Goto(w, label) /\ UNCHANGED claim /\ pc[w] # "idle"
    BY <1>10 DEF Renew, Crash, Labels
  <2>2. UNCHANGED <<row, standing, handed>>
    BY <1>10 DEF Renew, Crash
  <2>. QED
    BY <2>1, <2>2, <1>t, <1>r, <1>s, GotoTyped, LetGoTyped
<1>11. ASSUME NEW w \in Workers, HandOver(w) PROVE TypeOK'
  <2>1. \/ LetGo(w)
        \/ \E label \in Labels \ {"idle"} : Goto(w, label) /\ UNCHANGED claim /\ pc[w] # "idle"
    BY <1>11 DEF HandOver, Sending, Labels
  <2>2. WorkersTyped'
    BY <2>1, <1>t, GotoTyped, LetGoTyped
  <2>3. handed' \in [Emails -> SUBSET ((1 .. MaxRefs) \X (1 .. MaxAttempts))]
    BY <1>11, <1>t, ClaimedMailTyped DEF HandOver, Sending, TypeOK
  <2>. QED
    BY <1>11, <2>2, <2>3, <1>r, <1>s DEF HandOver
<1>12. ASSUME NEW w \in Workers, FinishAsAccepted(w) \/ CancelClaim(w) PROVE TypeOK'
  <2>1. claim[w].email \in Emails /\ LetGo(w) /\ UNCHANGED <<standing, handed>>
    BY <1>12, <1>t, ClaimedMailTyped DEF FinishAsAccepted, CancelClaim
  <2>2. RowsTyped'
    BY <1>12, <1>t, <1>r, <2>1, CloseTyped DEF FinishAsAccepted, CancelClaim, Terminal
  <2>. QED
    BY <2>1, <2>2, <1>t, <1>s, LetGoTyped
<1>13. ASSUME NEW w \in Workers, Reschedule(w) PROVE TypeOK'
  <2>1. claim[w].email \in Emails /\ UNCHANGED <<standing, handed>>
    BY <1>13, <1>t, ClaimedMailTyped DEF Reschedule
  <2>2. RowsTyped'
    BY <1>13, <1>t, <1>r, <2>1, CloseTyped DEF Reschedule, Terminal
  <2>3. \/ LetGo(w)
        \/ \E label \in Labels \ {"idle"} : Goto(w, label) /\ UNCHANGED claim /\ pc[w] # "idle"
    BY <1>13 DEF Reschedule, Labels
  <2>. QED
    BY <2>1, <2>2, <2>3, <1>t, <1>s, LetGoTyped, GotoTyped
<1>14. CASE UNCHANGED vars
  BY <1>14, <1>u, <1>r, <1>s DEF vars
<1>. QED
  BY <1>1, <1>2, <1>3, <1>4, <1>5, <1>6, <1>7, <1>8, <1>9, <1>10, <1>11, <1>12, <1>13, <1>14
  DEF Next, Request, Elapse, Pick, Deliver

(* TypeOK holds in every behaviour. *)
THEOREM TypeCorrect == Spec => []TypeOK
<1>1. Init => TypeOK
  BY NoClaimIsNone DEF Init, TypeOK, Rows, Absent, Labels, Terminal
<1>. QED
  BY <1>1, TypeStep, PTL DEF Spec

-----------------------------------------------------------------------------
(***************************************************************************)
(* FreshAttempt is not inductive.  Its strengthening orders the copies of  *)
(* a mail by reference and attempt: no row goes back, everything handed or *)
(* carried is at most where the row is, so a new claim, which moves the    *)
(* row on, carries a copy nobody has or had.                               *)
(***************************************************************************)
InFlight == {"claimed", "rendering", "renewed"} \cup Sending
Busy(w)  == pc[w] # "idle"
Copy(w)  == <<claim[w].ref, claim[w].attempt>>

Reached(e, ref, attempt) ==
    ref < row[e].ref \/ (ref = row[e].ref /\ attempt <= row[e].attempts)

HandedReached == \A e \in Emails : \A copy \in handed[e] : Reached(e, copy[1], copy[2])
ClaimsReached ==
    \A w \in Workers : Busy(w) => Reached(claim[w].email, claim[w].ref, claim[w].attempt)
CopiesUnspent == \A w \in Workers : pc[w] \in InFlight => Copy(w) \notin handed[claim[w].email]
ClaimsDiffer  == \A w, v \in Workers : w # v /\ Busy(w) => claim[w] # claim[v]

FreshInv == HandedReached /\ ClaimsReached /\ CopiesUnspent /\ ClaimsDiffer

(* A row never goes back to an earlier reference or attempt. *)
LEMMA NoRewind ==
    ASSUME TypeOK, [Next]_vars, NEW e \in Emails,
           NEW ref \in 1 .. MaxRefs, NEW attempt \in 1 .. MaxAttempts, Reached(e, ref, attempt)
    PROVE  Reached(e, ref, attempt)'
<1>t. \A f \in Emails : row[f] \in Rows
  BY DEF TypeOK
<1>d. row \in [Emails -> Rows]
  BY DEF TypeOK
<1>n. row[e].ref \in Nat /\ row[e].attempts \in 0 .. MaxAttempts
  BY <1>t DEF Rows
<1>k. ASSUME row'[e].ref = row[e].ref, row'[e].attempts = row[e].attempts
      PROVE  Reached(e, ref, attempt)'
  BY <1>k DEF Reached
<1>1. CASE \E f \in Emails : Resend(f)
  BY <1>1, <1>n, <1>d DEF Resend, Renewed, Reached
<1>2. CASE \E f \in Emails, w \in Workers : Claim(w, f)
  BY <1>2, <1>n, <1>d DEF Claim, Reached
<1>3. ASSUME NEW f \in Emails,
             Queue(f) \/ CancelAppointment(f) \/ ChangeStanding(f) \/ BecomeDue(f)
             \/ LeaseExpires(f) \/ FailExhausted(f)
      PROVE  Reached(e, ref, attempt)'
  <2>1. CASE Queue(f)
    BY <2>1, <1>d, <1>k DEF Queue
  <2>2. CASE CancelAppointment(f)
    BY <2>2, <1>d, <1>k DEF CancelAppointment
  <2>3. CASE ChangeStanding(f)
    BY <2>3, <1>k DEF ChangeStanding
  <2>4. CASE BecomeDue(f) \/ LeaseExpires(f)
    BY <2>4, <1>d, <1>k DEF BecomeDue, LeaseExpires, Rows
  <2>5. CASE FailExhausted(f)
    BY <2>5, <1>d, <1>k DEF FailExhausted
  <2>. QED
    BY <1>3, <2>1, <2>2, <2>3, <2>4, <2>5
<1>4. ASSUME NEW w \in Workers, Deliver(w) \/ HeartbeatLosesLease(w) \/ Crash(w)
      PROVE  Reached(e, ref, attempt)'
  <2>1. ASSUME NEW f, NEW status, Close(f, status) PROVE Reached(e, ref, attempt)'
    BY <2>1, <1>d, <1>t, <1>k DEF Close, Rows
  <2>2. UNCHANGED row \/ \E f, status : Close(f, status)
    BY <1>4 DEF Deliver, HeartbeatLosesLease, Crash, CheckBeforeRender, RenderFails, Renew,
                CheckBeforeSend, HandOver, SendFails, FinishAsAccepted, CheckAfterError,
                Reschedule, CancelClaim, Check
  <2>. QED
    BY <2>1, <2>2, <1>k
<1>5. CASE UNCHANGED vars
  BY <1>5, <1>k DEF vars
<1>. QED
  BY <1>1, <1>2, <1>3, <1>4, <1>5 DEF Next, Request, Elapse, Pick

(* What each step does to claims and copies. *)
Keeps(w) ==
    \/ LetGo(w)
    \/ /\ UNCHANGED claim /\ Busy(w)
       /\ \E label \in Labels \ {"idle", "accepted"} :
             Goto(w, label) /\ (label \in InFlight => pc[w] \in InFlight)

LEMMA StepKinds ==
    ASSUME TypeOK, [Next]_vars
    PROVE  \/ UNCHANGED <<pc, claim, handed>>
           \/ \E w \in Workers, e \in Emails : Claim(w, e)
           \/ \E w \in Workers : HandOver(w)
           \/ \E w \in Workers : Keeps(w) /\ UNCHANGED handed
<1>1. CASE \E e \in Emails : Request(e) \/ Elapse(e) \/ FailExhausted(e)
  BY <1>1 DEF Request, Elapse, Queue, Resend, CancelAppointment, ChangeStanding, BecomeDue,
              LeaseExpires, FailExhausted
<1>2. ASSUME NEW w \in Workers,
             CheckBeforeRender(w) \/ CheckBeforeSend(w) \/ CheckAfterError(w)
      PROVE  Keeps(w) /\ UNCHANGED handed
  BY <1>2 DEF CheckBeforeRender, CheckBeforeSend, CheckAfterError, Check, Keeps, Busy,
              InFlight, Labels, Sending
<1>3. ASSUME NEW w \in Workers,
             RenderFails(w) \/ SendFails(w) \/ HeartbeatLosesLease(w) \/ Renew(w) \/ Crash(w)
      PROVE  Keeps(w) /\ UNCHANGED handed
  BY <1>3 DEF RenderFails, SendFails, HeartbeatLosesLease, Renew, Crash, Keeps, Busy,
              InFlight, Labels, Sending
<1>4. ASSUME NEW w \in Workers, FinishAsAccepted(w) \/ Reschedule(w) \/ CancelClaim(w)
      PROVE  Keeps(w) /\ UNCHANGED handed
  BY <1>4 DEF FinishAsAccepted, Reschedule, CancelClaim, Keeps, Busy, InFlight, Labels, Sending
<1>. QED
  BY <1>1, <1>2, <1>3, <1>4 DEF Next, Pick, Deliver, vars

LEMMA FreshStep == TypeOK /\ FreshInv /\ [Next]_vars => FreshInv'
<1>. SUFFICES ASSUME TypeOK, FreshInv, [Next]_vars PROVE FreshInv'
  OBVIOUS
<1>t. WorkersTyped
  BY DEF TypeOK, WorkersTyped
<1>h. handed \in [Emails -> SUBSET ((1 .. MaxRefs) \X (1 .. MaxAttempts))]
  BY DEF TypeOK
<1>d. ASSUME NEW e \in Emails, NEW ref \in 1 .. MaxRefs, NEW attempt \in 1 .. MaxAttempts,
             \/ <<ref, attempt>> \in handed[e]
             \/ \E w \in Workers : Busy(w) /\ claim[w] = [email |-> e, attempt |-> attempt, ref |-> ref]
      PROVE  Reached(e, ref, attempt)'
  <2>1. Reached(e, ref, attempt)
    BY <1>d DEF FreshInv, HandedReached, ClaimsReached
  <2>. QED
    BY <2>1, NoRewind
<1>c. ASSUME NEW w \in Workers, Busy(w)
      PROVE  /\ claim[w] = [email |-> claim[w].email, attempt |-> claim[w].attempt,
                            ref |-> claim[w].ref]
             /\ claim[w].email \in Emails
             /\ claim[w].attempt \in 1 .. MaxAttempts
             /\ claim[w].ref \in 1 .. MaxRefs
  BY <1>c, <1>t DEF WorkersTyped, Busy, Claims
<1>x. ASSUME NEW w \in Workers, Busy(w), claim'[w] = claim[w]
      PROVE  Reached(claim[w].email, claim[w].ref, claim[w].attempt)'
  <2>1. PICK e \in Emails, ref \in 1 .. MaxRefs, attempt \in 1 .. MaxAttempts :
            claim[w] = [email |-> e, attempt |-> attempt, ref |-> ref]
    BY <1>x, <1>c
  <2>2. Reached(e, ref, attempt)'
    BY <1>d, <1>x, <2>1
  <2>. QED
    BY <2>1, <2>2, <1>x DEF Reached
<1>y. ASSUME NEW e \in Emails, NEW copy \in handed[e] PROVE Reached(e, copy[1], copy[2])'
  <2>1. PICK ref \in 1 .. MaxRefs, attempt \in 1 .. MaxAttempts : copy = <<ref, attempt>>
    BY <1>h
  <2>2. Reached(e, ref, attempt)'
    BY <1>d, <2>1
  <2>. QED
    BY <2>1, <2>2
<1>z. \A v \in Workers : ~Busy(v) => claim[v] = NoClaim
  BY <1>t DEF WorkersTyped, Busy
<1>1. CASE UNCHANGED <<pc, claim, handed>>
  <2>1. HandedReached'
    BY <1>1, <1>y DEF HandedReached
  <2>2. ClaimsReached'
    BY <1>1, <1>x DEF ClaimsReached, Busy
  <2>. QED
    BY <1>1, <2>1, <2>2 DEF FreshInv, CopiesUnspent, ClaimsDiffer, Busy, Copy
<1>2. ASSUME NEW w \in Workers, NEW e \in Emails, Claim(w, e) PROVE FreshInv'
  <2>e. row[e] \in Rows /\ row \in [Emails -> Rows]
    BY DEF TypeOK
  <2>1. /\ claim' = [claim EXCEPT ![w] = [email |-> e, attempt |-> row[e].attempts + 1,
                                           ref |-> row[e].ref]]
        /\ pc' = [pc EXCEPT ![w] = "claimed"] /\ UNCHANGED handed
        /\ row'[e].ref = row[e].ref /\ row'[e].attempts = row[e].attempts + 1
        /\ ~Reached(e, row[e].ref, row[e].attempts + 1) /\ ~Busy(w)
    BY <1>2, <2>e DEF Claim, Rows, Reached, Busy
  <2>2. HandedReached'
    BY <2>1, <1>y DEF HandedReached
  <2>3. ClaimsReached'
    <3>1. ASSUME NEW v \in Workers \ {w}, Busy(v)'
          PROVE  Reached(claim[v].email, claim[v].ref, claim[v].attempt)'
      BY <3>1, <2>1, <1>t, <1>x DEF Busy, WorkersTyped
    <3>2. Reached(claim[w].email, claim[w].ref, claim[w].attempt)'
      BY <2>1, <2>e, <1>t DEF Reached, WorkersTyped, Rows
    <3>. QED
      BY <3>1, <3>2 DEF ClaimsReached
  <2>4. CopiesUnspent'
    BY <2>1, <1>t DEF FreshInv, CopiesUnspent, HandedReached, Copy, InFlight, WorkersTyped
  <2>5. ClaimsDiffer'
    <3>1. ASSUME NEW v \in Workers \ {w} PROVE claim'[v] = claim[v] /\ claim'[w] # claim'[v]
      <4>1. claim'[v] = claim[v] /\ claim'[w].email = e /\ claim'[w].ref = row[e].ref
            /\ claim'[w].attempt = row[e].attempts + 1
        BY <2>1, <1>t DEF WorkersTyped
      <4>2. CASE Busy(v)
        BY <4>1, <4>2, <2>1 DEF FreshInv, ClaimsReached
      <4>3. CASE ~Busy(v)
        BY <4>1, <4>3, <1>z, <2>e DEF NoClaim, Rows
      <4>. QED
        BY <4>1, <4>2, <4>3
    <3>2. \A v \in Workers : v # w => (Busy(v)' <=> Busy(v))
      BY <2>1, <1>t DEF Busy, WorkersTyped
    <3>. QED
      BY <3>1, <3>2 DEF FreshInv, ClaimsDiffer
  <2>. QED
    BY <2>2, <2>3, <2>4, <2>5 DEF FreshInv
<1>3. ASSUME NEW w \in Workers, HandOver(w) PROVE FreshInv'
  <2>1. /\ \A v \in Workers : Busy(v)' => Busy(v) /\ claim'[v] = claim[v]
        /\ \A v \in Workers : pc'[v] \in InFlight => v # w /\ pc[v] \in InFlight
        /\ claim'[w] \in {claim[w], NoClaim} /\ Busy(w)
    BY <1>3, <1>t DEF HandOver, LetGo, Goto, Busy, Sending, InFlight, WorkersTyped
  <2>2. handed' = [handed EXCEPT ![claim[w].email] = @ \cup {Copy(w)}]
    BY <1>3 DEF HandOver, Copy
  <2>3. HandedReached'
    <3>1. ASSUME NEW e \in Emails, NEW copy \in handed'[e]
          PROVE  Reached(e, copy[1], copy[2])'
      <4>1. CASE copy \in handed[e]
        BY <4>1, <1>y
      <4>2. CASE claim[w].email = e /\ copy = Copy(w)
        <5>1. /\ copy[1] \in 1 .. MaxRefs /\ copy[2] \in 1 .. MaxAttempts
              /\ claim[w] = [email |-> e, attempt |-> copy[2], ref |-> copy[1]]
          BY <4>2, <1>c, <2>1 DEF Copy
        <5>. QED
          BY <5>1, <1>d, <2>1
      <4>. QED
        BY <2>2, <1>c, <2>1, <1>h, <4>1, <4>2
    <3>. QED
      BY <3>1 DEF HandedReached
  <2>4. ClaimsReached'
    BY <2>1, <1>x DEF ClaimsReached
  <2>5. CopiesUnspent'
    <3>1. ASSUME NEW v \in Workers, pc'[v] \in InFlight
          PROVE  Copy(v)' \notin handed'[claim'[v].email]
      <4>1. v # w /\ pc[v] \in InFlight /\ Busy(v) /\ claim'[v] = claim[v]
        BY <3>1, <2>1 DEF InFlight, Sending, Busy
      <4>2. Copy(v) \notin handed[claim[v].email]
        BY <4>1 DEF FreshInv, CopiesUnspent
      <4>3. claim[v] # claim[w]
        BY <4>1 DEF FreshInv, ClaimsDiffer
      <4>4. claim[v].email = claim[w].email => Copy(v) # Copy(w)
        BY <4>1, <4>3, <1>c, <2>1 DEF Copy
      <4>. QED
        BY <4>1, <4>2, <4>4, <2>2, <1>c, <1>h DEF Copy
    <3>. QED
      BY <3>1 DEF CopiesUnspent
  <2>6. ClaimsDiffer'
    <3>1. \A v \in Workers : Busy(v) => claim[v] # NoClaim
      BY <1>t, NoClaimIsNone DEF WorkersTyped, Busy
    <3>2. \A v \in Workers : claim'[v] \in {claim[v], NoClaim}
      BY <2>1, <1>3, <1>t DEF HandOver, LetGo, WorkersTyped
    <3>. QED
      BY <2>1, <3>1, <3>2 DEF FreshInv, ClaimsDiffer
  <2>. QED
    BY <2>3, <2>4, <2>5, <2>6 DEF FreshInv
<1>4. ASSUME NEW w \in Workers, Keeps(w), UNCHANGED handed PROVE FreshInv'
  <2>1. /\ \A v \in Workers : Busy(v)' => Busy(v) /\ claim'[v] = claim[v]
        /\ \A v \in Workers : pc'[v] \in InFlight => pc[v] \in InFlight
        /\ \A v \in Workers : claim'[v] \in {claim[v], NoClaim}
    BY <1>4, <1>t DEF Keeps, LetGo, Goto, Busy, InFlight, Sending, WorkersTyped
  <2>2. HandedReached'
    BY <1>4, <1>y DEF HandedReached
  <2>3. ClaimsReached'
    BY <2>1, <1>x DEF ClaimsReached
  <2>4. CopiesUnspent'
    BY <2>1, <1>4 DEF FreshInv, CopiesUnspent, Copy, InFlight, Sending, Busy
  <2>5. ClaimsDiffer'
    <3>1. \A v \in Workers : Busy(v) => claim[v] # NoClaim
      BY <1>t, NoClaimIsNone DEF WorkersTyped, Busy
    <3>. QED
      BY <2>1, <3>1 DEF FreshInv, ClaimsDiffer
  <2>. QED
    BY <2>2, <2>3, <2>4, <2>5 DEF FreshInv
<1>. QED
  BY <1>1, <1>2, <1>3, <1>4, StepKinds

(***************************************************************************)
(* No copy is ever handed over twice, by one worker or by two: FreshAttempt*)
(* for every number of mails, workers, attempts and crashes.               *)
(***************************************************************************)
THEOREM EveryAttemptIsFresh == Spec => []FreshAttempt
<1>1. Init => FreshInv
  BY DEF Init, FreshInv, HandedReached, ClaimsReached, CopiesUnspent, ClaimsDiffer, Busy,
         InFlight, Sending
<1>2. FreshInv => FreshAttempt
  BY DEF FreshInv, CopiesUnspent, ClaimsDiffer, FreshAttempt, InFlight, Sending, Busy, Copy
<1>. QED
  BY <1>1, <1>2, FreshStep, TypeCorrect, PTL DEF Spec

-----------------------------------------------------------------------------
(***************************************************************************)
(* A cancelled appointment's mail is not pending, and if a worker has it,  *)
(* it carries the request to cancel that the compare-and-set looks for.    *)
(***************************************************************************)
CancelInv ==
    \A e \in Emails : standing[e] = "cancelled" =>
        /\ row[e].status # "pending" /\ row[e].status # "absent"
        /\ row[e].status = "processing" => row[e].cancel
        /\ e \notin Resendable

LEMMA CancelStep == TypeOK /\ CancelInv /\ [Next]_vars => CancelInv'
<1>. SUFFICES ASSUME TypeOK, CancelInv, [Next]_vars PROVE CancelInv'
  OBVIOUS
<1>t. row \in [Emails -> Rows] /\ \A f \in Emails : row[f] \in Rows
  BY DEF TypeOK
<1>k. ASSUME UNCHANGED <<row, standing>> PROVE CancelInv'
  BY <1>k DEF CancelInv
<1>1. ASSUME NEW e \in Emails, Queue(e) \/ Resend(e) PROVE CancelInv'
  BY <1>1, <1>t DEF CancelInv, Queue, Resend, StillValid
<1>2. ASSUME NEW e \in Emails, CancelAppointment(e) PROVE CancelInv'
  <2>1. standing \in [Emails -> {"ok", "lapsed", "cancelled"}]
    BY DEF TypeOK
  <2>2. /\ row'[e].status \notin {"pending", "absent"}
        /\ row'[e].status = "processing" => row'[e].cancel
        /\ e \notin Resendable
    <3>1. CASE row[e].status = "processing"
      BY <1>2, <3>1, <1>t DEF CancelAppointment, Rows
    <3>2. CASE row[e].status = "pending"
      BY <1>2, <3>2, <1>t DEF CancelAppointment, Rows
    <3>3. CASE row[e].status \notin {"processing", "pending"}
      BY <1>2, <3>3, <1>t DEF CancelAppointment
    <3>. QED
      BY <3>1, <3>2, <3>3
  <2>3. \A f \in Emails \ {e} : row'[f] = row[f] /\ standing'[f] = standing[f]
    BY <1>2, <1>t, <2>1 DEF CancelAppointment
  <2>. QED
    BY <2>2, <2>3 DEF CancelInv
<1>3. ASSUME NEW e \in Emails, ChangeStanding(e) PROVE CancelInv'
  BY <1>3 DEF CancelInv, ChangeStanding, TypeOK
<1>4. ASSUME NEW e \in Emails, BecomeDue(e) \/ LeaseExpires(e) PROVE CancelInv'
  BY <1>4, <1>t DEF CancelInv, BecomeDue, LeaseExpires, LeaseLive, Rows
<1>5. ASSUME NEW e \in Emails, FailExhausted(e) PROVE CancelInv'
  BY <1>5, <1>t DEF CancelInv, FailExhausted, Rows
<1>6. ASSUME NEW w \in Workers, NEW e \in Emails, Claim(w, e) PROVE CancelInv'
  BY <1>6, <1>t DEF CancelInv, Claim, Claimable, Rows
<1>7. ASSUME NEW f, NEW status \in {"sent", "failed", "cancelled"}, Close(f, status),
             UNCHANGED standing
      PROVE  CancelInv'
  BY <1>7, <1>t DEF CancelInv, Close, Rows
<1>8. ASSUME NEW w \in Workers, FinishAsAccepted(w) \/ CancelClaim(w) PROVE CancelInv'
  BY <1>8, <1>7, <1>k DEF FinishAsAccepted, CancelClaim
<1>9. ASSUME NEW w \in Workers, Reschedule(w) PROVE CancelInv'
  <2>1. CASE UNCHANGED row
    BY <1>9, <2>1, <1>k DEF Reschedule
  <2>2. ASSUME NEW f, NEW status, Close(f, status), row[f].status = "processing", ~row[f].cancel
        PROVE  CancelInv'
    BY <2>2, <1>9, <1>t DEF CancelInv, Close, Rows, Reschedule
  <2>. QED
    BY <1>9, <2>1, <2>2 DEF Reschedule, Owns
<1>10. ASSUME NEW w \in Workers,
              \/ CheckBeforeRender(w) \/ CheckBeforeSend(w) \/ CheckAfterError(w) \/ Renew(w)
              \/ RenderFails(w) \/ SendFails(w) \/ HeartbeatLosesLease(w) \/ HandOver(w) \/ Crash(w)
       PROVE  CancelInv'
  BY <1>10, <1>k DEF CheckBeforeRender, CheckBeforeSend, CheckAfterError, Check, Renew,
                     RenderFails, SendFails, HeartbeatLosesLease, HandOver, Crash
<1>11. CASE UNCHANGED vars
  BY <1>11, <1>k DEF vars
<1>. QED
  BY <1>1, <1>2, <1>3, <1>4, <1>5, <1>6, <1>8, <1>9, <1>10, <1>11
  DEF Next, Request, Elapse, Pick, Deliver

(* The mails of a cancelled appointment are never queued again. *)
THEOREM CancellationSticks == Spec => []CancelledIsNotRetried
<1>1. Init => CancelInv
  BY DEF Init, CancelInv
<1>2. CancelInv => CancelledIsNotRetried
  BY DEF CancelInv, CancelledIsNotRetried
<1>. QED
  BY <1>1, <1>2, CancelStep, TypeCorrect, PTL DEF Spec

-----------------------------------------------------------------------------
(***************************************************************************)
(* A worker that may still close a row carries the reference the row has,  *)
(* and one that closes it as accepted has handed that copy over.           *)
(***************************************************************************)
OwnersCurrent ==
    \A w \in Workers : Busy(w) /\ Owns(w) => claim[w].ref = row[claim[w].email].ref
AcceptedHanded == \A w \in Workers : pc[w] = "accepted" => Copy(w) \in handed[claim[w].email]
SentInv == OwnersCurrent /\ AcceptedHanded /\ SentWasHandedOver

LEMMA OwnersStep == TypeOK /\ OwnersCurrent /\ [Next]_vars => OwnersCurrent'
<1>. SUFFICES ASSUME TypeOK, OwnersCurrent, [Next]_vars PROVE OwnersCurrent'
  OBVIOUS
<1>t. WorkersTyped /\ row \in [Emails -> Rows] /\ \A f \in Emails : row[f] \in Rows
  BY DEF TypeOK, WorkersTyped
<1>c. \A w \in Workers : Busy(w) => claim[w].email \in Emails
  BY <1>t, ClaimedMailTyped DEF Busy
(* Rows may close, refresh or keep their owner; nobody new is carried. *)
<1>s. ASSUME \A w \in Workers : Busy(w)' => Busy(w) /\ claim'[w] = claim[w],
             \A e \in Emails : \/ row'[e].ref = row[e].ref /\ row'[e].token = row[e].token
                                   /\ (row'[e].status = "processing" => row[e].status = "processing")
                              \/ row'[e].status # "processing"
      PROVE  OwnersCurrent'
  BY <1>s, <1>c DEF OwnersCurrent, Owns
<1>p. ASSUME UNCHANGED <<pc, claim>>
      PROVE  \A w \in Workers : Busy(w)' => Busy(w) /\ claim'[w] = claim[w]
  BY <1>p DEF Busy
<1>1. ASSUME NEW e \in Emails, Queue(e) \/ Resend(e) PROVE OwnersCurrent'
  <2>1. /\ row'[e].status = "pending" /\ \A f \in Emails \ {e} : row'[f] = row[f]
        /\ UNCHANGED <<pc, claim>>
    <3>1. CASE Queue(e)
      BY <3>1, <1>t DEF Queue, Rows
    <3>2. CASE Resend(e)
      BY <3>2, <1>t DEF Resend, Renewed
    <3>. QED
      BY <1>1, <3>1, <3>2
  <2>. QED
    BY <2>1, <1>s, <1>p
<1>2. ASSUME NEW e \in Emails, CancelAppointment(e) PROVE OwnersCurrent'
  <2>1. CASE row[e].status = "processing"
    BY <1>2, <2>1, <1>s, <1>p, <1>t DEF CancelAppointment, Rows
  <2>2. CASE row[e].status = "pending"
    BY <1>2, <2>2, <1>s, <1>p, <1>t DEF CancelAppointment, Rows
  <2>3. CASE row[e].status \notin {"processing", "pending"}
    BY <1>2, <2>3, <1>s, <1>p, <1>t DEF CancelAppointment
  <2>. QED
    BY <2>1, <2>2, <2>3
<1>3. ASSUME NEW e \in Emails, ChangeStanding(e) PROVE OwnersCurrent'
  BY <1>3, <1>s, <1>p DEF ChangeStanding
<1>4. ASSUME NEW e \in Emails, BecomeDue(e) \/ LeaseExpires(e) PROVE OwnersCurrent'
  BY <1>4, <1>s, <1>p, <1>t DEF BecomeDue, LeaseExpires, Rows
<1>5. ASSUME NEW e \in Emails, FailExhausted(e) PROVE OwnersCurrent'
  BY <1>5, <1>s, <1>p, <1>t DEF FailExhausted, Rows
<1>6. ASSUME NEW w \in Workers, NEW e \in Emails, Claim(w, e) PROVE OwnersCurrent'
  <2>1. /\ row'[e].ref = row[e].ref /\ row'[e].token = w
        /\ \A f \in Emails \ {e} : row'[f] = row[f]
        /\ claim'[w].email = e /\ claim'[w].ref = row[e].ref
        /\ \A v \in Workers \ {w} : claim'[v] = claim[v] /\ (Busy(v)' <=> Busy(v))
    BY <1>6, <1>t DEF Claim, Rows, WorkersTyped, Busy
  <2>2. ASSUME NEW v \in Workers, Busy(v)', Owns(v)'
        PROVE  claim'[v].ref = row'[claim'[v].email].ref
    <3>1. CASE v = w
      BY <3>1, <2>1
    <3>2. CASE v # w
      <4>1. claim[v].email # e /\ Busy(v)
        BY <3>2, <2>1, <2>2 DEF Owns
      <4>. QED
        BY <4>1, <3>2, <2>1, <2>2, <1>c DEF Owns, OwnersCurrent
    <3>. QED
      BY <3>1, <3>2
  <2>. QED
    BY <2>2 DEF OwnersCurrent
<1>7. ASSUME NEW w \in Workers, Deliver(w) \/ HeartbeatLosesLease(w) \/ Crash(w)
      PROVE  OwnersCurrent'
  <2>1. UNCHANGED row \/ \E f, status : status # "processing" /\ Close(f, status)
    BY <1>7 DEF Deliver, HeartbeatLosesLease, Crash, CheckBeforeRender, RenderFails, Renew,
                CheckBeforeSend, HandOver, SendFails, FinishAsAccepted, CheckAfterError,
                Reschedule, CancelClaim, Check
  <2>2. \A e \in Emails : row'[e] = row[e] \/ row'[e].status # "processing"
    BY <2>1, <1>t DEF Close, Rows
  <2>3. UNCHANGED claim \/ LetGo(w)
    BY <1>7 DEF Deliver, HeartbeatLosesLease, Crash, CheckBeforeRender, RenderFails, Renew,
                CheckBeforeSend, HandOver, SendFails, FinishAsAccepted, CheckAfterError,
                Reschedule, CancelClaim, Check
  <2>4. Busy(w) /\ \E label : Goto(w, label)
    BY <1>7 DEF Deliver, HeartbeatLosesLease, Crash, CheckBeforeRender, RenderFails, Renew,
                CheckBeforeSend, HandOver, SendFails, FinishAsAccepted, CheckAfterError,
                Reschedule, CancelClaim, Check, LetGo, Busy, Sending
  <2>5. \A v \in Workers : Busy(v)' => Busy(v) /\ claim'[v] = claim[v]
    BY <2>3, <2>4, <1>t DEF LetGo, Goto, Busy, WorkersTyped
  <2>. QED
    BY <2>2, <2>5, <1>s
<1>8. CASE UNCHANGED vars
  BY <1>8, <1>s, <1>p DEF vars
<1>. QED
  BY <1>1, <1>2, <1>3, <1>4, <1>5, <1>6, <1>7, <1>8 DEF Next, Request, Elapse, Pick

(* What a step does to the copies handed over and to a row's verdict. *)
LEMMA AcceptedStep == TypeOK /\ AcceptedHanded /\ [Next]_vars => AcceptedHanded'
<1>. SUFFICES ASSUME TypeOK, AcceptedHanded, [Next]_vars PROVE AcceptedHanded'
  OBVIOUS
<1>t. WorkersTyped /\ handed \in [Emails -> SUBSET ((1 .. MaxRefs) \X (1 .. MaxAttempts))]
  BY DEF TypeOK, WorkersTyped
<1>1. CASE UNCHANGED <<pc, claim, handed>>
  BY <1>1 DEF AcceptedHanded, Copy
<1>2. ASSUME NEW w \in Workers, NEW e \in Emails, Claim(w, e) PROVE AcceptedHanded'
  BY <1>2, <1>t DEF AcceptedHanded, Claim, Copy, WorkersTyped
<1>3. ASSUME NEW w \in Workers, HandOver(w) PROVE AcceptedHanded'
  <2>1. claim[w].email \in Emails
    BY <1>3, <1>t, ClaimedMailTyped DEF HandOver, Sending
  <2>2. Copy(w) \in handed'[claim[w].email] /\ \A e \in Emails : handed[e] \subseteq handed'[e]
    BY <1>3, <2>1, <1>t DEF HandOver, Copy
  <2>3. \A v \in Workers : pc'[v] = "accepted" =>
            claim'[v] = claim[v] /\ (v = w \/ pc[v] = "accepted")
    BY <1>3, <1>t DEF HandOver, LetGo, Goto, WorkersTyped
  <2>4. \A v \in Workers : pc[v] = "accepted" => claim[v].email \in Emails
    BY <1>t, ClaimedMailTyped
  <2>. QED
    BY <2>2, <2>3, <2>4 DEF AcceptedHanded, Copy
<1>4. ASSUME NEW w \in Workers, Keeps(w), UNCHANGED handed PROVE AcceptedHanded'
  <2>1. \A v \in Workers : pc'[v] = "accepted" => pc[v] = "accepted" /\ claim'[v] = claim[v]
    BY <1>4, <1>t DEF Keeps, LetGo, Goto, WorkersTyped
  <2>. QED
    BY <2>1, <1>4 DEF AcceptedHanded, Copy
<1>. QED
  BY <1>1, <1>2, <1>3, <1>4, StepKinds

LEMMA SentStep ==
    TypeOK /\ OwnersCurrent /\ AcceptedHanded /\ SentWasHandedOver /\ [Next]_vars
        => SentWasHandedOver'
<1>. SUFFICES ASSUME TypeOK, OwnersCurrent, AcceptedHanded, SentWasHandedOver, [Next]_vars
              PROVE  SentWasHandedOver'
  OBVIOUS
<1>t. /\ WorkersTyped /\ row \in [Emails -> Rows] /\ \A f \in Emails : row[f] \in Rows
      /\ handed \in [Emails -> SUBSET ((1 .. MaxRefs) \X (1 .. MaxAttempts))]
  BY DEF TypeOK, WorkersTyped
<1>s. ASSUME \A e \in Emails : handed[e] \subseteq handed'[e],
             \A e \in Emails : row'[e].status = "sent" =>
                                 row[e].status = "sent" /\ row'[e].ref = row[e].ref
      PROVE  SentWasHandedOver'
  BY <1>s DEF SentWasHandedOver
<1>h. ASSUME UNCHANGED handed PROVE \A e \in Emails : handed[e] \subseteq handed'[e]
  BY <1>h
<1>1. ASSUME NEW e \in Emails, Queue(e) \/ Resend(e) PROVE SentWasHandedOver'
  <2>1. CASE Queue(e)
    BY <2>1, <1>t, <1>s, <1>h DEF Queue, Rows
  <2>2. CASE Resend(e)
    BY <2>2, <1>t, <1>s, <1>h DEF Resend, Renewed
  <2>. QED
    BY <1>1, <2>1, <2>2
<1>2. ASSUME NEW e \in Emails, CancelAppointment(e) PROVE SentWasHandedOver'
  <2>1. CASE row[e].status = "processing"
    BY <1>2, <2>1, <1>s, <1>h, <1>t DEF CancelAppointment, Rows
  <2>2. CASE row[e].status = "pending"
    BY <1>2, <2>2, <1>s, <1>h, <1>t DEF CancelAppointment, Rows
  <2>3. CASE row[e].status \notin {"processing", "pending"}
    BY <1>2, <2>3, <1>s, <1>h, <1>t DEF CancelAppointment
  <2>. QED
    BY <2>1, <2>2, <2>3
<1>3. ASSUME NEW e \in Emails,
             ChangeStanding(e) \/ BecomeDue(e) \/ LeaseExpires(e) \/ FailExhausted(e)
      PROVE  SentWasHandedOver'
  <2>1. CASE ChangeStanding(e)
    BY <2>1, <1>s, <1>h DEF ChangeStanding
  <2>2. CASE BecomeDue(e) \/ LeaseExpires(e)
    <3>1. \A f \in Emails : row'[f].status = row[f].status /\ row'[f].ref = row[f].ref
      BY <2>2, <1>t DEF BecomeDue, LeaseExpires, Rows
    <3>. QED
      BY <3>1, <2>2, <1>s, <1>h DEF BecomeDue, LeaseExpires
  <2>3. CASE FailExhausted(e)
    BY <2>3, <1>s, <1>h, <1>t DEF FailExhausted, Rows
  <2>. QED
    BY <1>3, <2>1, <2>2, <2>3
<1>4. ASSUME NEW w \in Workers, NEW e \in Emails, Claim(w, e) PROVE SentWasHandedOver'
  BY <1>4, <1>s, <1>h, <1>t DEF Claim, Rows
<1>5. ASSUME NEW w \in Workers, HandOver(w) PROVE SentWasHandedOver'
  BY <1>5, <1>s, <1>t DEF HandOver
<1>6. ASSUME NEW w \in Workers, FinishAsAccepted(w), Owns(w) PROVE SentWasHandedOver'
  <2>1. PICK e \in Emails : claim[w].email = e
    BY <1>6, <1>t, ClaimedMailTyped DEF FinishAsAccepted
  <2>2. Copy(w) \in handed[e] /\ claim[w].ref = row[e].ref
    BY <1>6, <2>1 DEF FinishAsAccepted, AcceptedHanded, OwnersCurrent, Busy
  <2>3. Close(e, "sent") /\ UNCHANGED handed
    BY <1>6, <2>1 DEF FinishAsAccepted
  <2>4. row'[e].ref = row[e].ref /\ \A f \in Emails \ {e} : row'[f] = row[f]
    BY <2>3, <1>t DEF Close, Rows
  <2>. QED
    BY <2>2, <2>3, <2>4 DEF SentWasHandedOver, Copy
<1>7. ASSUME NEW f, NEW status \in {"pending", "failed", "cancelled"}, Close(f, status),
             UNCHANGED handed
      PROVE  SentWasHandedOver'
  BY <1>7, <1>s, <1>h, <1>t DEF Close, Rows
<1>8. ASSUME NEW w \in Workers, Deliver(w) \/ HeartbeatLosesLease(w) \/ Crash(w),
             ~HandOver(w), ~(FinishAsAccepted(w) /\ Owns(w))
      PROVE  SentWasHandedOver'
  <2>1. /\ UNCHANGED handed
        /\ UNCHANGED row \/ \E f, status : status \in {"pending", "failed", "cancelled"} /\ Close(f, status)
    BY <1>8 DEF Deliver, HeartbeatLosesLease, Crash, CheckBeforeRender, RenderFails, Renew,
                CheckBeforeSend, SendFails, FinishAsAccepted, CheckAfterError,
                Reschedule, CancelClaim, Check
  <2>. QED
    BY <2>1, <1>7, <1>s, <1>h
<1>9. CASE UNCHANGED vars
  BY <1>9, <1>s, <1>h DEF vars
<1>. QED
  BY <1>1, <1>2, <1>3, <1>4, <1>5, <1>6, <1>8, <1>9 DEF Next, Request, Elapse, Pick, Deliver

(* SENT is only ever said of a copy of the current reference that was handed over. *)
THEOREM SentMeansHandedOver == Spec => []SentWasHandedOver
<1>1. Init => OwnersCurrent /\ AcceptedHanded /\ SentWasHandedOver
  BY DEF Init, OwnersCurrent, AcceptedHanded, SentWasHandedOver, Busy, Absent
<1>. QED
  BY <1>1, OwnersStep, AcceptedStep, SentStep, TypeCorrect, PTL DEF Spec

-----------------------------------------------------------------------------
LEMMA HolderStep ==
    ASSUME TypeOK, [Next]_vars, NEW w \in Workers
    PROVE  HolderKeepsRow(w)
<1>. SUFFICES ASSUME NEW e \in Emails, pc[w] # "idle", claim[w].email = e,
                     row[e].status = "processing", row[e].token = w, row[e].lease,
                     claim'[w] = claim[w]
              PROVE  row'[e].status = "processing" /\ row'[e].token = w
  BY ClaimedMailTyped DEF HolderKeepsRow, Holds, Owns, TypeOK, WorkersTyped
<1>t. WorkersTyped /\ row \in [Emails -> Rows] /\ \A f \in Emails : row[f] \in Rows
  BY DEF TypeOK, WorkersTyped
<1>1. CASE \E f \in Emails : Queue(f) \/ Resend(f)
  BY <1>1, <1>t DEF Queue, Resend, LeaseLive
<1>2. ASSUME NEW f \in Emails, CancelAppointment(f)
      PROVE  row'[e].status = "processing" /\ row'[e].token = w
  BY <1>2, <1>t DEF CancelAppointment, Rows
<1>3. CASE \E f \in Emails : ChangeStanding(f) \/ BecomeDue(f) \/ LeaseExpires(f)
  BY <1>3, <1>t DEF ChangeStanding, BecomeDue, LeaseExpires, Rows
<1>4. CASE \E f \in Emails : FailExhausted(f)
  BY <1>4, <1>t DEF FailExhausted, Claimable
<1>5. CASE \E f \in Emails, v \in Workers : Claim(v, f)
  BY <1>5, <1>t DEF Claim, Claimable
<1>6. ASSUME NEW v \in Workers, Deliver(v) \/ HeartbeatLosesLease(v) \/ Crash(v)
      PROVE  row'[e].status = "processing" /\ row'[e].token = w
  <2>1. \/ UNCHANGED row
        \/ LetGo(v) /\ Owns(v) /\ \E status : Close(claim[v].email, status)
    BY <1>6 DEF Deliver, HeartbeatLosesLease, Crash, CheckBeforeRender, RenderFails, Renew,
                CheckBeforeSend, HandOver, SendFails, FinishAsAccepted, CheckAfterError,
                Reschedule, CancelClaim, Check
  <2>2. CASE UNCHANGED row
    BY <2>2
  <2>3. ASSUME LetGo(v), Owns(v), NEW status, Close(claim[v].email, status)
        PROVE  row'[e] = row[e]
    <3>1. v # w
      BY <2>3, <1>t, NoClaimIsNone DEF LetGo, WorkersTyped
    <3>2. claim[v].email # e
      BY <2>3, <3>1 DEF Owns
    <3>. QED
      BY <2>3, <3>2, <1>t DEF Close
  <2>. QED
    BY <2>1, <2>2, <2>3
<1>7. CASE UNCHANGED vars
  BY <1>7 DEF vars
<1>. QED
  BY <1>1, <1>2, <1>3, <1>4, <1>5, <1>6, <1>7 DEF Next, Request, Elapse, Pick

(* Nobody but the holder of a live lease closes or takes the row. *)
THEOREM LeasesAreRespected == Spec => LeaseIsRespected
<1>1. TypeOK /\ [Next]_vars => [\A w \in Workers : HolderKeepsRow(w)]_vars
  BY HolderStep
<1>. QED
  BY <1>1, TypeCorrect, PTL DEF Spec, LeaseIsRespected

-----------------------------------------------------------------------------
(* Each step is a step of Delivery or changes nothing Delivery sees *)

(* A step that settles, opens or leaves rows alone, seen from Delivery. *)
LEMMA SameRows ==
    ASSUME UNCHANGED handed,
           \A e \in Emails : row'[e].ref = row[e].ref /\ StateOf(e)' = StateOf(e)
    PROVE  UNCHANGED Promise!vars
  BY DEF Promise!vars

LEMMA SettledRow ==
    ASSUME NEW e \in Emails, NEW verdict \in {"sent", "failed", "cancelled"},
           UNCHANGED handed,
           \A f \in Emails : row'[f].ref = row[f].ref,
           \A f \in Emails \ {e} : StateOf(f)' = StateOf(f),
           StateOf(e) = "open", StateOf(e)' = verdict,
           verdict = "sent" => \E copy \in handed[e] : copy[1] = row[e].ref
    PROVE  Promise!Next
<1>1. Promise!Settle(e, verdict)
  BY DEF Promise!Settle, Promise!TakenByService
<1>. QED
  BY <1>1 DEF Promise!Next

LEMMA PromiseStep ==
    TypeOK /\ FreshInv /\ OwnersCurrent /\ AcceptedHanded /\ [Next]_vars
        => [Promise!Next]_(Promise!vars)
<1>. SUFFICES ASSUME TypeOK, FreshInv, OwnersCurrent, AcceptedHanded, [Next]_vars
              PROVE  Promise!Next \/ UNCHANGED Promise!vars
  OBVIOUS
<1>t. /\ WorkersTyped /\ row \in [Emails -> Rows] /\ \A f \in Emails : row[f] \in Rows
      /\ handed \in [Emails -> SUBSET ((1 .. MaxRefs) \X (1 .. MaxAttempts))]
  BY DEF TypeOK, WorkersTyped
(* Closing a row that is PROCESSING settles it, or leaves it open for a retry. *)
<1>c. ASSUME NEW e \in Emails, NEW status \in Terminal \cup {"pending"}, Close(e, status),
             row[e].status = "processing", UNCHANGED handed,
             status = "sent" => \E copy \in handed[e] : copy[1] = row[e].ref
      PROVE  Promise!Next \/ UNCHANGED Promise!vars
  <2>1. /\ row'[e].status = status
        /\ \A f \in Emails : row'[f].ref = row[f].ref
        /\ \A f \in Emails \ {e} : row'[f] = row[f]
    BY <1>c, <1>t DEF Close, Rows
  <2>2. /\ StateOf(e) = "open"
        /\ StateOf(e)' = IF status = "pending" THEN "open" ELSE status
        /\ \A f \in Emails \ {e} : StateOf(f)' = StateOf(f)
    BY <1>c, <2>1 DEF StateOf, Terminal
  <2>3. CASE status = "pending"
    BY <2>1, <2>2, <2>3, <1>c, SameRows
  <2>4. CASE status # "pending"
    BY <2>1, <2>2, <2>4, <1>c, SettledRow DEF Terminal
  <2>. QED
    BY <2>3, <2>4
<1>1. ASSUME NEW e \in Emails, Queue(e) PROVE Promise!Next
  <2>1. /\ row'[e].status = "pending" /\ row[e].status = "absent"
        /\ \A f \in Emails : row'[f].ref = row[f].ref
        /\ \A f \in Emails \ {e} : row'[f] = row[f]
        /\ UNCHANGED handed
    BY <1>1, <1>t DEF Queue, Rows
  <2>2. Promise!Queue(e)
    BY <2>1 DEF Promise!Queue, StateOf
  <2>. QED
    BY <2>2 DEF Promise!Next
<1>2. ASSUME NEW e \in Emails, Resend(e) PROVE Promise!Next
  <2>1. /\ row'[e].status = "pending" /\ row'[e].ref = row[e].ref + 1
        /\ row[e].status # "absent" /\ e \in Resendable
        /\ \A f \in Emails \ {e} : row'[f] = row[f]
        /\ UNCHANGED handed
    BY <1>2, <1>t DEF Resend, Renewed, Rows
  <2>2. Promise!Reopen(e)
    BY <2>1, <1>t DEF Promise!Reopen, StateOf, Rows, Terminal
  <2>. QED
    BY <2>2 DEF Promise!Next
<1>3. ASSUME NEW e \in Emails, CancelAppointment(e) PROVE Promise!Next \/ UNCHANGED Promise!vars
  <2>h. UNCHANGED handed
    BY <1>3 DEF CancelAppointment
  <2>1. CASE row[e].status = "pending"
    <3>1. /\ row'[e].status = "cancelled"
          /\ \A f \in Emails : row'[f].ref = row[f].ref
          /\ \A f \in Emails \ {e} : row'[f] = row[f]
      BY <1>3, <2>1, <1>t DEF CancelAppointment, Rows
    <3>. QED
      BY <3>1, <2>h, <2>1, SettledRow DEF StateOf
  <2>2. CASE row[e].status # "pending"
    <3>1. \A f \in Emails : row'[f].ref = row[f].ref /\ row'[f].status = row[f].status
      <4>1. CASE row[e].status = "processing"
        BY <1>3, <4>1, <1>t DEF CancelAppointment, Rows
      <4>2. CASE row[e].status # "processing"
        BY <1>3, <2>2, <4>2, <1>t DEF CancelAppointment
      <4>. QED
        BY <4>1, <4>2
    <3>. QED
      BY <3>1, <2>h, SameRows DEF StateOf
  <2>. QED
    BY <2>1, <2>2
<1>4. ASSUME NEW e \in Emails, ChangeStanding(e) \/ BecomeDue(e) \/ LeaseExpires(e)
      PROVE  UNCHANGED Promise!vars
  <2>1. \A f \in Emails : row'[f].ref = row[f].ref /\ row'[f].status = row[f].status
    <3>1. CASE ChangeStanding(e)
      BY <3>1 DEF ChangeStanding
    <3>2. CASE BecomeDue(e) \/ LeaseExpires(e)
      BY <3>2, <1>t DEF BecomeDue, LeaseExpires, Rows
    <3>. QED
      BY <1>4, <3>1, <3>2
  <2>2. UNCHANGED handed
    BY <1>4 DEF ChangeStanding, BecomeDue, LeaseExpires
  <2>. QED
    BY <2>1, <2>2, SameRows DEF StateOf
<1>5. ASSUME NEW e \in Emails, FailExhausted(e) PROVE Promise!Next
  <2>1. /\ row'[e].status = "failed" /\ row[e].status \in {"pending", "processing"}
        /\ \A f \in Emails : row'[f].ref = row[f].ref
        /\ \A f \in Emails \ {e} : row'[f] = row[f]
        /\ UNCHANGED handed
    BY <1>5, <1>t DEF FailExhausted, Claimable, Rows
  <2>. QED
    BY <2>1, SettledRow DEF StateOf
<1>6. ASSUME NEW w \in Workers, NEW e \in Emails, Claim(w, e) PROVE UNCHANGED Promise!vars
  <2>1. /\ row'[e].status = "processing" /\ row[e].status \in {"pending", "processing"}
        /\ \A f \in Emails : row'[f].ref = row[f].ref
        /\ \A f \in Emails \ {e} : row'[f] = row[f]
        /\ UNCHANGED handed
    BY <1>6, <1>t DEF Claim, Claimable, Rows
  <2>. QED
    BY <2>1, SameRows DEF StateOf
<1>7. ASSUME NEW w \in Workers, HandOver(w) PROVE Promise!Next
  <2>1. PICK e \in Emails, ref \in 1 .. MaxRefs, attempt \in 1 .. MaxAttempts :
            claim[w] = [email |-> e, attempt |-> attempt, ref |-> ref]
    BY <1>7, <1>t DEF HandOver, Sending, WorkersTyped, Claims
  <2>2. <<ref, attempt>> \notin handed[e]
    BY <1>7, <2>1 DEF FreshInv, CopiesUnspent, HandOver, InFlight, Copy
  <2>3. ref <= row[e].ref
    BY <1>7, <2>1, <1>t DEF FreshInv, ClaimsReached, Reached, HandOver, Sending, Busy, Rows
  <2>4. handed' = [handed EXCEPT ![e] = @ \cup {<<ref, attempt>>}] /\ UNCHANGED row
    BY <1>7, <2>1 DEF HandOver
  <2>5. Promise!HandOver(e)
    BY <2>2, <2>3, <2>4 DEF Promise!HandOver, Promise!Copies, StateOf
  <2>. QED
    BY <2>5 DEF Promise!Next
<1>8. ASSUME NEW w \in Workers, FinishAsAccepted(w) \/ CancelClaim(w) \/ Reschedule(w)
      PROVE  Promise!Next \/ UNCHANGED Promise!vars
  <2>1. PICK e \in Emails : claim[w].email = e
    BY <1>8, <1>t, ClaimedMailTyped DEF FinishAsAccepted, CancelClaim, Reschedule
  <2>2. UNCHANGED handed
    BY <1>8 DEF FinishAsAccepted, CancelClaim, Reschedule
  <2>3. CASE UNCHANGED row
    BY <2>2, <2>3, SameRows DEF StateOf
  <2>4. CASE FinishAsAccepted(w) /\ Owns(w)
    <3>1. \E copy \in handed[e] : copy[1] = row[e].ref
      BY <2>1, <2>4 DEF FinishAsAccepted, AcceptedHanded, OwnersCurrent, Busy, Copy
    <3>. QED
      BY <3>1, <2>1, <2>2, <2>4, <1>c DEF FinishAsAccepted, Owns, Terminal
  <2>5. CASE CancelClaim(w) /\ Owns(w)
    BY <2>1, <2>2, <2>5, <1>c DEF CancelClaim, Owns, Terminal
  <2>6. CASE Reschedule(w) /\ Owns(w) /\ ~row[e].cancel
    BY <2>1, <2>2, <2>6, <1>c DEF Reschedule, Owns, Terminal
  <2>. QED
    BY <1>8, <2>1, <2>3, <2>4, <2>5, <2>6 DEF FinishAsAccepted, CancelClaim, Reschedule
<1>9. ASSUME NEW w \in Workers,
             \/ CheckBeforeRender(w) \/ CheckBeforeSend(w) \/ CheckAfterError(w) \/ Renew(w)
             \/ RenderFails(w) \/ SendFails(w) \/ HeartbeatLosesLease(w) \/ Crash(w)
      PROVE  UNCHANGED Promise!vars
  <2>1. UNCHANGED <<row, handed>>
    BY <1>9 DEF CheckBeforeRender, CheckBeforeSend, CheckAfterError, Check, Renew,
                RenderFails, SendFails, HeartbeatLosesLease, Crash
  <2>. QED
    BY <2>1, SameRows DEF StateOf
<1>10. CASE UNCHANGED vars
  BY <1>10, SameRows DEF vars, StateOf
<1>. QED
  BY <1>1, <1>2, <1>3, <1>4, <1>5, <1>6, <1>7, <1>8, <1>9, <1>10
  DEF Next, Request, Elapse, Pick, Deliver

(***************************************************************************)
(* The mail service takes at most MaxAttempts copies of a reference, SENT  *)
(* is never said before it took one, a verdict stands until a resend.      *)
(***************************************************************************)
THEOREM OutboxKeepsThePromise == Spec => KeepsThePromise
<1>1. Init => Promise!Init
  BY DEF Init, Promise!Init, StateOf, Absent
<1>2. Init => FreshInv /\ OwnersCurrent /\ AcceptedHanded
  BY DEF Init, FreshInv, HandedReached, ClaimsReached, CopiesUnspent, ClaimsDiffer, Busy,
         InFlight, Sending, OwnersCurrent, AcceptedHanded
<1>. QED
  BY <1>1, <1>2, PromiseStep, FreshStep, OwnersStep, AcceptedStep, TypeCorrect, PTL
  DEF Spec, KeepsThePromise, Promise!Spec
=============================================================================
