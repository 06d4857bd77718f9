------------------------------ MODULE MCOutbox ------------------------------
(***************************************************************************)
(* Small outboxes for TLC.  Mails meet only in the workers that carry      *)
(* them, so one part of the instance gives two workers to one mail at a    *)
(* time, of either kind, and the other lets one worker serve two mails.    *)
(***************************************************************************)
EXTENDS Outbox

CONSTANT only     \* the worker that serves the queue alone

VARIABLE focus
mcvars == <<focus, vars>>

Focused(f, A) == focus = f /\ A /\ UNCHANGED focus

OneMail == \A e, f \in Emails : row[e].status # "absent" /\ row[f].status # "absent" => e = f

\* The only worker of a queue is the one that claims.
Alone == \A w \in Workers \ {only} : claim'[w] = claim[w]

MCInit == Init /\ focus \in {"workers", "queue"}
Kept(A) == Focused("workers", A /\ OneMail') \/ Focused("queue", A /\ Alone)

MCNext == Kept(Next)

\* The same fairness, of the steps that the focus keeps.
MCSpec ==
    /\ MCInit /\ [][MCNext]_mcvars
    /\ \A e \in Emails : /\ WF_mcvars(Kept(Pick(e))) /\ WF_mcvars(Kept(BecomeDue(e)))
                         /\ WF_mcvars(Kept(Abandoned(e) /\ LeaseExpires(e)))
    /\ \A w \in Workers : WF_mcvars(Kept(Deliver(w)))
=============================================================================
