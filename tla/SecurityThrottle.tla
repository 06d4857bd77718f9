--------------------------- MODULE SecurityThrottle ---------------------------
(***************************************************************************)
(* The counters of attempts.  A sign-in reserves one attempt of its        *)
(* subject and one of its address before it authenticates, and gives them  *)
(* back when it succeeds; the claim of an invitation only looks first and  *)
(* counts its failure afterwards.  Attempts are numbered in the order they *)
(* arrive, and the number of the one that opens a window stands for the    *)
(* instant the window starts.                                              *)
(***************************************************************************)
EXTENDS Naturals, Sequences, FiniteSets

CONSTANTS
    Subjects,      \* accounts that sign in
    Address,       \* the scope and key of the one address they come from
    Claiming,      \* ... and the one of its claims
    SubjectLimit, AddressLimit,
    MaxTries,      \* bound on attempts
    NoRow          \* no row

ASSUME ThrottleAssumption ==
    /\ Address \notin Subjects /\ Claiming \notin Subjects /\ Address # Claiming
    /\ SubjectLimit \in Nat /\ AddressLimit \in Nat /\ MaxTries \in Nat

Keys == Subjects \cup {Address, Claiming}
Limit(k) == IF k \in Subjects THEN SubjectLimit ELSE AddressLimit

VARIABLES
    rows,      \* key: NoRow or its SecurityThrottle
    over,      \* <<key, window>> pairs whose window_seconds have passed
    tries      \* the attempts, and what each reserved

throttlevars == <<rows, over, tries>>

Rows    == [attempts : 0 .. MaxTries, window : 1 .. MaxTries, block : {"none", "live", "over"}]
Entries == [window : 1 .. MaxTries, after : 1 .. MaxTries]

ASSUME NoRowAssumption == NoRow \notin Rows /\ NoRow \notin Entries
Tries   == [kind : {"sign in", "claim"}, state : {"reserved", "refused", "failed", "succeeded"},
            entries : [Keys -> Entries \cup {NoRow}], done : 0 .. MaxTries]

TInit == rows = [k \in Keys |-> NoRow] /\ over = {} /\ tries = <<>>

-----------------------------------------------------------------------------
New(now) == [attempts |-> 0, window |-> now, block |-> "none"]

\* _get_locked_throttle, and the reset of a window that ran out
Located(k, now) == IF rows[k] = NoRow THEN New(now) ELSE rows[k]
Current(k, now) == IF <<k, Located(k, now).window>> \in over THEN New(now) ELSE Located(k, now)

Counted(row, k) == [row EXCEPT !.attempts = @ + 1,
                               !.block = IF row.attempts + 1 >= Limit(k) THEN "live" ELSE @]

Refuses(k, now) == \/ Current(k, now).block = "live"
                   \/ Current(k, now).attempts >= Limit(k)

Arrives(kind, state, entries) ==
    tries' = Append(tries, [kind |-> kind, state |-> state, entries |-> entries, done |-> 0])
NoEntries == [k \in Keys |-> NoRow]
Now == Len(tries) + 1

\* reserve_throttle_attempts: every key is locked, in one order, before any is counted.
\* A refusal leaves behind the rows it had to create.
ReserveThrottleAttempts(s) == LET ks == {s, Address} IN
    /\ Len(tries) < MaxTries /\ UNCHANGED over
    /\ IF \E k \in ks : Refuses(k, Now)
       THEN /\ rows' = [k \in Keys |-> IF k \in ks THEN Located(k, Now) ELSE rows[k]]
            /\ Arrives("sign in", "refused", NoEntries)
       ELSE /\ rows' = [k \in Keys |-> IF k \in ks THEN Counted(Current(k, Now), k) ELSE rows[k]]
            /\ Arrives("sign in", "reserved",
                  [k \in Keys |-> IF k \in ks THEN [window |-> rows'[k].window, after |-> rows'[k].attempts]
                                  ELSE NoRow])

Less(n, m) == IF n > m THEN n - m ELSE 0

\* What a success leaves of a row.  Only the subject's scope is among reset_scopes.
SettledAnyWindow(k, entry) ==
    LET left == IF k \in Subjects THEN Less(rows[k].attempts, entry.after) ELSE Less(rows[k].attempts, 1) IN
    IF left = 0 THEN NoRow
    ELSE [rows[k] EXCEPT !.attempts = left, !.block = IF left < Limit(k) THEN "none" ELSE @]
Settled(k, entry) ==
    LET left == IF k \in Subjects THEN Less(rows[k].attempts, entry.after) ELSE Less(rows[k].attempts, 1) IN
    IF rows[k].window # entry.window THEN rows[k]
    ELSE IF left = 0 THEN NoRow
    ELSE [rows[k] EXCEPT !.attempts = left, !.block = IF left < Limit(k) THEN "none" ELSE @]

\* settle_successful_throttle
Succeed(n) ==
    /\ tries[n].kind = "sign in" /\ tries[n].state = "reserved"
    /\ rows' = [k \in Keys |-> IF tries[n].entries[k] = NoRow \/ rows[k] = NoRow THEN rows[k]
                               ELSE Settled(k, tries[n].entries[k])]
    /\ tries' = [tries EXCEPT ![n].state = "succeeded", ![n].done = Len(tries)]
    /\ UNCHANGED over

\* A wrong password, or a request that dies: what it reserved stays.
Fail(n) ==
    /\ tries[n].kind = "sign in" /\ tries[n].state = "reserved"
    /\ tries' = [tries EXCEPT ![n].state = "failed"]
    /\ UNCHANGED <<rows, over>>

-----------------------------------------------------------------------------
\* is_throttled, when an invitation is claimed
Look ==
    /\ Len(tries) < MaxTries
    /\ Arrives("claim", IF rows[Claiming] # NoRow /\ rows[Claiming].block = "live" THEN "refused" ELSE "reserved",
               NoEntries)
    /\ UNCHANGED <<rows, over>>

\* record_failed_attempt, when there was no such invitation
RecordFailedAttempt(n) == LET row == Counted(Current(Claiming, n), Claiming) IN
    /\ tries[n].kind = "claim" /\ tries[n].state = "reserved"
    /\ rows' = [rows EXCEPT ![Claiming] = row]
    /\ tries' = [tries EXCEPT ![n].state = "failed",
                              ![n].entries[Claiming] = [window |-> row.window, after |-> row.attempts]]
    /\ UNCHANGED over
FindInvitation(n) ==
    /\ tries[n].kind = "claim" /\ tries[n].state = "reserved"
    /\ tries' = [tries EXCEPT ![n].state = "succeeded", ![n].done = Len(tries)]
    /\ UNCHANGED <<rows, over>>

-----------------------------------------------------------------------------
\* Time.  A block is counted from the last attempt, so it outlasts the window.
WindowPasses(k) ==
    /\ rows[k] # NoRow /\ <<k, rows[k].window>> \notin over
    /\ over' = over \cup {<<k, rows[k].window>>}
    /\ UNCHANGED <<rows, tries>>
BlockPasses(k) ==
    /\ rows[k] # NoRow /\ rows[k].block = "live" /\ <<k, rows[k].window>> \in over
    /\ rows' = [rows EXCEPT ![k].block = "over"]
    /\ UNCHANGED <<over, tries>>
\* prune_security_throttles: rows nobody touched for days, much longer than any window
Prune(k) ==
    /\ rows[k] # NoRow /\ <<k, rows[k].window>> \in over /\ rows[k].block # "live"
    /\ rows' = [rows EXCEPT ![k] = NoRow]
    /\ UNCHANGED <<over, tries>>

TNext ==
    \/ \E s \in Subjects : ReserveThrottleAttempts(s)
    \/ Look
    \/ \E n \in 1 .. Len(tries) : Succeed(n) \/ Fail(n) \/ RecordFailedAttempt(n) \/ FindInvitation(n)
    \/ \E k \in Keys : WindowPasses(k) \/ BlockPasses(k) \/ Prune(k)

TSpec == TInit /\ [][TNext]_throttlevars

-----------------------------------------------------------------------------
TTypeOK ==
    /\ rows \in [Keys -> Rows \cup {NoRow}]
    /\ over \subseteq Keys \X (1 .. MaxTries)
    /\ tries \in Seq(Tries) /\ Len(tries) <= MaxTries

In(n, k, w) == tries[n].entries[k] # NoRow /\ tries[n].entries[k].window = w
Standing(k, w)  == {n \in 1 .. Len(tries) : In(n, k, w) /\ tries[n].state \in {"reserved", "failed"}}
Successes(k, w) == {n \in 1 .. Len(tries) : In(n, k, w) /\ tries[n].state = "succeeded"}

HasWindow(k, w) == rows[k] # NoRow /\ rows[k].window = w

\* A success of its subject forgives an attempt that was reserved before it.
Remembered(k, w) ==
    IF k \in Subjects THEN {n \in Standing(k, w) : \A m \in Successes(k, w) : n > m} ELSE Standing(k, w)

\* Two successes of a window overlap when the second had reserved before the first ended.
Overlaps(m, k, w) == \E p \in Successes(k, w) :
    (p < m /\ tries[p].done >= m) \/ (m < p /\ tries[m].done >= p)

\* One that overlaps another discounts a number that the other has discounted in part, so
\* whatever was reserved by the time it ended may be gone from the counter.
Forgiven(n, k, w) == \E m \in Successes(k, w) :
    n < m \/ (n <= tries[m].done /\ Overlaps(m, k, w))
Unforgiven(k, w) == IF k \in Subjects THEN {n \in Standing(k, w) : ~Forgiven(n, k, w)} ELSE Standing(k, w)

(***************************************************************************)
(* While a window lasts its counter holds every attempt that stands        *)
(* against it and that no success of its subject took back, counts none    *)
(* twice and none that a success reserved later took back, and never       *)
(* passes the limit; a new window starts from nothing.  Only where two     *)
(* successes of one subject overlap may it miss others, reserved by the    *)
(* time the later of them ended.  Addresses and claims are counted         *)
(* exactly.                                                                *)
(***************************************************************************)
CountsWhatStands == \A k \in Keys, w \in 1 .. MaxTries : <<k, w>> \notin over =>
    IF HasWindow(k, w)
    THEN /\ Cardinality(Unforgiven(k, w)) <= rows[k].attempts
         /\ rows[k].attempts <= Cardinality(Remembered(k, w))
         /\ k # Claiming => rows[k].attempts <= Limit(k)
    ELSE Unforgiven(k, w) = {}

(***************************************************************************)
(* "Retira la reserva correcta tras un acceso válido sin borrar fallos     *)
(* posteriores" (settle_successful_throttle, security_throttle.py:194):    *)
(* what failed after the last success of its subject is still in the       *)
(* counter, whichever order the successes are settled in.                  *)
(***************************************************************************)
LaterFailuresStay == \A k \in Subjects, w \in 1 .. MaxTries : <<k, w>> \notin over =>
    LET failures == {n \in Remembered(k, w) : tries[n].state = "failed"} IN
    Cardinality(failures) <= IF HasWindow(k, w) THEN rows[k].attempts ELSE 0
=============================================================================
