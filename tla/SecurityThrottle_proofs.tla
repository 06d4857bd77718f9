------------------------ MODULE SecurityThrottle_proofs ------------------------
(***************************************************************************)
(* For every number of subjects and attempts and for every limit: while a  *)
(* window lasts, its counter holds what stands against it and no success   *)
(* could take back, and nothing that a success did take back.              *)
(***************************************************************************)
EXTENDS SecurityThrottle, FiniteSetTheorems, TLAPS

USE ThrottleAssumption, NoRowAssumption

Tried == 1 .. Len(tries)

(* Where a window comes from: an attempt opens it, and is recorded when it is a claim's. *)
RowsOpened == \A k \in Keys : rows[k] # NoRow =>
    /\ rows[k].window \in Tried
    /\ k = Claiming => tries[rows[k].window].state = "failed"
EntriesOpened == \A n \in Tried, k \in Keys : tries[n].entries[k] # NoRow =>
    /\ tries[n].entries[k].window \in Tried
    /\ k = Claiming => tries[tries[n].entries[k].window].state = "failed"

(* A claim has an entry of its scope when it has failed, a sign-in never has one. *)
ClaimsEnterLate == \A n \in Tried, k \in Keys : tries[n].entries[k] # NoRow =>
    (tries[n].kind = "claim" <=> k = Claiming) /\ (k = Claiming => tries[n].state = "failed")

(* No counter runs ahead of the attempts made, nor of its limit. *)
Bounded == \A k \in Keys \ {Claiming} : rows[k] # NoRow => rows[k].attempts <= Len(tries) /\ rows[k].attempts <= Limit(k)

(* The counter of a window against what stands against it, for as long as a row has it *)
Counts(k, w) ==
    IF HasWindow(k, w)
    THEN /\ Cardinality(Unforgiven(k, w)) <= rows[k].attempts
         /\ rows[k].attempts <= Cardinality(Remembered(k, w))
    ELSE <<k, w>> \in over \/ Unforgiven(k, w) = {}
RowsCount == \A k \in Keys, w \in Nat : Counts(k, w)

(* What an attempt read after counting itself, and what has been reserved since.  While no *)
(* success reserved after it, the counter has not passed their sum; while none has even    *)
(* ended after it reserved, the counter has not fallen below.                              *)
Later(k, w, m)   == {n \in Standing(k, w) : n > m}
Newest(k, w, m)  == \A p \in Successes(k, w) : p < m
Since(k, w, m)   == \A p \in Successes(k, w) : p < m /\ tries[p].done < m
Entered(k, w, m) == In(m, k, w) /\ tries[m].state = "reserved" /\ HasWindow(k, w) =>
    /\ Newest(k, w, m) => rows[k].attempts <= tries[m].entries[k].after + Cardinality(Later(k, w, m))
    /\ Since(k, w, m)  => rows[k].attempts >= tries[m].entries[k].after + Cardinality(Later(k, w, m))
EntriesCount == \A k \in Subjects, w \in Nat, m \in Tried : Entered(k, w, m)

ThrottleInv == TTypeOK /\ RowsOpened /\ EntriesOpened /\ ClaimsEnterLate /\ Bounded /\ RowsCount /\ EntriesCount

-----------------------------------------------------------------------------
LEMMA Appended ==
    ASSUME TTypeOK, Len(tries) < MaxTries, NEW e \in Tries, tries' = Append(tries, e)
    PROVE  /\ tries' \in Seq(Tries) /\ Len(tries') = Len(tries) + 1 /\ Len(tries') <= MaxTries
           /\ tries'[Len(tries) + 1] = e /\ \A n \in Tried : tries'[n] = tries[n]
  BY DEF TTypeOK, Tried

LEMMA Updated ==
    ASSUME TTypeOK, NEW n \in Tried, NEW e \in Tries, tries' = [tries EXCEPT ![n] = e]
    PROVE  /\ tries' \in Seq(Tries) /\ Len(tries') = Len(tries) /\ tries'[n] = e
           /\ \A m \in Tried \ {n} : tries'[m] = tries[m]
  BY DEF TTypeOK, Tried

LEMMA Try ==
    ASSUME TTypeOK, NEW n \in Tried
    PROVE  /\ tries[n] \in Tries /\ tries[n].kind \in {"sign in", "claim"}
           /\ tries[n].state \in {"reserved", "refused", "failed", "succeeded"}
           /\ tries[n].entries \in [Keys -> Entries \cup {NoRow}] /\ tries[n].done \in 0 .. MaxTries
<1>1. tries[n] \in Tries
  BY DEF TTypeOK, Tried
<1>. QED
  BY <1>1 DEF Tries

LEMMA Entry ==
    ASSUME TTypeOK, NEW n \in Tried, NEW k \in Keys, tries[n].entries[k] # NoRow
    PROVE  tries[n].entries[k].window \in 1 .. MaxTries /\ tries[n].entries[k].after \in 1 .. MaxTries
<1>1. tries[n].entries[k] \in Entries
  BY Try
<1>. QED
  BY <1>1 DEF Entries

LEMMA Row ==
    ASSUME TTypeOK, NEW k \in Keys, rows[k] # NoRow
    PROVE  /\ rows[k] \in Rows /\ rows[k].attempts \in 0 .. MaxTries /\ rows[k].window \in 1 .. MaxTries
           /\ rows[k].block \in {"none", "live", "over"}
  BY DEF TTypeOK, Rows

(* What counting does to a row. *)
LEMMA CountedRow ==
    ASSUME NEW row \in Rows, NEW k \in Keys
    PROVE  LET new == Counted(row, k) IN
           /\ new.attempts = row.attempts + 1 /\ new.window = row.window
           /\ row.attempts + 1 <= MaxTries => new \in Rows
<1>. DEFINE block == IF row.attempts + 1 >= Limit(k) THEN "live" ELSE row.block
<1>1. Counted(row, k) = [row EXCEPT !.attempts = row.attempts + 1, !.block = block]
  BY DEF Counted
<1>2. block \in {"none", "live", "over"}
  BY DEF Rows
<1>. HIDE DEF block
<1>3. row.attempts \in 0 .. MaxTries
  BY DEF Rows
<1>4. Counted(row, k).attempts = row.attempts + 1 /\ Counted(row, k).window = row.window
  BY <1>1 DEF Rows
<1>5. ASSUME row.attempts + 1 <= MaxTries PROVE Counted(row, k) \in Rows
  <2>1. row.attempts + 1 \in 0 .. MaxTries
    BY <1>3, <1>5
  <2>. QED
    BY <1>1, <1>2, <2>1 DEF Rows
<1>. QED
  BY <1>4, <1>5

LEMMA NewWindow ==
    ASSUME NEW n \in 1 .. MaxTries
    PROVE  New(n) \in Rows /\ New(n).attempts = 0 /\ New(n).window = n
  BY DEF New, Rows

LEMMA TriedIsFinite ==
    ASSUME TTypeOK
    PROVE  IsFiniteSet(Tried) /\ Cardinality(Tried) = Len(tries)
<1>1. Len(tries) \in Nat
  BY DEF TTypeOK
<1>2. \A b \in Nat : IsFiniteSet(1 .. b) /\ Cardinality(1 .. b) = b
  <2>. SUFFICES ASSUME NEW b \in Nat PROVE IsFiniteSet(1 .. b) /\ Cardinality(1 .. b) = b
    OBVIOUS
  <2>1. b \in Int /\ 1 \in Int
    OBVIOUS
  <2>2. IsFiniteSet(1 .. b) /\ Cardinality(1 .. b) = IF 1 > b THEN 0 ELSE b - 1 + 1
    BY <2>1, FS_Interval
  <2>. QED
    BY <2>2
<1>. QED
  BY <1>1, <1>2 DEF Tried

LEMMA Remembering ==
    ASSUME TTypeOK, NEW k, NEW w
    PROVE  /\ Standing(k, w) \subseteq Tried /\ Successes(k, w) \subseteq Tried
           /\ IsFiniteSet(Standing(k, w)) /\ Cardinality(Standing(k, w)) \in 0 .. Len(tries)
<1>1. Standing(k, w) \subseteq Tried /\ Successes(k, w) \subseteq Tried
  BY DEF Standing, Successes, Tried
<1>2. Len(tries) \in Nat
  BY DEF TTypeOK
<1>3. IsFiniteSet(Tried) /\ Cardinality(Tried) = Len(tries)
  BY TriedIsFinite
<1>. QED
  BY <1>1, <1>2, <1>3, FS_Subset, FS_CardinalityType

(* What is left of the attempts that stand, one way or another, is finite. *)
LEMMA Selected ==
    ASSUME TTypeOK, NEW k, NEW w, NEW S, S \subseteq Standing(k, w)
    PROVE  IsFiniteSet(S) /\ Cardinality(S) \in Nat
<1>1. IsFiniteSet(Standing(k, w))
  BY Remembering
<1>. QED
  BY <1>1, FS_Subset, FS_CardinalityType

LEMMA Parts ==
    ASSUME NEW k, NEW w
    PROVE  /\ Remembered(k, w) \subseteq Standing(k, w) /\ Unforgiven(k, w) \subseteq Standing(k, w)
           /\ \A m : Later(k, w, m) \subseteq Standing(k, w)
           /\ k \notin Subjects => Remembered(k, w) = Standing(k, w) /\ Unforgiven(k, w) = Standing(k, w)
  BY DEF Remembered, Unforgiven, Later

SameMemory(k, w) ==
    /\ Standing(k, w)' = Standing(k, w) /\ Successes(k, w)' = Successes(k, w)
    /\ \A p \in Successes(k, w) : tries'[p].done = tries[p].done

(* A step that leaves the attempts of a window alone leaves its memory alone. *)
LEMMA Untouched ==
    ASSUME NEW k, NEW w, SameMemory(k, w)
    PROVE  /\ Remembered(k, w)' = Remembered(k, w) /\ Unforgiven(k, w)' = Unforgiven(k, w)
           /\ \A m : /\ Later(k, w, m)' = Later(k, w, m)
                     /\ (Newest(k, w, m)' <=> Newest(k, w, m)) /\ (Since(k, w, m)' <=> Since(k, w, m))
<1>1. ASSUME NEW m \in Successes(k, w) PROVE Overlaps(m, k, w)' <=> Overlaps(m, k, w)
  BY DEF SameMemory, Overlaps
<1>2. \A n : Forgiven(n, k, w)' <=> Forgiven(n, k, w)
  BY <1>1 DEF SameMemory, Forgiven
<1>3. Unforgiven(k, w)' = Unforgiven(k, w)
  BY <1>2 DEF SameMemory, Unforgiven
<1>. QED
  BY <1>3 DEF SameMemory, Remembered, Later, Newest, Since

(* ... and so does one that appends an attempt without an entry for it. *)
LEMMA OthersAppended ==
    ASSUME TTypeOK, Len(tries) < MaxTries, NEW e \in Tries, tries' = Append(tries, e), NEW k \in Keys, NEW w,
           e.entries[k] = NoRow \/ e.entries[k].window # w
    PROVE  SameMemory(k, w)
<1>1. Len(tries) \in Nat /\ 1 .. Len(tries') = Tried \cup {Len(tries) + 1}
  BY Appended DEF TTypeOK, Tried
<1>2. tries'[Len(tries) + 1] = e /\ \A n \in Tried : tries'[n] = tries[n]
  BY Appended
<1>3. \A n \in Tried : In(n, k, w)' <=> In(n, k, w)
  BY <1>2 DEF In
<1>4. ASSUME NEW n, n = Len(tries) + 1 PROVE ~In(n, k, w)'
  BY <1>2, <1>4 DEF In
<1>5. \A n \in 1 .. Len(tries') : n \in Tried \/ n = Len(tries) + 1
  BY <1>1
<1>6. Standing(k, w)' = Standing(k, w)
  BY <1>1, <1>2, <1>3, <1>4, <1>5 DEF Standing, Tried
<1>7. Successes(k, w)' = Successes(k, w)
  BY <1>1, <1>2, <1>3, <1>4, <1>5 DEF Successes, Tried
<1>. QED
  BY <1>2, <1>6, <1>7 DEF SameMemory, Successes, Tried

(* What a window remembers when it is new: nothing. *)
LEMMA NewWindowIsEmpty ==
    ASSUME EntriesOpened, NEW k \in Keys, NEW w,
           w \notin Tried \/ (k = Claiming /\ tries[w].state # "failed")
    PROVE  Standing(k, w) = {} /\ ~(RowsOpened /\ HasWindow(k, w))
<1>1. \A n \in Tried : ~In(n, k, w)
  BY DEF EntriesOpened, In
<1>2. Standing(k, w) = {}
  BY <1>1 DEF Standing, Tried
<1>. QED
  BY <1>2 DEF HasWindow, RowsOpened

(* The counter goes on counting when the memory stays and the row stays, gives way to a *)
(* new one with nothing to remember, or ends with its window.                           *)
RowStays(k, w) ==
    /\ HasWindow(k, w)' => \/ HasWindow(k, w) /\ rows'[k].attempts = rows[k].attempts
                           \/ Standing(k, w) = {} /\ rows'[k].attempts = 0
    /\ ~HasWindow(k, w)' => ~HasWindow(k, w) \/ <<k, w>> \in over'

LEMMA CountsStill ==
    ASSUME NEW k, NEW w, Counts(k, w), over \subseteq over', SameMemory(k, w), RowStays(k, w)
    PROVE  Counts(k, w)'
<1>1. Remembered(k, w)' = Remembered(k, w) /\ Unforgiven(k, w)' = Unforgiven(k, w)
  BY Untouched
<1>2. Cardinality({}) = 0
  BY FS_EmptySet
<1>3. Standing(k, w) = {} => Remembered(k, w) = {} /\ Unforgiven(k, w) = {}
  BY Parts
<1>4. CASE HasWindow(k, w)' /\ HasWindow(k, w) /\ rows'[k].attempts = rows[k].attempts
  BY <1>1, <1>4 DEF Counts
<1>5. CASE HasWindow(k, w)' /\ Standing(k, w) = {} /\ rows'[k].attempts = 0
  <2>1. Cardinality(Unforgiven(k, w)') = 0 /\ Cardinality(Remembered(k, w)') = 0
    BY <1>1, <1>2, <1>3, <1>5
  <2>. QED
    BY <1>5, <2>1 DEF Counts
<1>6. CASE ~HasWindow(k, w)'
  BY <1>1, <1>6 DEF Counts, RowStays
<1>. QED
  BY <1>4, <1>5, <1>6 DEF RowStays

LEMMA EnteredStill ==
    ASSUME NEW k, NEW w, NEW m \in Tried, Entered(k, w, m), SameMemory(k, w), RowStays(k, w),
           tries'[m].state = "reserved" => tries'[m] = tries[m]
    PROVE  Entered(k, w, m)'
<1>. SUFFICES ASSUME In(m, k, w)', tries'[m].state = "reserved", HasWindow(k, w)'
              PROVE  /\ Newest(k, w, m)' => rows'[k].attempts <= tries'[m].entries[k].after + Cardinality(Later(k, w, m)')
                     /\ Since(k, w, m)'  => rows'[k].attempts >= tries'[m].entries[k].after + Cardinality(Later(k, w, m)')
  BY DEF Entered
<1>1. tries'[m] = tries[m] /\ In(m, k, w) /\ tries[m].state = "reserved"
  BY DEF In
<1>2. m \in Standing(k, w)
  BY <1>1 DEF Standing, Tried
<1>3. HasWindow(k, w) /\ rows'[k].attempts = rows[k].attempts
  BY <1>2 DEF RowStays
<1>4. Later(k, w, m)' = Later(k, w, m) /\ (Newest(k, w, m)' <=> Newest(k, w, m)) /\ (Since(k, w, m)' <=> Since(k, w, m))
  BY Untouched
<1>. QED
  BY <1>1, <1>3, <1>4 DEF Entered

-----------------------------------------------------------------------------
LEMMA Zero == 0 \in 0 .. MaxTries
  BY ThrottleAssumption

(* Attempts that enter nothing: a refused sign-in, a look. *)
LEMMA NothingEntered ==
    ASSUME NEW kind \in {"sign in", "claim"}, NEW state \in {"reserved", "refused"}, Arrives(kind, state, NoEntries)
    PROVE  \E e \in Tries : tries' = Append(tries, e) /\ \A k \in Keys : e.entries[k] = NoRow
<1>. DEFINE e == [kind |-> kind, state |-> state, entries |-> NoEntries, done |-> 0]
<1>1. NoEntries \in [Keys -> Entries \cup {NoRow}] /\ \A k \in Keys : NoEntries[k] = NoRow
  BY DEF NoEntries
<1>. HIDE DEF e
<1>2. state \in {"reserved", "refused", "failed", "succeeded"}
  OBVIOUS
<1>3. \A es \in [Keys -> Entries \cup {NoRow}] : [kind |-> kind, state |-> state, entries |-> es, done |-> 0] \in Tries
  BY <1>2, Zero DEF Tries
<1>4. e \in Tries
  BY <1>1, <1>3 DEF e
<1>. QED
  BY <1>1, <1>4 DEF Arrives, e

LEMMA FrameOfArrival ==
    ASSUME ThrottleInv, Len(tries) < MaxTries, NEW e \in Tries, tries' = Append(tries, e),
           \A k \in Keys : e.entries[k] = NoRow, UNCHANGED over,
           rows' \in [Keys -> Rows \cup {NoRow}],
           \A k \in Keys : \/ rows'[k] = rows[k]
                           \/ k # Claiming /\ rows[k] = NoRow /\ rows'[k] = New(Len(tries) + 1)
    PROVE  ThrottleInv'
<1>0. Len(tries) \in Nat /\ TTypeOK
  BY DEF ThrottleInv, TTypeOK
<1>1. /\ tries' \in Seq(Tries) /\ Len(tries') = Len(tries) + 1 /\ Len(tries') <= MaxTries
      /\ tries'[Len(tries) + 1] = e /\ \A n \in Tried : tries'[n] = tries[n]
  BY <1>0, Appended
<1>2. Tried' = Tried \cup {Len(tries) + 1} /\ Len(tries) + 1 \in 1 .. MaxTries /\ Len(tries) + 1 \notin Tried
  BY <1>0, <1>1 DEF Tried
<1>3. New(Len(tries) + 1) \in Rows /\ New(Len(tries) + 1).attempts = 0 /\ New(Len(tries) + 1).window = Len(tries) + 1
  BY <1>2, NewWindow
<1>4. TTypeOK'
  BY <1>0, <1>1 DEF TTypeOK
<1>5. RowsOpened'
  <2>. SUFFICES ASSUME NEW k \in Keys, rows'[k] # NoRow
                PROVE  rows'[k].window \in Tried' /\ (k = Claiming => tries'[rows'[k].window].state = "failed")
    BY DEF RowsOpened
  <2>1. CASE rows'[k] = rows[k]
    BY <1>1, <1>2, <2>1 DEF ThrottleInv, RowsOpened
  <2>2. CASE rows'[k] # rows[k]
    BY <1>2, <1>3, <2>2
  <2>. QED
    BY <2>1, <2>2
<1>6. EntriesOpened' /\ ClaimsEnterLate'
  <2>1. ASSUME NEW n \in Tried', NEW k \in Keys, tries'[n].entries[k] # NoRow
        PROVE  n \in Tried /\ tries'[n] = tries[n]
    BY <1>1, <1>2, <2>1
  <2>4. \A x \in Tried : x \in Tried' /\ tries'[x] = tries[x]
    BY <1>1, <1>2
  <2>5. EntriesOpened /\ ClaimsEnterLate
    BY DEF ThrottleInv
  <2>2. EntriesOpened'
    <3>. SUFFICES ASSUME NEW n \in Tried', NEW k \in Keys, tries'[n].entries[k] # NoRow
                  PROVE  /\ tries'[n].entries[k].window \in Tried'
                         /\ k = Claiming => tries'[tries'[n].entries[k].window].state = "failed"
      BY DEF EntriesOpened
    <3>1. n \in Tried /\ tries'[n] = tries[n]
      BY <2>1
    <3>2. /\ tries[n].entries[k].window \in Tried
          /\ k = Claiming => tries[tries[n].entries[k].window].state = "failed"
      BY <2>5, <3>1 DEF EntriesOpened
    <3>. QED
      BY <2>4, <3>1, <3>2
  <2>3. ClaimsEnterLate'
    <3>. SUFFICES ASSUME NEW n \in Tried', NEW k \in Keys, tries'[n].entries[k] # NoRow
                  PROVE  (tries'[n].kind = "claim" <=> k = Claiming) /\ (k = Claiming => tries'[n].state = "failed")
      BY DEF ClaimsEnterLate
    <3>1. n \in Tried /\ tries'[n] = tries[n]
      BY <2>1
    <3>. QED
      BY <2>5, <3>1 DEF ClaimsEnterLate
  <2>. QED
    BY <2>2, <2>3
<1>7. Bounded'
  <2>. SUFFICES ASSUME NEW k \in Keys \ {Claiming}, rows'[k] # NoRow
                PROVE  rows'[k].attempts <= Len(tries') /\ rows'[k].attempts <= Limit(k)
    BY DEF Bounded
  <2>1. Limit(k) \in Nat
    BY DEF Limit
  <2>2. CASE rows'[k] = rows[k]
    <3>1. rows[k].attempts \in 0 .. MaxTries
      BY <1>0, <2>2, Row
    <3>. QED
      BY <1>0, <1>1, <2>1, <2>2, <3>1 DEF ThrottleInv, Bounded
  <2>3. CASE rows'[k] # rows[k]
    BY <1>0, <1>1, <1>3, <2>1, <2>3
  <2>. QED
    BY <2>2, <2>3
<1>10. ASSUME NEW k \in Keys, NEW w PROVE RowStays(k, w)
  <2>1. w = Len(tries) + 1 => Standing(k, w) = {}
    BY <1>2, NewWindowIsEmpty DEF ThrottleInv
  <2>2. HasWindow(k, w)' => \/ HasWindow(k, w) /\ rows'[k].attempts = rows[k].attempts
                            \/ Standing(k, w) = {} /\ rows'[k].attempts = 0
    BY <1>3, <2>1 DEF HasWindow
  <2>3. ~HasWindow(k, w)' => ~HasWindow(k, w)
    BY DEF HasWindow
  <2>. QED
    BY <2>2, <2>3 DEF RowStays
<1>8. RowsCount'
  <2>. SUFFICES ASSUME NEW k \in Keys, NEW w \in Nat PROVE Counts(k, w)'
    BY DEF RowsCount
  <2>1. SameMemory(k, w)
    BY <1>0, OthersAppended
  <2>2. Counts(k, w)
    BY DEF ThrottleInv, RowsCount
  <2>3. RowStays(k, w)
    BY <1>10
  <2>. QED
    BY <2>1, <2>2, <2>3, CountsStill
<1>9. EntriesCount'
  <2>. SUFFICES ASSUME NEW k \in Subjects, NEW w \in Nat, NEW m \in Tried' PROVE Entered(k, w, m)'
    BY DEF EntriesCount
  <2>0. k \in Keys
    BY DEF Keys
  <2>1. SameMemory(k, w)
    BY <1>0, <2>0, OthersAppended
  <2>2. CASE m \in Tried
    <3>1. Entered(k, w, m) /\ RowStays(k, w) /\ tries'[m] = tries[m]
      BY <1>1, <1>10, <2>0, <2>2 DEF ThrottleInv, EntriesCount
    <3>. QED
      BY <2>1, <2>2, <3>1, EnteredStill
  <2>3. CASE m \notin Tried
    <3>1. tries'[m] = e
      BY <1>1, <1>2, <2>3
    <3>. QED
      BY <2>0, <3>1 DEF Entered, In
  <2>. QED
    BY <2>2, <2>3
<1>. QED
  BY <1>4, <1>5, <1>6, <1>7, <1>8, <1>9 DEF ThrottleInv

LEMMA LookStep == ASSUME ThrottleInv, Look PROVE ThrottleInv'
<1>1. PICK e \in Tries : tries' = Append(tries, e) /\ \A k \in Keys : e.entries[k] = NoRow
  <2>1. PICK state \in {"reserved", "refused"} : Arrives("claim", state, NoEntries)
    BY DEF Look
  <2>. QED
    BY <2>1, NothingEntered
<1>2. rows \in [Keys -> Rows \cup {NoRow}]
  BY DEF ThrottleInv, TTypeOK
<1>. QED
  BY <1>1, <1>2, FrameOfArrival DEF Look

LEMMA RefusedStep ==
    ASSUME ThrottleInv, NEW s \in Subjects, ReserveThrottleAttempts(s), \E k \in {s, Address} : Refuses(k, Now)
    PROVE  ThrottleInv'
<1>0. {s, Address} \subseteq Keys \ {Claiming}
  BY DEF Keys
<1>1. PICK e \in Tries : tries' = Append(tries, e) /\ \A k \in Keys : e.entries[k] = NoRow
  BY NothingEntered DEF ReserveThrottleAttempts
<1>2. rows' = [k \in Keys |-> IF k \in {s, Address} THEN Located(k, Now) ELSE rows[k]]
  BY DEF ReserveThrottleAttempts
<1>3. /\ rows \in [Keys -> Rows \cup {NoRow}] /\ Len(tries) \in Nat
      /\ Len(tries) < MaxTries
  <2>1. rows \in [Keys -> Rows \cup {NoRow}] /\ Len(tries) \in Nat
    BY DEF ThrottleInv, TTypeOK
  <2>. QED
    BY <2>1 DEF ReserveThrottleAttempts
<1>4. Now \in 1 .. MaxTries /\ Now = Len(tries) + 1
  BY <1>3 DEF Now
<1>5. New(Now) \in Rows
  BY <1>4, NewWindow
<1>6. ASSUME NEW k \in Keys
      PROVE  /\ rows'[k] \in Rows \cup {NoRow}
             /\ \/ rows'[k] = rows[k]
                \/ k # Claiming /\ rows[k] = NoRow /\ rows'[k] = New(Len(tries) + 1)
  BY <1>0, <1>2, <1>3, <1>4, <1>5 DEF Located
<1>7. rows' \in [Keys -> Rows \cup {NoRow}]
  BY <1>2, <1>6
<1>. QED
  BY <1>1, <1>3, <1>6, <1>7, FrameOfArrival DEF ReserveThrottleAttempts

-----------------------------------------------------------------------------
(* The row that is counted: the window's, while it lasts, or a new one. *)
Bracketed(k, w, a) == Cardinality(Unforgiven(k, w)) <= a /\ a <= Cardinality(Remembered(k, w))
LEMMA CurrentRow ==
    ASSUME ThrottleInv, NEW k \in Keys, NEW n \in 1 .. MaxTries, n \notin Tried \/ (k = Claiming /\ tries[n].state # "failed")
    PROVE  LET r == Current(k, n) IN
           /\ r \in Rows /\ r.attempts \in Nat
           /\ r = New(n) \/ (HasWindow(k, r.window) /\ r = rows[k])
           /\ r = New(n) => Standing(k, r.window) = {}
           /\ Bracketed(k, r.window, r.attempts)
           /\ \A w \in Nat \ {r.window} : HasWindow(k, w) => <<k, w>> \in over
<1>. DEFINE r == Current(k, n)
<1>0. TTypeOK /\ rows[k] \in Rows \cup {NoRow}
  BY DEF ThrottleInv, TTypeOK
<1>1. New(n) \in Rows /\ New(n).attempts = 0 /\ New(n).window = n
  BY NewWindow
<1>2. Standing(k, n) = {} /\ ~HasWindow(k, n)
  BY NewWindowIsEmpty DEF ThrottleInv
<1>3. Bracketed(k, n, 0)
  <2>1. Remembered(k, n) = {} /\ Unforgiven(k, n) = {}
    BY <1>2, Parts
  <2>2. Cardinality({}) = 0
    BY FS_EmptySet
  <2>. QED
    BY <2>1, <2>2 DEF Bracketed
<1>4. CASE r = New(n) /\ (rows[k] = NoRow \/ <<k, rows[k].window>> \in over)
  BY <1>1, <1>2, <1>3, <1>4 DEF HasWindow
<1>5. CASE rows[k] # NoRow /\ <<k, rows[k].window>> \notin over
  <2>1. r = rows[k]
    BY <1>5 DEF Current, Located
  <2>2. rows[k] \in Rows /\ rows[k].attempts \in 0 .. MaxTries /\ rows[k].window \in 1 .. MaxTries
    BY <1>0, <1>5, Row
  <2>3. Counts(k, rows[k].window) /\ HasWindow(k, rows[k].window)
    BY <1>5, <2>2 DEF ThrottleInv, RowsCount, HasWindow
  <2>4. r = New(n) => FALSE
    BY <1>1, <1>2, <2>1, <2>3
  <2>. QED
    BY <2>1, <2>2, <2>3, <2>4 DEF HasWindow, Counts, Bracketed
<1>. QED
  BY <1>4, <1>5 DEF Current, Located

(* One more attempt in a window, after all its successes *)
LEMMA OneMore ==
    ASSUME TTypeOK, NEW k \in Keys, NEW w, NEW n, n \notin Standing(k, w),
           Standing(k, w)' = Standing(k, w) \cup {n}, Successes(k, w)' = Successes(k, w),
           \A p \in Successes(k, w) : tries'[p].done = tries[p].done,
           k \in Subjects => n = Len(tries) + 1,
           NEW a \in Nat, Bracketed(k, w, a)
    PROVE  /\ Cardinality(Unforgiven(k, w)') <= a + 1 /\ a + 1 <= Cardinality(Remembered(k, w)')
           /\ \A m : (Newest(k, w, m)' <=> Newest(k, w, m)) /\ (Since(k, w, m)' <=> Since(k, w, m))
<1>1. /\ Successes(k, w) \subseteq Tried /\ Remembered(k, w) \subseteq Standing(k, w)
      /\ Unforgiven(k, w) \subseteq Standing(k, w)
  BY Remembering, Parts
<1>f. /\ IsFiniteSet(Remembered(k, w)) /\ Cardinality(Remembered(k, w)) \in Nat
      /\ IsFiniteSet(Unforgiven(k, w)) /\ Cardinality(Unforgiven(k, w)) \in Nat
  BY <1>1, Selected
<1>2. Len(tries) \in Nat
  BY DEF TTypeOK
<1>3. k \in Subjects => \A m \in Successes(k, w) : n > m
  BY <1>1, <1>2 DEF Tried
<1>4. Remembered(k, w)' = Remembered(k, w) \cup {n}
  BY <1>3 DEF Remembered
<1>5. Cardinality(Remembered(k, w)') = Cardinality(Remembered(k, w)) + 1
  BY <1>1, <1>4, <1>f, FS_AddElement
<1>6. Unforgiven(k, w)' \subseteq Unforgiven(k, w) \cup {n}
  <2>1. ASSUME NEW m \in Successes(k, w) PROVE Overlaps(m, k, w)' <=> Overlaps(m, k, w)
    BY DEF Overlaps
  <2>2. \A x : Forgiven(x, k, w)' <=> Forgiven(x, k, w)
    BY <2>1 DEF Forgiven
  <2>. QED
    BY <2>2 DEF Unforgiven
<1>7. Cardinality(Unforgiven(k, w)') <= Cardinality(Unforgiven(k, w)) + 1 /\ Cardinality(Unforgiven(k, w)') \in Nat
  <2>1. IsFiniteSet(Unforgiven(k, w) \cup {n}) /\ Cardinality(Unforgiven(k, w) \cup {n}) = Cardinality(Unforgiven(k, w)) + 1
    BY <1>1, <1>f, FS_AddElement
  <2>2. /\ IsFiniteSet(Unforgiven(k, w)')
        /\ Cardinality(Unforgiven(k, w)') <= Cardinality(Unforgiven(k, w) \cup {n})
    BY <1>6, <2>1, FS_Subset
  <2>. QED
    BY <2>1, <2>2, FS_CardinalityType
<1>8. \A m : (Newest(k, w, m)' <=> Newest(k, w, m)) /\ (Since(k, w, m)' <=> Since(k, w, m))
  BY DEF Newest, Since
<1>9. Cardinality(Unforgiven(k, w)) <= a /\ a <= Cardinality(Remembered(k, w))
  BY DEF Bracketed
<1>10. Cardinality(Unforgiven(k, w)') <= a + 1 /\ a + 1 <= Cardinality(Remembered(k, w)')
  BY <1>5, <1>7, <1>9, <1>f
<1>. QED
  BY <1>8, <1>10

LEMMA AcceptedStep ==
    ASSUME ThrottleInv, NEW s \in Subjects, ReserveThrottleAttempts(s), ~\E k \in {s, Address} : Refuses(k, Now)
    PROVE  ThrottleInv'
<1>. DEFINE ks == {s, Address}
            n == Len(tries) + 1
            r(k) == Current(k, n)
            entries == [k \in Keys |-> IF k \in ks THEN [window |-> rows'[k].window, after |-> rows'[k].attempts]
                                       ELSE NoRow]
            e == [kind |-> "sign in", state |-> "reserved", entries |-> entries, done |-> 0]
<1>0. TTypeOK /\ Len(tries) \in Nat /\ rows \in [Keys -> Rows \cup {NoRow}]
  BY DEF ThrottleInv, TTypeOK
<1>k. ks \subseteq Keys \ {Claiming} /\ Subjects \subseteq Keys \ {Claiming}
  BY DEF Keys
<1>a. Len(tries) < MaxTries
  BY DEF ReserveThrottleAttempts
<1>n. n \in 1 .. MaxTries /\ n \notin Tried
  BY <1>0, <1>a DEF Tried
<1>b. UNCHANGED over
  BY DEF ReserveThrottleAttempts
<1>c. /\ rows' = [k \in Keys |-> IF k \in ks THEN Counted(r(k), k) ELSE rows[k]]
      /\ tries' = Append(tries, e)
  BY DEF ReserveThrottleAttempts, Arrives, Now
<1>d. ASSUME NEW k \in ks PROVE r(k).attempts < Limit(k) /\ Limit(k) \in Nat
  <2>1. Limit(k) \in Nat
    BY DEF Limit
  <2>2. r(k).attempts \in Nat
    BY <1>k, <1>n, CurrentRow
  <2>. QED
    BY <2>1, <2>2 DEF Refuses, Now
<1>. HIDE DEF r, n
(* The rows it counts *)
<1>1. ASSUME NEW k \in ks
      PROVE  /\ r(k) \in Rows /\ r(k).attempts \in Nat /\ r(k).attempts <= Len(tries)
             /\ r(k) = New(n) \/ (HasWindow(k, r(k).window) /\ r(k) = rows[k])
             /\ r(k) = New(n) => Standing(k, r(k).window) = {}
             /\ Bracketed(k, r(k).window, r(k).attempts)
             /\ \A w \in Nat \ {r(k).window} : HasWindow(k, w) => <<k, w>> \in over
  <2>1. /\ r(k) \in Rows /\ r(k).attempts \in Nat
        /\ r(k) = New(n) \/ (HasWindow(k, r(k).window) /\ r(k) = rows[k])
        /\ r(k) = New(n) => Standing(k, r(k).window) = {}
        /\ Bracketed(k, r(k).window, r(k).attempts)
        /\ \A w \in Nat \ {r(k).window} : HasWindow(k, w) => <<k, w>> \in over
    BY <1>k, <1>n, CurrentRow DEF r
  <2>2. New(n).attempts = 0
    BY <1>n, NewWindow
  <2>3. rows[k] # NoRow => rows[k].attempts <= Len(tries)
    BY <1>k DEF ThrottleInv, Bounded
  <2>. QED
    BY <1>0, <2>1, <2>2, <2>3 DEF HasWindow
<1>2. ASSUME NEW k \in ks
      PROVE  /\ rows'[k] \in Rows /\ rows'[k] # NoRow
             /\ rows'[k].attempts = r(k).attempts + 1 /\ rows'[k].window = r(k).window
  <2>1. rows'[k] = Counted(r(k), k)
    BY <1>c, <1>k
  <2>2. r(k).attempts + 1 <= MaxTries
    BY <1>0, <1>1, <1>a
  <2>3. rows'[k] \in Rows /\ rows'[k].attempts = r(k).attempts + 1 /\ rows'[k].window = r(k).window
    BY <1>1, <1>k, <2>1, <2>2, CountedRow
  <2>. QED
    BY <2>3, NoRowAssumption
<1>3. ASSUME NEW k \in Keys \ ks PROVE rows'[k] = rows[k]
  BY <1>c, <1>3
<1>4. ASSUME NEW k \in ks
      PROVE  /\ r(k).window \in 1 .. MaxTries /\ r(k).window \in Tried \cup {n}
             /\ r(k).attempts + 1 \in 1 .. MaxTries
  <2>1. r(k).window \in 1 .. MaxTries
    BY <1>1 DEF Rows
  <2>2. New(n).window = n
    BY <1>n, NewWindow
  <2>3. rows[k] # NoRow => rows[k].window \in Tried
    BY <1>k DEF ThrottleInv, RowsOpened
  <2>4. r(k).attempts + 1 \in 1 .. MaxTries
    BY <1>0, <1>1, <1>a
  <2>. QED
    BY <1>1, <2>1, <2>2, <2>3, <2>4 DEF HasWindow
<1>5. /\ entries \in [Keys -> Entries \cup {NoRow}]
      /\ \A k \in ks : entries[k] # NoRow /\ entries[k].window = r(k).window /\ entries[k].after = r(k).attempts + 1
      /\ \A k \in Keys \ ks : entries[k] = NoRow
  <2>1. ASSUME NEW k \in ks
        PROVE  /\ entries[k] \in Entries /\ entries[k] # NoRow
               /\ entries[k].window = r(k).window /\ entries[k].after = r(k).attempts + 1
    <3>1. entries[k] = [window |-> r(k).window, after |-> r(k).attempts + 1]
      BY <1>2, <1>k
    <3>2. entries[k] \in Entries
      BY <1>4, <3>1 DEF Entries
    <3>. QED
      BY <3>1, <3>2, NoRowAssumption
  <2>2. \A k \in Keys \ ks : entries[k] = NoRow
    OBVIOUS
  <2>. QED
    BY <2>1, <2>2
<1>. HIDE DEF entries
<1>6. e \in Tries /\ e.entries = entries /\ e.state = "reserved" /\ e.kind = "sign in"
  BY <1>5, Zero DEF Tries
<1>. HIDE DEF e
<1>7. /\ tries' \in Seq(Tries) /\ Len(tries') = n /\ Len(tries') <= MaxTries
      /\ tries'[n] = e /\ \A m \in Tried : tries'[m] = tries[m]
  BY <1>0, <1>6, <1>a, <1>c, Appended DEF n
<1>8. Tried' = Tried \cup {n}
  BY <1>0, <1>7 DEF Tried, n
(* The memory of the windows *)
<1>9. ASSUME NEW k \in Keys, NEW w, ~(k \in ks /\ w = r(k).window)
      PROVE  SameMemory(k, w)
  <2>1. e.entries[k] = NoRow \/ e.entries[k].window # w
    BY <1>5, <1>6, <1>9
  <2>. QED
    BY <1>0, <1>6, <1>a, <1>c, <2>1, OthersAppended
<1>10. ASSUME NEW k \in ks, NEW w, w = r(k).window
       PROVE  /\ Standing(k, w)' = Standing(k, w) \cup {n} /\ n \notin Standing(k, w)
              /\ Cardinality(Unforgiven(k, w)') <= r(k).attempts + 1
              /\ r(k).attempts + 1 <= Cardinality(Remembered(k, w)')
              /\ \A m : (Newest(k, w, m)' <=> Newest(k, w, m)) /\ (Since(k, w, m)' <=> Since(k, w, m))
  <2>1. \A m \in Tried : (In(m, k, w)' <=> In(m, k, w)) /\ tries'[m].state = tries[m].state
    BY <1>7 DEF In
  <2>2. ASSUME NEW m, m = n PROVE In(m, k, w)' /\ tries'[m].state = "reserved"
    BY <1>5, <1>6, <1>7, <1>10, <2>2 DEF In
  <2>3. Standing(k, w)' = Standing(k, w) \cup {n}
    BY <1>8, <2>1, <2>2 DEF Standing, Tried
  <2>4. Successes(k, w)' = Successes(k, w)
    BY <1>8, <2>1, <2>2 DEF Successes, Tried
  <2>5. Standing(k, w) \subseteq Tried /\ Successes(k, w) \subseteq Tried
    BY <1>0, <1>k, Remembering
  <2>6. n \notin Standing(k, w) /\ \A p \in Successes(k, w) : tries'[p].done = tries[p].done
    BY <1>7, <1>n, <2>5
  <2>7. Bracketed(k, w, r(k).attempts) /\ r(k).attempts \in Nat
    BY <1>1, <1>10
  <2>8. k \in Keys /\ (k \in Subjects => n = Len(tries) + 1)
    BY <1>k DEF n
  <2>. QED
    BY <1>0, <2>3, <2>4, <2>6, <2>7, <2>8, OneMore
(* The invariant, part by part *)
<1>11. TTypeOK'
  <2>1. rows' \in [Keys -> Rows \cup {NoRow}]
    BY <1>0, <1>2, <1>3, <1>c
  <2>. QED
    BY <1>0, <1>7, <1>b, <2>1 DEF TTypeOK
<1>12. RowsOpened'
  <2>. SUFFICES ASSUME NEW k \in Keys, rows'[k] # NoRow
                PROVE  rows'[k].window \in Tried' /\ (k = Claiming => tries'[rows'[k].window].state = "failed")
    BY DEF RowsOpened
  <2>1. CASE k \in ks
    BY <1>2, <1>4, <1>8, <1>k, <2>1
  <2>2. CASE k \notin ks
    BY <1>3, <1>7, <1>8, <2>2 DEF ThrottleInv, RowsOpened
  <2>. QED
    BY <2>1, <2>2
<1>13. EntriesOpened'
  <2>. SUFFICES ASSUME NEW m \in Tried', NEW k \in Keys, tries'[m].entries[k] # NoRow
                PROVE  /\ tries'[m].entries[k].window \in Tried'
                       /\ k = Claiming => tries'[tries'[m].entries[k].window].state = "failed"
    BY DEF EntriesOpened
  <2>1. CASE m = n
    BY <1>4, <1>5, <1>6, <1>7, <1>8, <1>k, <2>1
  <2>2. CASE m \in Tried
    <3>1. tries'[m] = tries[m]
      BY <1>7, <2>2
    <3>2. /\ tries[m].entries[k].window \in Tried
          /\ k = Claiming => tries[tries[m].entries[k].window].state = "failed"
      BY <2>2, <3>1 DEF ThrottleInv, EntriesOpened
    <3>. QED
      BY <1>7, <1>8, <3>1, <3>2
  <2>. QED
    BY <1>8, <2>1, <2>2
<1>14. ClaimsEnterLate'
  <2>. SUFFICES ASSUME NEW m \in Tried', NEW k \in Keys, tries'[m].entries[k] # NoRow
                PROVE  (tries'[m].kind = "claim" <=> k = Claiming) /\ (k = Claiming => tries'[m].state = "failed")
    BY DEF ClaimsEnterLate
  <2>1. CASE m = n
    BY <1>5, <1>6, <1>7, <1>k, <2>1
  <2>2. CASE m \in Tried
    BY <1>7, <2>2 DEF ThrottleInv, ClaimsEnterLate
  <2>. QED
    BY <1>8, <2>1, <2>2
<1>15. Bounded'
  <2>. SUFFICES ASSUME NEW k \in Keys \ {Claiming}, rows'[k] # NoRow
                PROVE  rows'[k].attempts <= Len(tries') /\ rows'[k].attempts <= Limit(k)
    BY DEF Bounded
  <2>1. CASE k \in ks
    BY <1>0, <1>1, <1>2, <1>7, <1>d, <2>1 DEF n
  <2>2. CASE k \notin ks
    <3>1. rows'[k] = rows[k]
      BY <1>3, <2>2
    <3>2. rows[k].attempts \in 0 .. MaxTries /\ rows[k].attempts <= Len(tries) /\ rows[k].attempts <= Limit(k)
      BY <1>0, <3>1, Row DEF ThrottleInv, Bounded
    <3>. QED
      BY <1>0, <1>7, <3>1, <3>2 DEF n
  <2>. QED
    BY <2>1, <2>2
<1>18. ASSUME NEW k \in Keys, NEW w \in Nat, ~(k \in ks /\ w = r(k).window) PROVE RowStays(k, w)
  <2>1. CASE k \in ks
    <3>1. ~HasWindow(k, w)' /\ (HasWindow(k, w) => <<k, w>> \in over')
      BY <1>1, <1>2, <1>b, <1>18, <2>1 DEF HasWindow
    <3>. QED
      BY <3>1 DEF RowStays
  <2>2. CASE k \notin ks
    <3>1. rows'[k] = rows[k] /\ (HasWindow(k, w)' <=> HasWindow(k, w))
      BY <1>3, <2>2 DEF HasWindow
    <3>. QED
      BY <3>1 DEF RowStays
  <2>. QED
    BY <2>1, <2>2
<1>16. RowsCount'
  <2>. SUFFICES ASSUME NEW k \in Keys, NEW w \in Nat PROVE Counts(k, w)'
    BY DEF RowsCount
  <2>0. Counts(k, w)
    BY DEF ThrottleInv, RowsCount
  <2>1. CASE k \in ks /\ w = r(k).window
    <3>1. HasWindow(k, w)' /\ rows'[k].attempts = r(k).attempts + 1
      BY <1>2, <2>1 DEF HasWindow
    <3>. QED
      BY <1>10, <2>1, <3>1 DEF Counts
  <2>2. CASE ~(k \in ks /\ w = r(k).window)
    BY <1>9, <1>b, <1>18, <2>0, <2>2, CountsStill
  <2>. QED
    BY <2>1, <2>2
<1>17. EntriesCount'
  <2>. SUFFICES ASSUME NEW k \in Subjects, NEW w \in Nat, NEW m \in Tried' PROVE Entered(k, w, m)'
    BY DEF EntriesCount
  <2>0. k \in Keys
    BY <1>k
  <2>1. CASE m \in Tried /\ ~(k \in ks /\ w = r(k).window)
    <3>1. Entered(k, w, m) /\ SameMemory(k, w) /\ RowStays(k, w) /\ tries'[m] = tries[m]
      BY <1>7, <1>9, <1>18, <2>0, <2>1 DEF ThrottleInv, EntriesCount
    <3>. QED
      BY <2>1, <3>1, EnteredStill
  <2>2. CASE m \in Tried /\ k \in ks /\ w = r(k).window
    <3>. SUFFICES ASSUME In(m, k, w)', tries'[m].state = "reserved", HasWindow(k, w)'
                  PROVE  /\ Newest(k, w, m)' => rows'[k].attempts <= tries'[m].entries[k].after + Cardinality(Later(k, w, m)')
                         /\ Since(k, w, m)'  => rows'[k].attempts >= tries'[m].entries[k].after + Cardinality(Later(k, w, m)')
      BY DEF Entered
    <3>1. n \in Nat /\ m \in Nat /\ n > m /\ tries'[m] = tries[m] /\ In(m, k, w) /\ tries[m].state = "reserved"
      BY <1>0, <1>7, <2>2 DEF n, Tried, In
    <3>2. HasWindow(k, w) /\ rows'[k].attempts = rows[k].attempts + 1 /\ rows[k].attempts \in Nat
      <4>1. m \in Standing(k, w)
        BY <2>2, <3>1 DEF Standing, Tried
      <4>. QED
        BY <1>1, <1>2, <2>2, <4>1
    <3>3. Cardinality(Later(k, w, m)') = Cardinality(Later(k, w, m)) + 1 /\ Cardinality(Later(k, w, m)) \in Nat
      <4>1. Later(k, w, m)' = Later(k, w, m) \cup {n} /\ n \notin Later(k, w, m)
        BY <1>10, <2>2, <3>1 DEF Later
      <4>2. IsFiniteSet(Later(k, w, m)) /\ Cardinality(Later(k, w, m)) \in Nat
        BY <1>0, Parts, Selected
      <4>. QED
        BY <4>1, <4>2, FS_AddElement
    <3>4. /\ Newest(k, w, m) => rows[k].attempts <= tries[m].entries[k].after + Cardinality(Later(k, w, m))
          /\ Since(k, w, m)  => rows[k].attempts >= tries[m].entries[k].after + Cardinality(Later(k, w, m))
      BY <2>2, <3>1, <3>2 DEF ThrottleInv, EntriesCount, Entered
    <3>5. (Newest(k, w, m)' <=> Newest(k, w, m)) /\ (Since(k, w, m)' <=> Since(k, w, m))
      BY <1>10, <2>2
    <3>6. tries[m].entries[k].after \in Nat
      <4>1. tries[m].entries[k].after \in 1 .. MaxTries
        BY <1>0, <2>0, <2>2, <3>1, Entry DEF In
      <4>. QED
        BY <4>1
    <3>. DEFINE before == rows[k].attempts
                size   == Cardinality(Later(k, w, m))
                after  == tries[m].entries[k].after
    <3>7. before \in Nat /\ size \in Nat /\ after \in Nat
      BY <3>2, <3>3, <3>6
    <3>8. (before <= after + size => before + 1 <= after + (size + 1)) /\ (before >= after + size => before + 1 >= after + (size + 1))
      <4>. HIDE DEF before, size, after
      <4>. QED
        BY <3>7
    <3>. QED
      BY <3>1, <3>2, <3>3, <3>4, <3>5, <3>8
  <2>3. CASE m = n
    <3>. SUFFICES ASSUME In(m, k, w)'
                  PROVE  rows'[k].attempts = tries'[m].entries[k].after + Cardinality(Later(k, w, m)') /\ rows'[k].attempts \in Nat
      BY DEF Entered
    <3>1. k \in ks /\ w = r(k).window
      BY <1>5, <1>6, <1>7, <2>0, <2>3 DEF In
    <3>2. Later(k, w, m)' = {}
      <4>1. Standing(k, w)' \subseteq Tried \cup {n} /\ n \in Nat
        BY <1>0, <1>10, <2>0, <3>1, Remembering DEF n
      <4>2. \A x \in Tried : ~(x > n)
        BY <1>0 DEF n, Tried
      <4>. QED
        BY <2>3, <4>1, <4>2 DEF Later
    <3>3. rows'[k].attempts = r(k).attempts + 1 /\ r(k).attempts \in Nat
      BY <1>1, <1>2, <3>1
    <3>4. tries'[m].entries[k].after = r(k).attempts + 1
      BY <1>5, <1>6, <1>7, <2>3, <3>1
    <3>. QED
      BY <3>2, <3>3, <3>4, FS_EmptySet
  <2>. QED
    BY <1>8, <2>1, <2>2, <2>3
<1>. QED
  BY <1>11, <1>12, <1>13, <1>14, <1>15, <1>16, <1>17 DEF ThrottleInv

-----------------------------------------------------------------------------
(* Attempts that end.  A window whose attempts did not change, or of which one that stood *)
(* goes on standing, remembers what it did.                                               *)
LEMMA OthersReplaced ==
    ASSUME TTypeOK, NEW n \in Tried, NEW e \in Tries, tries' = [tries EXCEPT ![n] = e], NEW k \in Keys, NEW w,
           \/ (e.entries[k] = NoRow \/ e.entries[k].window # w) /\ ~In(n, k, w)
           \/ e.entries[k] = tries[n].entries[k] /\ e.state \in {"reserved", "failed"} /\ tries[n].state \in {"reserved", "failed"}
    PROVE  SameMemory(k, w)
<1>1. Len(tries') = Len(tries) /\ tries'[n] = e /\ \A m \in Tried \ {n} : tries'[m] = tries[m]
  BY Updated
<1>2. ASSUME NEW m \in Tried \ {n}
      PROVE  /\ In(m, k, w)' <=> In(m, k, w)
             /\ tries'[m].state = tries[m].state /\ tries'[m].done = tries[m].done
  BY <1>1, <1>2 DEF In
<1>3. /\ In(n, k, w)' /\ tries'[n].state \in {"reserved", "failed"}
         <=> In(n, k, w) /\ tries[n].state \in {"reserved", "failed"}
      /\ ~(In(n, k, w)' /\ tries'[n].state = "succeeded")
      /\ ~(In(n, k, w) /\ tries[n].state = "succeeded")
  BY <1>1 DEF In
<1>4. Standing(k, w)' = Standing(k, w)
  BY <1>1, <1>2, <1>3 DEF Standing, Tried
<1>5. Successes(k, w)' = Successes(k, w)
  BY <1>1, <1>2, <1>3 DEF Successes, Tried
<1>6. \A p \in Successes(k, w) : tries'[p].done = tries[p].done
  BY <1>2, <1>3 DEF Successes, Tried
<1>. QED
  BY <1>4, <1>5, <1>6 DEF SameMemory

(* No claim that is still under way has opened a window. *)
LEMMA Opener ==
    ASSUME ThrottleInv, NEW n \in Tried, tries[n].state = "reserved"
    PROVE  /\ rows[Claiming] # NoRow => rows[Claiming].window # n
           /\ \A m \in Tried : tries[m].entries[Claiming] # NoRow =>
                 /\ m # n /\ tries[m].entries[Claiming].window # n
<1>1. Claiming \in Keys
  BY DEF Keys
<1>. QED
  BY <1>1 DEF ThrottleInv, RowsOpened, EntriesOpened, ClaimsEnterLate

LEMMA Ending ==
    ASSUME ThrottleInv, NEW n \in Tried, NEW e \in Tries, tries' = [tries EXCEPT ![n] = e], UNCHANGED over,
           tries[n].state = "reserved", e.entries = tries[n].entries, e.kind = tries[n].kind,
           rows' \in [Keys -> Rows \cup {NoRow}],
           \A k \in Keys : rows'[k] = NoRow \/ (/\ rows[k] # NoRow /\ rows'[k].window = rows[k].window
                                                /\ rows'[k].attempts <= rows[k].attempts)
    PROVE  TTypeOK' /\ RowsOpened' /\ EntriesOpened' /\ ClaimsEnterLate' /\ Bounded'
<1>0. TTypeOK /\ Len(tries) \in Nat
  BY DEF ThrottleInv, TTypeOK
<1>1. /\ tries' \in Seq(Tries) /\ Len(tries') = Len(tries) /\ tries'[n] = e
      /\ \A m \in Tried \ {n} : tries'[m] = tries[m]
  BY <1>0, Updated
<1>2. Tried' = Tried
  BY <1>1 DEF Tried
<1>3. \A m \in Tried : tries'[m].entries = tries[m].entries /\ tries'[m].kind = tries[m].kind
  BY <1>1
<1>4. TTypeOK'
  BY <1>0, <1>1 DEF TTypeOK
<1>5. RowsOpened'
  <2>. SUFFICES ASSUME NEW k \in Keys, rows'[k] # NoRow
                PROVE  rows'[k].window \in Tried' /\ (k = Claiming => tries'[rows'[k].window].state = "failed")
    BY DEF RowsOpened
  <2>1. rows[k] # NoRow /\ rows'[k].window = rows[k].window
    OBVIOUS
  <2>2. rows[k].window \in Tried /\ (k = Claiming => tries[rows[k].window].state = "failed")
    BY <2>1 DEF ThrottleInv, RowsOpened
  <2>3. k = Claiming => rows[k].window # n
    BY <2>1, Opener
  <2>. QED
    BY <1>1, <1>2, <2>1, <2>2, <2>3
<1>6. EntriesOpened'
  <2>. SUFFICES ASSUME NEW m \in Tried, NEW k \in Keys, tries[m].entries[k] # NoRow
                PROVE  /\ tries[m].entries[k].window \in Tried
                       /\ k = Claiming => tries'[tries[m].entries[k].window].state = "failed"
    BY <1>2, <1>3 DEF EntriesOpened
  <2>1. /\ tries[m].entries[k].window \in Tried
        /\ k = Claiming => tries[tries[m].entries[k].window].state = "failed"
    BY DEF ThrottleInv, EntriesOpened
  <2>2. k = Claiming => tries[m].entries[k].window # n
    BY Opener
  <2>. QED
    BY <1>1, <2>1, <2>2
<1>7. ClaimsEnterLate'
  <2>. SUFFICES ASSUME NEW m \in Tried, NEW k \in Keys, tries[m].entries[k] # NoRow
                PROVE  (tries[m].kind = "claim" <=> k = Claiming) /\ (k = Claiming => tries'[m].state = "failed")
    BY <1>2, <1>3 DEF ClaimsEnterLate
  <2>1. (tries[m].kind = "claim" <=> k = Claiming) /\ (k = Claiming => tries[m].state = "failed")
    BY DEF ThrottleInv, ClaimsEnterLate
  <2>2. k = Claiming => m # n
    BY Opener
  <2>. QED
    BY <1>1, <2>1, <2>2
<1>8. Bounded'
  <2>. SUFFICES ASSUME NEW k \in Keys \ {Claiming}, rows'[k] # NoRow
                PROVE  rows'[k].attempts <= Len(tries') /\ rows'[k].attempts <= Limit(k)
    BY DEF Bounded
  <2>1. rows[k].attempts <= Len(tries) /\ rows[k].attempts <= Limit(k) /\ rows'[k].attempts <= rows[k].attempts
    BY DEF ThrottleInv, Bounded
  <2>2. rows[k].attempts \in 0 .. MaxTries /\ rows'[k] \in Rows
    BY <1>0, Row
  <2>3. Limit(k) \in Nat /\ rows'[k].attempts \in 0 .. MaxTries
    BY <2>2 DEF Limit, Rows
  <2>. QED
    BY <1>0, <1>1, <2>1, <2>2, <2>3
<1>. QED
  BY <1>4, <1>5, <1>6, <1>7, <1>8

(* Nothing is counted or discounted. *)
LEMMA QuietEnding ==
    ASSUME ThrottleInv, NEW n \in Tried, NEW e \in Tries, tries' = [tries EXCEPT ![n] = e], UNCHANGED <<rows, over>>,
           tries[n].state = "reserved", e.entries = tries[n].entries, e.kind = tries[n].kind,
           e.state # "reserved", e.state = "failed" \/ \A k \in Keys : tries[n].entries[k] = NoRow
    PROVE  ThrottleInv'
<1>0. TTypeOK /\ rows \in [Keys -> Rows \cup {NoRow}]
  BY DEF ThrottleInv, TTypeOK
<1>1. ASSUME NEW k \in Keys, NEW w
      PROVE  SameMemory(k, w)
  <2>1. \/ (e.entries[k] = NoRow \/ e.entries[k].window # w) /\ ~In(n, k, w)
        \/ e.entries[k] = tries[n].entries[k] /\ e.state \in {"reserved", "failed"} /\ tries[n].state \in {"reserved", "failed"}
    BY DEF In
  <2>2. /\ tries' = [tries EXCEPT ![n] = e] /\ TTypeOK
    BY <1>0
  <2>. QED
    BY <2>1, <2>2, OthersReplaced
<1>2. \A k \in Keys : rows'[k] = NoRow \/ (/\ rows[k] # NoRow /\ rows'[k].window = rows[k].window
                                           /\ rows'[k].attempts <= rows[k].attempts)
  <2>. SUFFICES ASSUME NEW k \in Keys, rows[k] # NoRow PROVE rows[k].attempts <= rows[k].attempts
    OBVIOUS
  <2>1. rows[k].attempts \in 0 .. MaxTries
    BY <1>0, Row
  <2>. QED
    BY <2>1
<1>3. TTypeOK' /\ RowsOpened' /\ EntriesOpened' /\ ClaimsEnterLate' /\ Bounded'
  BY <1>0, <1>2, Ending
<1>6. ASSUME NEW k \in Keys, NEW w PROVE RowStays(k, w)
  <2>1. (HasWindow(k, w)' <=> HasWindow(k, w)) /\ rows'[k] = rows[k]
    BY DEF HasWindow
  <2>. QED
    BY <2>1 DEF RowStays
<1>4. RowsCount'
  <2>. SUFFICES ASSUME NEW k \in Keys, NEW w \in Nat PROVE Counts(k, w)'
    BY DEF RowsCount
  <2>1. Counts(k, w)
    BY DEF ThrottleInv, RowsCount
  <2>. QED
    BY <1>1, <1>6, <2>1, CountsStill
<1>5. EntriesCount'
  <2>. SUFFICES ASSUME NEW k \in Subjects, NEW w \in Nat, NEW m \in Tried' PROVE Entered(k, w, m)'
    BY DEF EntriesCount
  <2>1. k \in Keys /\ m \in Tried /\ tries'[n] = e /\ \A p \in Tried \ {n} : tries'[p] = tries[p]
    BY <1>0, Updated DEF Keys, Tried
  <2>2. tries'[m].state = "reserved" => tries'[m] = tries[m]
    BY <2>1
  <2>3. Entered(k, w, m) /\ SameMemory(k, w) /\ RowStays(k, w)
    BY <1>1, <1>6, <2>1 DEF ThrottleInv, EntriesCount
  <2>. QED
    BY <2>1, <2>2, <2>3, EnteredStill
<1>. QED
  BY <1>3, <1>4, <1>5 DEF ThrottleInv

LEMMA FailStep == ASSUME ThrottleInv, NEW n \in Tried, Fail(n) PROVE ThrottleInv'
<1>. DEFINE e == [tries[n] EXCEPT !.state = "failed"]
<1>1. tries[n] \in Tries
  BY Try DEF ThrottleInv
<1>2. e \in Tries /\ e.state = "failed" /\ e.entries = tries[n].entries /\ e.kind = tries[n].kind
  BY <1>1 DEF Tries
<1>3. tries' = [tries EXCEPT ![n] = e] /\ UNCHANGED <<rows, over>> /\ tries[n].state = "reserved"
  BY DEF Fail
<1>. HIDE DEF e
<1>. QED
  BY <1>2, <1>3, QuietEnding

LEMMA Finished ==
    ASSUME TTypeOK, NEW n \in Tried
    PROVE  LET e == [tries[n] EXCEPT !.state = "succeeded", !.done = Len(tries)] IN
           /\ e \in Tries /\ e.state = "succeeded" /\ e.done = Len(tries)
           /\ e.entries = tries[n].entries /\ e.kind = tries[n].kind
<1>1. tries[n] \in Tries
  BY Try
<1>2. Len(tries) \in 0 .. MaxTries
  BY DEF TTypeOK
<1>. QED
  BY <1>1, <1>2 DEF Tries

LEMMA FoundStep == ASSUME ThrottleInv, NEW n \in Tried, FindInvitation(n) PROVE ThrottleInv'
<1>. DEFINE e == [tries[n] EXCEPT !.state = "succeeded", !.done = Len(tries)]
<1>1. e \in Tries /\ e.state = "succeeded" /\ e.entries = tries[n].entries /\ e.kind = tries[n].kind
  BY Finished DEF ThrottleInv
<1>2. /\ tries' = [tries EXCEPT ![n] = e] /\ UNCHANGED <<rows, over>>
      /\ tries[n].state = "reserved" /\ tries[n].kind = "claim"
  BY DEF FindInvitation
<1>. HIDE DEF e
<1>3. \A k \in Keys : tries[n].entries[k] = NoRow
  BY <1>2 DEF ThrottleInv, ClaimsEnterLate
<1>. QED
  BY <1>1, <1>2, <1>3, QuietEnding

-----------------------------------------------------------------------------
(* A claim that fails is counted in the window there is by then. *)
LEMMA RecordedStep == ASSUME ThrottleInv, NEW n \in Tried, RecordFailedAttempt(n) PROVE ThrottleInv'
<1>. DEFINE r == Current(Claiming, n)
            e == [tries[n] EXCEPT !.state = "failed",
                                  !.entries[Claiming] = [window |-> rows'[Claiming].window, after |-> rows'[Claiming].attempts]]
<1>0. TTypeOK /\ Len(tries) \in Nat /\ rows \in [Keys -> Rows \cup {NoRow}] /\ Len(tries) <= MaxTries
  BY DEF ThrottleInv, TTypeOK
<1>k. Claiming \in Keys /\ Claiming \notin Subjects /\ Subjects \subseteq Keys
  BY ThrottleAssumption DEF Keys
<1>a. /\ tries[n].kind = "claim" /\ tries[n].state = "reserved"
      /\ \A k \in Keys : tries[n].entries[k] = NoRow
  BY DEF RecordFailedAttempt, ThrottleInv, ClaimsEnterLate
<1>b. n \in 1 .. MaxTries
  BY <1>0 DEF Tried
<1>1. /\ r \in Rows /\ r.attempts \in Nat
      /\ r = New(n) \/ (HasWindow(Claiming, r.window) /\ r = rows[Claiming])
      /\ Bracketed(Claiming, r.window, r.attempts)
      /\ \A w \in Nat \ {r.window} : HasWindow(Claiming, w) => <<Claiming, w>> \in over
  BY <1>a, <1>b, <1>k, CurrentRow
<1>2. rows' = [rows EXCEPT ![Claiming] = Counted(r, Claiming)] /\ UNCHANGED over
  BY DEF RecordFailedAttempt
<1>3. tries' = [tries EXCEPT ![n] = e]
  <2>1. rows'[Claiming] = Counted(r, Claiming)
    BY <1>0, <1>2, <1>k
  <2>2. tries' = [tries EXCEPT ![n].state = "failed",
                    ![n].entries[Claiming] = [window |-> Counted(r, Claiming).window, after |-> Counted(r, Claiming).attempts]]
    BY DEF RecordFailedAttempt
  <2>. QED
    BY <1>0, <2>1, <2>2 DEF TTypeOK, Tried
<1>. HIDE DEF r, e
(* What stood against the window, and n *)
<1>4. /\ Standing(Claiming, r.window) \subseteq Tried \ {n} /\ IsFiniteSet(Standing(Claiming, r.window))
      /\ r.attempts = Cardinality(Standing(Claiming, r.window)) /\ r.attempts + 1 <= Len(tries)
  <2>1. /\ Remembered(Claiming, r.window) = Standing(Claiming, r.window)
        /\ Unforgiven(Claiming, r.window) = Standing(Claiming, r.window)
    BY <1>k, Parts
  <2>2. Standing(Claiming, r.window) \subseteq Tried \ {n} /\ IsFiniteSet(Standing(Claiming, r.window))
    <3>1. Standing(Claiming, r.window) \subseteq Tried /\ IsFiniteSet(Standing(Claiming, r.window))
      BY <1>0, Remembering
    <3>2. n \notin Standing(Claiming, r.window)
      BY <1>a, <1>k DEF Standing, In
    <3>. QED
      BY <3>1, <3>2
  <2>3. r.attempts = Cardinality(Standing(Claiming, r.window))
    <3>1. Cardinality(Standing(Claiming, r.window)) \in Nat
      BY <2>2, FS_CardinalityType
    <3>. QED
      BY <1>1, <2>1, <3>1 DEF Bracketed
  <2>4. Cardinality(Standing(Claiming, r.window) \cup {n}) = r.attempts + 1
    BY <2>2, <2>3, FS_AddElement
  <2>7. IsFiniteSet(Tried) /\ Cardinality(Tried) = Len(tries)
    BY <1>0, TriedIsFinite
  <2>5. IsFiniteSet(Tried) /\ Cardinality(Tried) = Len(tries) /\ Standing(Claiming, r.window) \cup {n} \subseteq Tried
    BY <2>2, <2>7
  <2>6. Cardinality(Standing(Claiming, r.window) \cup {n}) <= Cardinality(Tried)
    BY <2>5, FS_Subset
  <2>. QED
    BY <2>2, <2>3, <2>4, <2>5, <2>6
<1>5. /\ rows'[Claiming] \in Rows /\ rows'[Claiming] # NoRow
      /\ rows'[Claiming].attempts = r.attempts + 1 /\ rows'[Claiming].window = r.window
      /\ \A k \in Keys \ {Claiming} : rows'[k] = rows[k]
  <2>1. rows'[Claiming] = Counted(r, Claiming) /\ \A k \in Keys \ {Claiming} : rows'[k] = rows[k]
    BY <1>0, <1>2, <1>k
  <2>2. r.attempts + 1 <= MaxTries
    BY <1>0, <1>1, <1>4
  <2>3. rows'[Claiming] \in Rows /\ rows'[Claiming].attempts = r.attempts + 1 /\ rows'[Claiming].window = r.window
    BY <1>1, <1>k, <2>1, <2>2, CountedRow
  <2>. QED
    BY <2>1, <2>3, NoRowAssumption
<1>6. /\ r.window \in 1 .. MaxTries /\ r.window \in Tried /\ (r.window = n \/ tries[r.window].state = "failed")
      /\ r.attempts + 1 \in 1 .. MaxTries
  <2>1. r.window \in 1 .. MaxTries
    BY <1>1 DEF Rows
  <2>2. New(n).window = n
    BY <1>b, NewWindow
  <2>3. rows[Claiming] # NoRow => rows[Claiming].window \in Tried /\ tries[rows[Claiming].window].state = "failed"
    BY <1>k DEF ThrottleInv, RowsOpened
  <2>4. r.attempts + 1 \in 1 .. MaxTries
    BY <1>0, <1>1, <1>4
  <2>. QED
    BY <1>1, <2>1, <2>2, <2>3, <2>4 DEF HasWindow
<1>7. /\ e \in Tries /\ e.state = "failed" /\ e.kind = "claim"
      /\ e.entries[Claiming] # NoRow /\ e.entries[Claiming].window = r.window
      /\ \A k \in Keys \ {Claiming} : e.entries[k] = NoRow
  <2>. DEFINE entry == [window |-> rows'[Claiming].window, after |-> rows'[Claiming].attempts]
  <2>1. entry \in Entries /\ entry.window = r.window
    BY <1>5, <1>6 DEF Entries
  <2>2. tries[n] \in Tries
    BY <1>0, Try
  <2>3. e = [tries[n] EXCEPT !.state = "failed", !.entries[Claiming] = entry]
    BY DEF e
  <2>. HIDE DEF entry
  <2>4. tries[n].entries \in [Keys -> Entries \cup {NoRow}]
    BY <2>2 DEF Tries
  <2>5. /\ e.state = "failed" /\ e.kind = "claim" /\ e.entries = [tries[n].entries EXCEPT ![Claiming] = entry]
        /\ e \in Tries
    BY <1>a, <1>k, <2>1, <2>2, <2>3, <2>4 DEF Tries
  <2>6. entry # NoRow
    BY <2>1, NoRowAssumption
  <2>. QED
    BY <1>a, <1>k, <2>1, <2>4, <2>5, <2>6
<1>8. /\ tries' \in Seq(Tries) /\ Len(tries') = Len(tries) /\ tries'[n] = e
      /\ \A m \in Tried \ {n} : tries'[m] = tries[m]
  BY <1>0, <1>3, <1>7, Updated
<1>9. Tried' = Tried
  BY <1>8 DEF Tried
(* The memory of the windows *)
<1>10. ASSUME NEW k \in Keys, NEW w, ~(k = Claiming /\ w = r.window) PROVE SameMemory(k, w)
  <2>1. (e.entries[k] = NoRow \/ e.entries[k].window # w) /\ ~In(n, k, w)
    BY <1>7, <1>10, <1>a DEF In
  <2>. QED
    BY <1>0, <1>3, <1>7, <2>1, OthersReplaced
<1>11. ASSUME NEW w, w = r.window 
       PROVE  /\ Cardinality(Remembered(Claiming, w)') = r.attempts + 1
              /\ Cardinality(Unforgiven(Claiming, w)') = r.attempts + 1
  <2>1. \A m \in Tried \ {n} : (In(m, Claiming, w)' <=> In(m, Claiming, w)) /\ tries'[m].state = tries[m].state
    BY <1>8 DEF In
  <2>2. In(n, Claiming, w)' /\ tries'[n].state = "failed"
    BY <1>7, <1>8, <1>11 DEF In
  <2>3. ~In(n, Claiming, w)
    BY <1>a, <1>k DEF In
  <2>4. Standing(Claiming, w)' = Standing(Claiming, w) \cup {n}
    BY <1>9, <2>1, <2>2, <2>3, <1>8 DEF Standing, Tried
  <2>5. Remembered(Claiming, w)' = Standing(Claiming, w) \cup {n} /\ Unforgiven(Claiming, w)' = Standing(Claiming, w) \cup {n}
    BY <1>k, <2>4 DEF Remembered, Unforgiven
  <2>. QED
    <3>1. Standing(Claiming, w) = Standing(Claiming, r.window)
      BY <1>11
    <3>2. /\ IsFiniteSet(Standing(Claiming, w)) /\ n \notin Standing(Claiming, w)
          /\ r.attempts = Cardinality(Standing(Claiming, w))
      BY <1>4, <3>1
    <3>3. Cardinality(Standing(Claiming, w) \cup {n}) = Cardinality(Standing(Claiming, w)) + 1
      BY <3>2, FS_AddElement
    <3>. QED
      BY <2>5, <3>2, <3>3
<1>12. TTypeOK'
  <2>1. rows' \in [Keys -> Rows \cup {NoRow}]
    BY <1>0, <1>2, <1>5, <1>k
  <2>. QED
    BY <1>0, <1>8, <1>2, <2>1 DEF TTypeOK
<1>13. RowsOpened'
  <2>. SUFFICES ASSUME NEW k \in Keys, rows'[k] # NoRow
                PROVE  rows'[k].window \in Tried /\ (k = Claiming => tries'[rows'[k].window].state = "failed")
    BY <1>9 DEF RowsOpened
  <2>1. CASE k = Claiming
    BY <1>5, <1>6, <1>7, <1>8, <2>1
  <2>2. CASE k # Claiming
    BY <1>5, <2>2 DEF ThrottleInv, RowsOpened
  <2>. QED
    BY <2>1, <2>2
<1>14. EntriesOpened'
  <2>. SUFFICES ASSUME NEW m \in Tried, NEW k \in Keys, tries'[m].entries[k] # NoRow
                PROVE  /\ tries'[m].entries[k].window \in Tried
                       /\ k = Claiming => tries'[tries'[m].entries[k].window].state = "failed"
    BY <1>9 DEF EntriesOpened
  <2>1. CASE m = n
    BY <1>6, <1>7, <1>8, <2>1
  <2>2. CASE m # n
    <3>1. tries'[m] = tries[m]
      BY <1>8, <2>2
    <3>2. /\ tries[m].entries[k].window \in Tried
          /\ k = Claiming => tries[tries[m].entries[k].window].state = "failed"
      BY <3>1 DEF ThrottleInv, EntriesOpened
    <3>. QED
      BY <1>7, <1>8, <3>1, <3>2
  <2>. QED
    BY <2>1, <2>2
<1>15. ClaimsEnterLate'
  <2>. SUFFICES ASSUME NEW m \in Tried, NEW k \in Keys, tries'[m].entries[k] # NoRow
                PROVE  (tries'[m].kind = "claim" <=> k = Claiming) /\ (k = Claiming => tries'[m].state = "failed")
    BY <1>9 DEF ClaimsEnterLate
  <2>1. CASE m = n
    BY <1>7, <1>8, <2>1
  <2>2. CASE m # n
    BY <1>8, <2>2 DEF ThrottleInv, ClaimsEnterLate
  <2>. QED
    BY <2>1, <2>2
<1>16. Bounded'
  BY <1>5, <1>8 DEF ThrottleInv, Bounded
<1>19. ASSUME NEW k \in Keys, NEW w \in Nat, ~(k = Claiming /\ w = r.window) PROVE RowStays(k, w)
  <2>1. CASE k = Claiming
    <3>1. ~HasWindow(k, w)' /\ (HasWindow(k, w) => <<k, w>> \in over')
      BY <1>1, <1>2, <1>5, <1>19, <2>1 DEF HasWindow
    <3>. QED
      BY <3>1 DEF RowStays
  <2>2. CASE k # Claiming
    <3>1. rows'[k] = rows[k] /\ (HasWindow(k, w)' <=> HasWindow(k, w))
      BY <1>5, <2>2 DEF HasWindow
    <3>. QED
      BY <3>1 DEF RowStays
  <2>. QED
    BY <2>1, <2>2
<1>17. RowsCount'
  <2>. SUFFICES ASSUME NEW k \in Keys, NEW w \in Nat PROVE Counts(k, w)'
    BY DEF RowsCount
  <2>0. Counts(k, w)
    BY DEF ThrottleInv, RowsCount
  <2>1. CASE k = Claiming /\ w = r.window
    <3>1. HasWindow(k, w)' /\ rows'[k].attempts = r.attempts + 1 /\ r.attempts + 1 <= r.attempts + 1
      BY <1>1, <1>5, <2>1 DEF HasWindow
    <3>. QED
      BY <1>11, <2>1, <3>1 DEF Counts
  <2>2. CASE ~(k = Claiming /\ w = r.window)
    BY <1>2, <1>10, <1>19, <2>0, <2>2, CountsStill
  <2>. QED
    BY <2>1, <2>2
<1>18. EntriesCount'
  <2>. SUFFICES ASSUME NEW k \in Subjects, NEW w \in Nat, NEW m \in Tried PROVE Entered(k, w, m)'
    BY <1>9 DEF EntriesCount
  <2>1. k \in Keys /\ k # Claiming /\ Entered(k, w, m)
    BY <1>k DEF ThrottleInv, EntriesCount
  <2>2. tries'[m].state = "reserved" => tries'[m] = tries[m]
    BY <1>7, <1>8
  <2>3. SameMemory(k, w) /\ RowStays(k, w)
    BY <1>10, <1>19, <2>1
  <2>. QED
    BY <2>1, <2>2, <2>3, EnteredStill
<1>. QED
  BY <1>12, <1>13, <1>14, <1>15, <1>16, <1>17, <1>18 DEF ThrottleInv

-----------------------------------------------------------------------------
(* A success takes itself out of its address's window, and itself and what was reserved  *)
(* before it out of its subject's.                                                       *)
LEMMA Settling ==
    ASSUME TTypeOK, NEW n \in Tried, NEW e \in Tries, tries' = [tries EXCEPT ![n] = e],
           tries[n].state = "reserved", e.state = "succeeded", e.entries = tries[n].entries, e.done = Len(tries),
           NEW k \in Keys, NEW w, In(n, k, w)
    PROVE  /\ Standing(k, w)' = Standing(k, w) \ {n} /\ n \in Standing(k, w)
           /\ Successes(k, w)' = Successes(k, w) \cup {n} /\ n \notin Successes(k, w)
           /\ \A m \in Tried : ~Since(k, w, m)'
           /\ Unforgiven(k, w)' \subseteq Unforgiven(k, w)
           /\ k \in Subjects /\ ~Since(k, w, n) => Unforgiven(k, w)' = {}
<1>0. Len(tries) \in Nat /\ Tried \subseteq Nat /\ \A m \in Tried : m <= Len(tries)
  BY DEF TTypeOK, Tried
<1>1. Len(tries') = Len(tries) /\ tries'[n] = e /\ \A m \in Tried \ {n} : tries'[m] = tries[m]
  BY Updated
<1>2. \A m \in Tried : In(m, k, w)' <=> In(m, k, w)
  BY <1>1 DEF In
<1>3. Standing(k, w)' = Standing(k, w) \ {n} /\ n \in Standing(k, w)
  BY <1>1, <1>2 DEF Standing, Tried
<1>4. /\ Successes(k, w)' = Successes(k, w) \cup {n} /\ n \notin Successes(k, w)
      /\ Successes(k, w) \subseteq Tried /\ Standing(k, w) \subseteq Tried
  BY <1>1, <1>2 DEF Successes, Standing, Tried
<1>5. (\A p \in Successes(k, w) : tries'[p].done = tries[p].done) /\ tries'[n].done = Len(tries)
  BY <1>1, <1>4
<1>6. ASSUME NEW m \in Tried PROVE ~Since(k, w, m)'
  <2>1. n \in Successes(k, w)' /\ tries'[n].done = Len(tries)
    BY <1>4, <1>5
  <2>2. ~(Len(tries) < m)
    BY <1>0 DEF Tried
  <2>. QED
    BY <2>1, <2>2 DEF Since
<1>7. \A x : Forgiven(x, k, w) => Forgiven(x, k, w)'
  <2>1. ASSUME NEW m \in Successes(k, w), Overlaps(m, k, w) PROVE Overlaps(m, k, w)'
    BY <1>4, <1>5, <2>1 DEF Overlaps
  <2>. QED
    BY <1>4, <1>5, <2>1 DEF Forgiven
<1>8. Unforgiven(k, w)' \subseteq Unforgiven(k, w)
  BY <1>3, <1>7 DEF Unforgiven
(* Whoever did not end before n reserved overlaps it. *)
<1>9. ASSUME ~Since(k, w, n) PROVE Overlaps(n, k, w)'
  <2>1. PICK p \in Successes(k, w) : ~(p < n /\ tries[p].done < n)
    BY <1>9 DEF Since
  <2>2. p \in Tried /\ p # n /\ p \in Nat /\ n \in Nat /\ p <= Len(tries)
    BY <1>0, <1>4
  <2>3. tries[p].done \in Nat
    <3>1. tries[p].done \in 0 .. MaxTries
      BY <2>2, Try
    <3>. QED
      BY <3>1
  <2>4. p \in Successes(k, w)' /\ tries'[p].done = tries[p].done /\ tries'[n].done = Len(tries)
    BY <1>4, <1>5
  <2>5. CASE p < n
    BY <2>1, <2>2, <2>3, <2>4, <2>5 DEF Overlaps
  <2>6. CASE n < p
    BY <1>0, <2>2, <2>4, <2>6 DEF Overlaps
  <2>. QED
    BY <2>2, <2>5, <2>6
<1>10. ASSUME k \in Subjects, ~Since(k, w, n) PROVE Unforgiven(k, w)' = {}
  <2>1. n \in Successes(k, w)' /\ Overlaps(n, k, w)' /\ tries'[n].done = Len(tries)
    BY <1>4, <1>5, <1>9, <1>10
  <2>2. \A x \in Standing(k, w)' : x <= Len(tries)
    BY <1>0, <1>3, <1>4
  <2>3. \A x \in Standing(k, w)' : Forgiven(x, k, w)'
    BY <2>1, <2>2 DEF Forgiven
  <2>. QED
    BY <1>10, <2>3 DEF Unforgiven
<1>. QED
  BY <1>3, <1>4, <1>6, <1>8, <1>10

(* What the counter of a window becomes is bracketed by what the window remembers then.  A *)
(* success that no other overlaps discounts exactly what was reserved before it; one that  *)
(* others overlap may discount more, of what it and they forgive together.                 *)
LEMMA Discount ==
    ASSUME ThrottleInv, NEW n \in Tried, NEW e \in Tries, tries' = [tries EXCEPT ![n] = e],
           tries[n].state = "reserved", e.state = "succeeded", e.entries = tries[n].entries, e.done = Len(tries),
           NEW k \in Keys \ {Claiming}, NEW w \in Nat, In(n, k, w), HasWindow(k, w)
    PROVE  LET left == Less(rows[k].attempts, IF k \in Subjects THEN tries[n].entries[k].after ELSE 1) IN
           Cardinality(Unforgiven(k, w)') <= left /\ left <= Cardinality(Remembered(k, w)')
<1>0. TTypeOK /\ Tried \subseteq Nat /\ n \in Nat
  BY DEF ThrottleInv, Tried
<1>1. /\ Standing(k, w)' = Standing(k, w) \ {n} /\ n \in Standing(k, w)
      /\ Successes(k, w)' = Successes(k, w) \cup {n} /\ n \notin Successes(k, w)
      /\ k \in Subjects /\ ~Since(k, w, n) => Unforgiven(k, w)' = {}
  BY <1>0, Settling
<1>2. Standing(k, w) \subseteq Nat /\ Successes(k, w) \subseteq Nat /\ IsFiniteSet(Standing(k, w))
  BY <1>0, Remembering
<1>3. rows[k].attempts \in Nat /\ Counts(k, w)
  <2>1. rows[k].attempts \in 0 .. MaxTries
    BY <1>0, Row DEF HasWindow
  <2>. QED
    BY <2>1 DEF ThrottleInv, RowsCount
<1>. DEFINE was == rows[k].attempts
<1>4. CASE k \notin Subjects
  <2>1. was = Cardinality(Standing(k, w))
    <3>1. Cardinality(Standing(k, w)) \in Nat
      BY <1>2, FS_CardinalityType
    <3>2. Unforgiven(k, w) = Standing(k, w) /\ Remembered(k, w) = Standing(k, w)
      BY <1>4, Parts
    <3>. QED
      BY <1>3, <3>1, <3>2 DEF Counts
  <2>2. Unforgiven(k, w)' = Standing(k, w) \ {n} /\ Remembered(k, w)' = Standing(k, w) \ {n}
    BY <1>1, <1>4 DEF Unforgiven, Remembered
  <2>3. Cardinality(Standing(k, w) \ {n}) = was - 1 /\ Cardinality(Standing(k, w) \ {n}) \in Nat
    <3>1. IsFiniteSet(Standing(k, w) \ {n}) /\ Cardinality(Standing(k, w) \ {n}) = Cardinality(Standing(k, w)) - 1
      BY <1>1, <1>2, FS_RemoveElement
    <3>. QED
      BY <2>1, <3>1, FS_CardinalityType
  <2>4. Less(was, 1) = was - 1 /\ was - 1 <= was - 1
    <3>. HIDE DEF was
    <3>1. was \in Nat /\ was - 1 \in Nat
      BY <1>3, <2>3 DEF was
    <3>. QED
      BY <3>1 DEF Less
  <2>. QED
    BY <1>4, <2>2, <2>3, <2>4
<1>5. CASE k \in Subjects
  <2>. DEFINE late  == Later(k, w, n)
              after == tries[n].entries[k].after
              left  == Less(was, after)
  <2>1. /\ Newest(k, w, n) => was <= after + Cardinality(late)
        /\ Since(k, w, n)  => was >= after + Cardinality(late)
    BY <1>5 DEF ThrottleInv, EntriesCount, Entered
  <2>2. IsFiniteSet(late) /\ Cardinality(late) \in Nat
    BY <1>0, Parts, Selected
  <2>3. after \in Nat
    <3>1. after \in 1 .. MaxTries
      BY <1>0, Entry DEF In
    <3>. QED
      BY <3>1
  <2>4. /\ left \in Nat /\ left <= was
        /\ \A c \in Nat : (was <= after + c => left <= c) /\ (was >= after + c => left >= c)
    <3>. HIDE DEF was, after
    <3>1. was \in Nat
      BY <1>3 DEF was
    <3>. QED
      BY <2>3, <3>1 DEF Less
  <2>5. Newest(k, w, n) => Remembered(k, w)' = late
    BY <1>0, <1>1, <1>2, <1>5 DEF Newest, Remembered, Later
  <2>6. ~Newest(k, w, n) => Remembered(k, w)' = Remembered(k, w)
    <3>1. SUFFICES ASSUME ~Newest(k, w, n) PROVE Remembered(k, w)' = Remembered(k, w)
      OBVIOUS
    <3>2. PICK p \in Successes(k, w) : ~(p < n)
      BY <3>1 DEF Newest
    <3>3. p \in Nat /\ n < p
      BY <1>0, <1>1, <1>2, <3>2
    <3>4. \A x \in Nat : x > p => x > n
      BY <1>0, <3>3
    <3>. QED
      BY <1>0, <1>1, <1>2, <1>5, <3>3, <3>4 DEF Remembered
  <2>7. left <= Cardinality(Remembered(k, w)')
    <3>1. CASE Newest(k, w, n)
      BY <2>1, <2>2, <2>4, <2>5, <3>1
    <3>2. CASE ~Newest(k, w, n)
      <4>1. was <= Cardinality(Remembered(k, w)) /\ Cardinality(Remembered(k, w)) \in Nat
        BY <1>0, <1>3, Parts, Selected DEF Counts
      <4>. HIDE DEF left
      <4>. QED
        BY <1>3, <2>4, <2>6, <3>2, <4>1
    <3>. QED
      BY <3>1, <3>2
  <2>8. Cardinality(Unforgiven(k, w)') <= left
    <3>1. CASE Since(k, w, n)
      <4>1. Unforgiven(k, w)' \subseteq late
        BY <1>0, <1>1, <1>2, <1>5 DEF Unforgiven, Forgiven, Later
      <4>2. Cardinality(Unforgiven(k, w)') <= Cardinality(late) /\ Cardinality(Unforgiven(k, w)') \in Nat
        BY <2>2, <4>1, FS_Subset, FS_CardinalityType
      <4>3. left >= Cardinality(late)
        BY <2>1, <2>2, <2>4, <3>1
      <4>. HIDE DEF left, late
      <4>. QED
        BY <2>2, <2>4, <4>2, <4>3
    <3>2. CASE ~Since(k, w, n)
      <4>1. Cardinality(Unforgiven(k, w)') = 0
        BY <1>1, <1>5, <3>2, FS_EmptySet
      <4>. HIDE DEF left
      <4>. QED
        BY <2>4, <4>1
    <3>. QED
      BY <3>1, <3>2
  <2>. QED
    BY <1>5, <2>7, <2>8
<1>. QED
  BY <1>4, <1>5

(* What a success makes of a row it has reserved in *)
LEMMA SettledRow ==
    ASSUME NEW k \in Keys, rows[k] \in Rows, NEW entry \in Entries
    PROVE  LET after == IF k \in Subjects THEN entry.after ELSE 1
               left  == Less(rows[k].attempts, after)
               new   == Settled(k, entry) IN
           /\ left \in Nat /\ left <= rows[k].attempts
           /\ rows[k].window # entry.window => new = rows[k]
           /\ rows[k].window = entry.window /\ left = 0 => new = NoRow
           /\ rows[k].window = entry.window /\ left # 0 =>
                 new \in Rows /\ new # NoRow /\ new.attempts = left /\ new.window = rows[k].window
<1>. DEFINE after == IF k \in Subjects THEN entry.after ELSE 1
            left  == Less(rows[k].attempts, after)
            new   == Settled(k, entry)
            block == IF left < Limit(k) THEN "none" ELSE rows[k].block
<1>1. rows[k].attempts \in 0 .. MaxTries /\ rows[k].window \in 1 .. MaxTries /\ rows[k].block \in {"none", "live", "over"}
  BY DEF Rows
<1>2. after \in Nat
  <2>1. entry.after \in 1 .. MaxTries
    BY DEF Entries
  <2>. QED
    BY <2>1
<1>3. left \in 0 .. MaxTries /\ left \in Nat /\ left <= rows[k].attempts
  <2>. HIDE DEF after
  <2>1. rows[k].attempts \in Nat /\ MaxTries \in Nat /\ rows[k].attempts <= MaxTries
    BY <1>1, ThrottleAssumption
  <2>. QED
    BY <1>2, <2>1 DEF Less
<1>4. left = IF k \in Subjects THEN Less(rows[k].attempts, entry.after) ELSE Less(rows[k].attempts, 1)
  OBVIOUS
<1>5. new = IF rows[k].window # entry.window THEN rows[k]
            ELSE IF left = 0 THEN NoRow
            ELSE [rows[k] EXCEPT !.attempts = left, !.block = block]
  BY <1>4 DEF Settled
<1>6. block \in {"none", "live", "over"}
  BY <1>1
<1>. HIDE DEF left, block, new, after
<1>7. LET saved == [rows[k] EXCEPT !.attempts = left, !.block = block] IN
      saved \in Rows /\ saved.attempts = left /\ saved.window = rows[k].window
  BY <1>3, <1>6 DEF Rows
<1>8. /\ rows[k].window # entry.window => new = rows[k]
      /\ rows[k].window = entry.window /\ left = 0 => new = NoRow
      /\ rows[k].window = entry.window /\ left # 0 =>
            new \in Rows /\ new # NoRow /\ new.attempts = left /\ new.window = rows[k].window
  BY <1>5, <1>7, NoRowAssumption
<1>. QED
  BY <1>3, <1>8 DEF left, new, after

LEMMA SucceededStep == ASSUME ThrottleInv, NEW n \in Tried, Succeed(n) PROVE ThrottleInv'
<1>. DEFINE e == [tries[n] EXCEPT !.state = "succeeded", !.done = Len(tries)]
            entry(k) == tries[n].entries[k]
            left(k) == Less(rows[k].attempts, IF k \in Subjects THEN entry(k).after ELSE 1)
<1>0. TTypeOK /\ rows \in [Keys -> Rows \cup {NoRow}] /\ Tried \subseteq 1 .. MaxTries
  BY DEF ThrottleInv, TTypeOK, Tried
<1>1. /\ e \in Tries /\ e.state = "succeeded" /\ e.done = Len(tries)
      /\ e.entries = tries[n].entries /\ e.kind = tries[n].kind
  BY <1>0, Finished
<1>2. /\ tries' = [tries EXCEPT ![n] = e] /\ UNCHANGED over
      /\ tries[n].state = "reserved" /\ tries[n].kind = "sign in"
  BY DEF Succeed
<1>. HIDE DEF e
<1>3. rows' = [k \in Keys |-> IF entry(k) = NoRow \/ rows[k] = NoRow THEN rows[k] ELSE Settled(k, entry(k))]
  BY DEF Succeed
<1>4. ASSUME NEW k \in Keys, entry(k) # NoRow, rows[k] # NoRow
      PROVE  /\ rows[k] \in Rows /\ entry(k) \in Entries /\ left(k) \in Nat /\ left(k) <= rows[k].attempts
             /\ rows[k].window # entry(k).window => rows'[k] = rows[k]
             /\ rows[k].window = entry(k).window /\ left(k) = 0 => rows'[k] = NoRow
             /\ rows[k].window = entry(k).window /\ left(k) # 0 =>
                   /\ rows'[k] \in Rows /\ rows'[k] # NoRow
                   /\ rows'[k].attempts = left(k) /\ rows'[k].window = rows[k].window
  <2>1. rows[k] \in Rows /\ entry(k) \in Entries
    BY <1>0, <1>4, Try
  <2>2. rows'[k] = Settled(k, entry(k))
    BY <1>3, <1>4
  <2>. QED
    BY <2>1, <2>2, SettledRow
<1>5. ASSUME NEW k \in Keys, entry(k) = NoRow \/ rows[k] = NoRow PROVE rows'[k] = rows[k]
  BY <1>3, <1>5
<1>. HIDE DEF left
<1>6. ASSUME NEW k \in Keys
      PROVE  /\ rows'[k] \in Rows \cup {NoRow}
             /\ rows'[k] = NoRow \/ (/\ rows[k] # NoRow /\ rows'[k].window = rows[k].window
                                     /\ rows'[k].attempts <= rows[k].attempts)
  <2>1. rows[k] # NoRow => rows[k].attempts <= rows[k].attempts
    <3>1. rows[k] # NoRow => rows[k].attempts \in 0 .. MaxTries
      BY <1>0, Row
    <3>. QED
      BY <3>1
  <2>2. CASE entry(k) = NoRow \/ rows[k] = NoRow
    BY <1>0, <1>5, <2>1, <2>2
  <2>3. CASE entry(k) # NoRow /\ rows[k] # NoRow
    BY <1>0, <1>4, <2>1, <2>3
  <2>. QED
    BY <2>2, <2>3
<1>7. TTypeOK' /\ RowsOpened' /\ EntriesOpened' /\ ClaimsEnterLate' /\ Bounded'
  <2>1. rows' \in [Keys -> Rows \cup {NoRow}]
    BY <1>3, <1>6
  <2>. QED
    BY <1>1, <1>2, <1>6, <2>1, Ending
<1>8. ASSUME NEW k \in Keys, NEW w, ~In(n, k, w) PROVE SameMemory(k, w)
  <2>1. (e.entries[k] = NoRow \/ e.entries[k].window # w) /\ ~In(n, k, w)
    BY <1>1, <1>8 DEF In
  <2>. QED
    BY <1>0, <1>1, <1>2, <2>1, OthersReplaced
<1>12. ASSUME NEW k \in Keys, NEW w, ~In(n, k, w) PROVE RowStays(k, w)
  <2>1. /\ HasWindow(k, w)' => HasWindow(k, w) /\ rows'[k] = rows[k]
        /\ HasWindow(k, w) => HasWindow(k, w)'
    <3>1. CASE entry(k) = NoRow \/ rows[k] = NoRow
      BY <1>5, <3>1 DEF HasWindow
    <3>2. CASE entry(k) # NoRow /\ rows[k] # NoRow
      BY <1>4, <1>12, <3>2 DEF HasWindow, In
    <3>. QED
      BY <3>1, <3>2
  <2>. QED
    BY <2>1 DEF RowStays
<1>9. ASSUME NEW k \in Keys, NEW w \in Nat PROVE Counts(k, w)'
  <2>1. Counts(k, w)
    BY DEF ThrottleInv, RowsCount
  <2>2. CASE ~In(n, k, w)
    BY <1>2, <1>8, <1>12, <2>1, <2>2, CountsStill
  <2>3. CASE In(n, k, w)
    <3>1. entry(k) # NoRow /\ entry(k).window = w
      BY <2>3 DEF In
    <3>2. k # Claiming
      BY <1>2, <3>1 DEF ThrottleInv, ClaimsEnterLate
    <3>3. Unforgiven(k, w)' \subseteq Unforgiven(k, w) /\ IsFiniteSet(Unforgiven(k, w))
      BY <1>0, <1>1, <1>2, <2>3, Settling, Parts, Selected
    <3>4. CASE HasWindow(k, w)
      <4>1. Cardinality(Unforgiven(k, w)') <= left(k) /\ left(k) <= Cardinality(Remembered(k, w)')
        BY <1>1, <1>2, <2>3, <3>2, <3>4, Discount DEF left
      <4>2. rows[k] # NoRow /\ rows[k].window = w
        BY <3>4 DEF HasWindow
      <4>3. CASE left(k) = 0
        <5>1. rows'[k] = NoRow
          BY <1>4, <3>1, <4>2, <4>3
        <5>2. IsFiniteSet(Unforgiven(k, w)') /\ Cardinality(Unforgiven(k, w)') \in Nat
          BY <3>3, FS_Subset, FS_CardinalityType
        <5>3. Unforgiven(k, w)' = {}
          BY <4>1, <4>3, <5>2, FS_EmptySet
        <5>. QED
          BY <5>1, <5>3 DEF Counts, HasWindow
      <4>4. CASE left(k) # 0
        <5>1. HasWindow(k, w)' /\ rows'[k].attempts = left(k)
          BY <1>4, <3>1, <4>2, <4>4 DEF HasWindow
        <5>. QED
          BY <4>1, <5>1 DEF Counts
      <4>. QED
        BY <4>3, <4>4
    <3>5. CASE ~HasWindow(k, w)
      <4>1. ~HasWindow(k, w)'
        BY <1>6, <3>5 DEF HasWindow
      <4>2. <<k, w>> \in over' \/ Unforgiven(k, w) = {}
        BY <1>2, <2>1, <3>5 DEF Counts
      <4>. QED
        BY <3>3, <4>1, <4>2 DEF Counts
    <3>. QED
      BY <3>4, <3>5
  <2>. QED
    BY <2>2, <2>3
<1>10. ASSUME NEW k \in Subjects, NEW w \in Nat, NEW m \in Tried PROVE Entered(k, w, m)'
  <2>1. k \in Keys /\ Entered(k, w, m)
    BY DEF Keys, ThrottleInv, EntriesCount
  <2>2. tries'[n] = e /\ \A p \in Tried \ {n} : tries'[p] = tries[p]
    BY <1>0, <1>1, <1>2, Updated
  <2>3. tries'[m].state = "reserved" => tries'[m] = tries[m] /\ m # n
    BY <1>1, <2>2
  <2>4. CASE ~In(n, k, w)
    BY <1>8, <1>12, <2>1, <2>3, <2>4, EnteredStill
  <2>5. CASE In(n, k, w)
    <3>0. ~Since(k, w, m)'
      BY <1>0, <1>1, <1>2, <2>1, <2>5, Settling
    <3>3. Standing(k, w)' = Standing(k, w) \ {n} /\ Successes(k, w)' = Successes(k, w) \cup {n}
      BY <1>0, <1>1, <1>2, <2>1, <2>5, Settling
    <3>. SUFFICES ASSUME In(m, k, w)', tries'[m].state = "reserved", HasWindow(k, w)', Newest(k, w, m)'
                  PROVE  rows'[k].attempts <= tries'[m].entries[k].after + Cardinality(Later(k, w, m)')
      BY <3>0 DEF Entered
    <3>1. tries'[m] = tries[m] /\ In(m, k, w) /\ tries[m].state = "reserved"
      BY <2>3 DEF In
    <3>2. HasWindow(k, w) /\ rows'[k].attempts <= rows[k].attempts
      BY <1>6, <2>1 DEF HasWindow
    <3>4. Newest(k, w, m) /\ n < m
      BY <3>3 DEF Newest
    <3>5. Later(k, w, m)' = Later(k, w, m)
      <4>1. ~(n > m)
        BY <1>0, <3>4
      <4>. QED
        BY <3>3, <4>1 DEF Later
    <3>6. rows[k].attempts <= tries[m].entries[k].after + Cardinality(Later(k, w, m))
      BY <2>1, <3>1, <3>2, <3>4 DEF Entered
    <3>7. /\ rows[k].attempts \in Nat /\ rows'[k].attempts \in Nat
          /\ tries[m].entries[k].after + Cardinality(Later(k, w, m)) \in Nat
      <4>1. rows[k].attempts \in 0 .. MaxTries
        BY <1>0, <2>1, <3>2, Row DEF HasWindow
      <4>2. rows'[k].attempts \in 0 .. MaxTries
        BY <1>6, <2>1 DEF HasWindow, Rows
      <4>3. tries[m].entries[k].after \in 1 .. MaxTries
        BY <1>0, <2>1, <3>1, Entry DEF In
      <4>4. Cardinality(Later(k, w, m)) \in Nat
        BY <1>0, Parts, Selected
      <4>. QED
        BY <4>1, <4>2, <4>3, <4>4
    <3>. DEFINE most == tries[m].entries[k].after + Cardinality(Later(k, w, m))
    <3>8. tries'[m].entries[k].after + Cardinality(Later(k, w, m)') = most
      BY <3>1, <3>5
    <3>. HIDE DEF most
    <3>. QED
      BY <3>2, <3>6, <3>7, <3>8 DEF most
  <2>. QED
    BY <2>4, <2>5
<1>11. Tried' = Tried
  BY <1>0, <1>1, <1>2, Updated DEF Tried
<1>. QED
  BY <1>7, <1>9, <1>10, <1>11 DEF ThrottleInv, RowsCount, EntriesCount

-----------------------------------------------------------------------------
(* Time touches no attempt: a window ends, a block ends, or the row of an ended window goes. *)
LEMMA TimeStep ==
    ASSUME ThrottleInv, UNCHANGED tries, over \subseteq over', over' \subseteq Keys \X (1 .. MaxTries),
           rows' \in [Keys -> Rows \cup {NoRow}],
           \A k \in Keys :
              \/ rows'[k] = NoRow /\ (rows[k] # NoRow => <<k, rows[k].window>> \in over)
              \/ /\ rows[k] # NoRow /\ rows'[k] # NoRow
                 /\ rows'[k].attempts = rows[k].attempts /\ rows'[k].window = rows[k].window
    PROVE  ThrottleInv'
<1>0. TTypeOK
  BY DEF ThrottleInv
<1>1. TTypeOK' /\ Tried' = Tried
  BY <1>0 DEF TTypeOK, Tried
<1>2. RowsOpened' /\ Bounded'
  BY DEF ThrottleInv, RowsOpened, Bounded, Tried
<1>3. EntriesOpened' /\ ClaimsEnterLate'
  BY <1>1 DEF ThrottleInv, EntriesOpened, ClaimsEnterLate
<1>4. ASSUME NEW k \in Keys, NEW w PROVE SameMemory(k, w)
  BY DEF SameMemory, Standing, Successes, In
<1>7. ASSUME NEW k \in Keys, NEW w PROVE RowStays(k, w)
  BY DEF RowStays, HasWindow
<1>5. ASSUME NEW k \in Keys, NEW w \in Nat PROVE Counts(k, w)'
  <2>1. Counts(k, w)
    BY DEF ThrottleInv, RowsCount
  <2>. QED
    BY <1>4, <1>7, <2>1, CountsStill
<1>6. ASSUME NEW k \in Subjects, NEW w \in Nat, NEW m \in Tried PROVE Entered(k, w, m)'
  <2>1. k \in Keys /\ Entered(k, w, m)
    BY DEF Keys, ThrottleInv, EntriesCount
  <2>. QED
    BY <1>4, <1>7, <2>1, EnteredStill
<1>. QED
  BY <1>1, <1>2, <1>3, <1>5, <1>6 DEF ThrottleInv, RowsCount, EntriesCount

LEMMA WindowPassesStep == ASSUME ThrottleInv, NEW k \in Keys, WindowPasses(k) PROVE ThrottleInv'
<1>1. TTypeOK /\ rows \in [Keys -> Rows \cup {NoRow}] /\ over \subseteq Keys \X (1 .. MaxTries)
  BY DEF ThrottleInv, TTypeOK
<1>2. rows[k] # NoRow /\ over' = over \cup {<<k, rows[k].window>>} /\ rows' = rows /\ tries' = tries
  BY DEF WindowPasses
<1>3. rows[k].window \in 1 .. MaxTries
  BY <1>1, <1>2, Row
<1>4. over \subseteq over' /\ over' \subseteq Keys \X (1 .. MaxTries)
  BY <1>1, <1>2, <1>3
<1>. QED
  BY <1>1, <1>2, <1>4, TimeStep

LEMMA BlockPassesStep == ASSUME ThrottleInv, NEW k \in Keys, BlockPasses(k) PROVE ThrottleInv'
<1>1. TTypeOK /\ rows \in [Keys -> Rows \cup {NoRow}] /\ over \subseteq Keys \X (1 .. MaxTries)
  BY DEF ThrottleInv, TTypeOK
<1>2. rows[k] # NoRow /\ over' = over /\ rows' = [rows EXCEPT ![k].block = "over"] /\ tries' = tries
  BY DEF BlockPasses
<1>3. rows[k] \in Rows
  BY <1>1, <1>2
<1>4. LET saved == [rows[k] EXCEPT !.block = "over"] IN
      saved \in Rows /\ saved.attempts = rows[k].attempts /\ saved.window = rows[k].window
  BY <1>3 DEF Rows
<1>5. /\ rows'[k] \in Rows /\ rows'[k].attempts = rows[k].attempts /\ rows'[k].window = rows[k].window
      /\ \A q \in Keys \ {k} : rows'[q] = rows[q]
      /\ rows' \in [Keys -> Rows \cup {NoRow}]
  BY <1>1, <1>2, <1>4
<1>6. rows'[k] # NoRow
  BY <1>5, NoRowAssumption
<1>. QED
  BY <1>1, <1>2, <1>5, <1>6, TimeStep

LEMMA PruneStep == ASSUME ThrottleInv, NEW k \in Keys, Prune(k) PROVE ThrottleInv'
<1>1. TTypeOK /\ rows \in [Keys -> Rows \cup {NoRow}] /\ over \subseteq Keys \X (1 .. MaxTries)
  BY DEF ThrottleInv, TTypeOK
<1>2. /\ rows[k] # NoRow /\ <<k, rows[k].window>> \in over
      /\ over' = over /\ rows' = [rows EXCEPT ![k] = NoRow] /\ tries' = tries
  BY DEF Prune
<1>3. rows' \in [Keys -> Rows \cup {NoRow}] /\ rows'[k] = NoRow /\ \A q \in Keys \ {k} : rows'[q] = rows[q]
  BY <1>1, <1>2
<1>. QED
  BY <1>1, <1>2, <1>3, TimeStep

LEMMA InvAtFirst == TInit => ThrottleInv
<1>. SUFFICES ASSUME TInit PROVE ThrottleInv
  OBVIOUS
<1>1. tries = <<>> /\ Len(tries) = 0 /\ over = {} /\ \A k \in Keys : rows[k] = NoRow
  BY DEF TInit
<1>2. TTypeOK
  BY ThrottleAssumption DEF TInit, TTypeOK
<1>3. Tried = {}
  BY <1>1 DEF Tried
<1>4. \A k, w : Unforgiven(k, w) = {} /\ (k \in Keys => ~HasWindow(k, w))
  BY <1>1 DEF Unforgiven, Standing, HasWindow
<1>. QED
  BY <1>1, <1>2, <1>3, <1>4
     DEF ThrottleInv, RowsOpened, EntriesOpened, ClaimsEnterLate, Bounded, RowsCount, Counts, EntriesCount

LEMMA InvStays == ThrottleInv /\ [TNext]_throttlevars => ThrottleInv'
<1>. SUFFICES ASSUME ThrottleInv, [TNext]_throttlevars PROVE ThrottleInv'
  OBVIOUS
<1>1. ASSUME NEW s \in Subjects, ReserveThrottleAttempts(s) PROVE ThrottleInv'
  BY <1>1, RefusedStep, AcceptedStep
<1>2. CASE Look
  BY <1>2, LookStep
<1>3. ASSUME NEW n \in Tried, Succeed(n) \/ Fail(n) \/ RecordFailedAttempt(n) \/ FindInvitation(n) PROVE ThrottleInv'
  BY <1>3, SucceededStep, FailStep, RecordedStep, FoundStep
<1>4. ASSUME NEW k \in Keys, WindowPasses(k) \/ BlockPasses(k) \/ Prune(k) PROVE ThrottleInv'
  BY <1>4, WindowPassesStep, BlockPassesStep, PruneStep
<1>5. CASE UNCHANGED throttlevars
  <2>1. TTypeOK /\ rows \in [Keys -> Rows \cup {NoRow}] /\ over \subseteq Keys \X (1 .. MaxTries)
    BY DEF ThrottleInv, TTypeOK
  <2>2. rows' = rows /\ over' = over /\ tries' = tries
    BY <1>5 DEF throttlevars
  <2>. QED
    BY <2>1, <2>2, TimeStep
<1>. QED
  BY <1>1, <1>2, <1>3, <1>4, <1>5 DEF TNext, Tried

LEMMA AlwaysCounting == TSpec => []ThrottleInv
  BY InvAtFirst, InvStays, PTL DEF TSpec

(* What the counters hold is what their columns can hold, however attempts, successes and *)
(* prunings interleave (reserve_throttle_attempts, settle_successful_throttle).           *)
THEOREM CountersStayTyped == TSpec => []TTypeOK
<1>1. ThrottleInv => TTypeOK
  BY DEF ThrottleInv
<1>. QED
  BY <1>1, AlwaysCounting, PTL

(* The counter of a window holds every attempt that stands against it and that no success *)
(* took back, never one that a later success took back, and never more than the limit: no *)
(* interleaving of sign-ins, successes, claims and prunings counts twice, and what is     *)
(* missing where successes of one subject overlap is no newer than the last of them       *)
(* (reserve_throttle_attempts, settle_successful_throttle, record_failed_attempt).        *)
THEOREM WhatStandsIsCounted == TSpec => []CountsWhatStands
<1>1. ThrottleInv => CountsWhatStands
  <2>. SUFFICES ASSUME ThrottleInv, NEW k \in Keys, NEW w \in 1 .. MaxTries, <<k, w>> \notin over
                PROVE  IF HasWindow(k, w)
                       THEN /\ Cardinality(Unforgiven(k, w)) <= rows[k].attempts
                            /\ rows[k].attempts <= Cardinality(Remembered(k, w))
                            /\ k # Claiming => rows[k].attempts <= Limit(k)
                       ELSE Unforgiven(k, w) = {}
    BY DEF CountsWhatStands
  <2>1. Counts(k, w)
    BY DEF ThrottleInv, RowsCount
  <2>2. k # Claiming /\ HasWindow(k, w) => rows[k].attempts <= Limit(k)
    BY DEF ThrottleInv, Bounded, HasWindow
  <2>. QED
    BY <2>1, <2>2 DEF Counts
<1>. QED
  BY <1>1, AlwaysCounting, PTL
=============================================================================
