-------------------------- MODULE DemoRefresh_proofs --------------------------
(***************************************************************************)
(* For every set of requests and of nights and any number of faults: which *)
(* generation the media and the database are of, who may write, what the   *)
(* copies hold and what the closed requests say.  The argument follows the *)
(* orchestrator that holds the flock through its phases (Window), and what *)
(* it leaves on disk if it dies there (MediaInv): the durable state names  *)
(* the run, and the receipt of that run says which media belong to the     *)
(* database.                                                               *)
(***************************************************************************)
EXTENDS DemoRefresh, FiniteSetTheorems, TLAPS

\* The phases with the flock released, and those before the transaction.
Released == {"timers", "watch"}
Before   == {"preflight", "quiesce", "drain", "backup", "copying", "state", "quarantine", "media root", "refresh"}

\* Exactly the orchestrator that holds the flock is in a phase that needs it.
Flock ==
    /\ \A s \in Slots : orch[s] # Nil /\ orch[s].at \notin Released => lock = s
    /\ lock # Nil => orch[lock] # Nil /\ orch[lock].at \notin Released

\* Whose run is whose, and which of them PostgreSQL may have confirmed.
Identities ==
    /\ orch["manual"] # Nil =>
          orch["manual"].run \in Requests /\ requests[orch["manual"].run].status = "processing"
    /\ orch["nightly"] # Nil => orch["nightly"].run \in Nights \ nights
    /\ nights \cap receipts = {}
    /\ \A r \in Requests : requests[r].status \in {"none", "pending"} => r \notin receipts
    /\ disp # Nil => /\ requests[disp.req].status = "processing" /\ disp.req \in Requests
                     /\ disp.at # "running" => orch["manual"] = Nil
                     /\ disp.at = "claimed" => disp.req \notin receipts
    /\ \A r \in Requests : requests[r].code = "dispatcher_interrupted" => requests[r].status = "failed"

\* Nothing is confirmed of a run before its transaction.
Fresh == \A s \in Slots : orch[s] # Nil /\ orch[s].at \in Before /\ orch[s].result # "commit" =>
             orch[s].run \notin receipts

Together == disk.root = generation /\ disk.aside = Nil

\* Database and media are of one generation, or the durable state names the run whose
\* receipt says which of the two directories belongs to the database.
MediaInv ==
    \/ Together
    \/ disk.state # Nil /\ disk.state \notin receipts /\ disk.aside = generation /\ disk.root \in {Nil, generation + 1}
    \/ disk.state # Nil /\ disk.state \in receipts /\ disk.root = generation

\* What the orchestrator that holds the flock has done so far.
Window(o) ==
    /\ o.at # "preflight" => disk.state \in {Nil, o.run}
    /\ o.at \in {"preflight", "quiesce", "drain", "state", "quarantine", "media root", "refresh"} => o.result = "pending"
    /\ o.at \in {"quiesce", "drain", "backup", "copying", "state", "quarantine", "remove"} => Together
    /\ o.at \in {"quarantine", "media root", "refresh"} => disk.state = o.run
    /\ o.at = "media root" => disk.root = Nil /\ disk.aside = generation
    /\ o.at = "refresh" => disk.root = generation + 1 /\ disk.aside = generation
    /\ o.at = "media" => o.result = IF o.run \in receipts THEN "commit" ELSE "rollback"
    /\ o.at \in {"backup", "copying"} => o.result # "rollback"
    /\ o.at \in {"backup", "copying", "state", "quarantine", "media root", "refresh", "query", "media"}
          => ~units.gunicorn /\ ~units.job
    /\ o.at \in Phases \ {"preflight", "postflight", "unlock", "cleanup", "give up"} => tokens.rearm = Nil
    /\ o.at \in Phases \ {"preflight", "quiesce", "drain", "copying", "postflight", "unlock", "cleanup", "give up"}
          => units.copy # "running"
WindowInv == lock # Nil => Window(orch[lock])

\* A copy that runs reads the media of the generation its dump was taken from.
CopyInv ==
    /\ units.copy = "running" => units.dump = disk.root
    /\ \A c \in copies : c[1] = c[2]

Types == DTypeOK /\ generation = Cardinality(receipts)
DInv == Types /\ Flock /\ Identities /\ Fresh /\ MediaInv /\ WindowInv /\ CopyInv
            /\ WritersSeeOneGeneration /\ RequestsTellTheTruth

-----------------------------------------------------------------------------
(* Which steps change what *)

(* The transaction is the only step that changes the database. *)
LEMMA BaseSteps ==
    ASSUME [DNext]_demovars
    PROVE  \/ UNCHANGED base
           \/ \E s \in Slots : orch[s] # Nil /\ (Regenerate(s) \/ RegenerateUnheard(s))
  BY DEF DNext, Systemd, Dispatch, Fault, StartGunicorn, StartJob, EndJob, Copy, CopyFails, Tick, Launch, Finalize,
         FinalizeTimesOut, Nightly, Kill, DispatcherStopped, Reboot, Ask, Expire, OrchStep, Advances, Recovers,
         Preflight, StopTimers, StopGunicorn, StartCopy, CopyEnds, WriteState, MoveMedia, NewMedia, Query, DropMedia,
         EmptyMedia, RestoreMedia, RemoveState, FinishReconciling, Rearm, Postflight, Unlock, StartTimers, Ends,
         Errs, Cleanup, GiveUp, TimersFail, Surrender, base, demovars

(* Only an orchestrator touches the durable state and the media. *)
LEMMA DiskSteps ==
    ASSUME [DNext]_demovars
    PROVE  \/ UNCHANGED disk
           \/ \E s \in Slots : /\ orch[s] # Nil
                               /\ \/ WriteState(s) \/ MoveMedia(s) \/ NewMedia(s) \/ DropMedia(s) \/ EmptyMedia(s)
                                  \/ RestoreMedia(s) \/ RemoveState(s) \/ GiveUp(s) \/ TimersFail(s)
  BY DEF DNext, Systemd, Dispatch, Fault, StartGunicorn, StartJob, EndJob, Copy, CopyFails, Tick, Launch, Finalize,
         FinalizeTimesOut, Nightly, Kill, DispatcherStopped, Reboot, Ask, Expire, OrchStep, Advances, Recovers,
         Preflight, StopTimers, StopGunicorn, StartCopy, CopyEnds, Regenerate, RegenerateUnheard, Query,
         FinishReconciling, Rearm, Postflight, Unlock, StartTimers, Ends, Errs, Cleanup, demovars

(* Units change with systemd, with an orchestrator or with a reboot. *)
LEMMA UnitSteps ==
    ASSUME [DNext]_demovars
    PROVE  \/ UNCHANGED units
           \/ StartGunicorn \/ StartJob \/ EndJob \/ Copy \/ CopyFails \/ Reboot
           \/ \E s \in Slots : /\ orch[s] # Nil
                               /\ \/ StopTimers(s) \/ StopGunicorn(s) \/ StartCopy(s) \/ CopyEnds(s) \/ Rearm(s)
                                  \/ StartTimers(s) \/ Cleanup(s) \/ GiveUp(s) \/ TimersFail(s)
  BY DEF DNext, Systemd, Dispatch, Fault, Tick, Launch, Finalize,
         FinalizeTimesOut, Nightly, Kill, DispatcherStopped, Ask, Expire, OrchStep, Advances, Recovers,
         Preflight, WriteState, MoveMedia, NewMedia, Regenerate, RegenerateUnheard, Query, DropMedia,
         EmptyMedia, RestoreMedia, RemoveState, FinishReconciling, Postflight, Unlock, Ends,
         Errs, demovars

(* Tokens change with an orchestrator or with a reboot. *)
LEMMA TokenSteps ==
    ASSUME [DNext]_demovars
    PROVE  \/ UNCHANGED tokens
           \/ Reboot
           \/ \E s \in Slots : orch[s] # Nil /\ (StartCopy(s) \/ CopyEnds(s) \/ Rearm(s) \/ Unlock(s) \/ Cleanup(s) \/ Errs(s))
  BY DEF DNext, Systemd, Dispatch, Fault, StartGunicorn, StartJob, EndJob, Copy, CopyFails, Tick, Launch, Finalize,
         FinalizeTimesOut, Nightly, Kill, DispatcherStopped, Ask, Expire, OrchStep, Advances, Recovers,
         Preflight, StopTimers, StopGunicorn, WriteState, MoveMedia, NewMedia, Regenerate, RegenerateUnheard, Query,
         DropMedia, EmptyMedia, RestoreMedia, RemoveState, FinishReconciling, Postflight, StartTimers, Ends,
         GiveUp, TimersFail, Surrender, demovars

(* Requests change when they are asked for, taken or closed, and grow old. *)
LEMMA QueueSteps ==
    ASSUME [DNext]_demovars
    PROVE  \/ UNCHANGED <<requests, stale>>
           \/ Tick \/ Finalize \/ \E r \in Requests : Ask(r) \/ Expire(r)
  BY DEF DNext, Systemd, Dispatch, Fault, StartGunicorn, StartJob, EndJob, Copy, CopyFails, Launch,
         FinalizeTimesOut, Nightly, Kill, DispatcherStopped, Reboot, OrchStep, Advances, Recovers,
         Preflight, StopTimers, StopGunicorn, StartCopy, CopyEnds, WriteState, MoveMedia, NewMedia, Regenerate,
         RegenerateUnheard, Query, DropMedia, EmptyMedia, RestoreMedia, RemoveState, FinishReconciling, Rearm,
         Postflight, Unlock, StartTimers, Ends, Errs, Cleanup, GiveUp, TimersFail, Surrender, queue, demovars

(* Only the canonical backup makes copies. *)
LEMMA CopySteps ==
    ASSUME [DNext]_demovars PROVE UNCHANGED copies \/ Copy
  BY DEF DNext, Systemd, Dispatch, Fault, StartGunicorn, StartJob, EndJob, CopyFails, Tick, Launch, Finalize,
         FinalizeTimesOut, Nightly, Kill, DispatcherStopped, Reboot, Ask, Expire, OrchStep, Advances, Recovers,
         Preflight, StopTimers, StopGunicorn, StartCopy, CopyEnds, WriteState, MoveMedia, NewMedia, Regenerate,
         RegenerateUnheard, Query, DropMedia, EmptyMedia, RestoreMedia, RemoveState, FinishReconciling, Rearm,
         Postflight, Unlock, StartTimers, Ends, Errs, Cleanup, GiveUp, TimersFail, Surrender, demovars

(* Faults are counted, and the nightly timer draws each run once. *)
LEMMA CountSteps ==
    ASSUME [DNext]_demovars
    PROVE  /\ UNCHANGED faults \/ Faulty
           /\ UNCHANGED nights \/ Nightly
  BY DEF DNext, Systemd, Dispatch, Fault, StartGunicorn, StartJob, EndJob, Copy, CopyFails, Tick, Launch, Finalize,
         FinalizeTimesOut, Nightly, Kill, DispatcherStopped, Reboot, Ask, Expire, OrchStep, Advances, Recovers,
         Preflight, StopTimers, StopGunicorn, StartCopy, CopyEnds, WriteState, MoveMedia, NewMedia, Regenerate,
         RegenerateUnheard, Query, DropMedia, EmptyMedia, RestoreMedia, RemoveState, FinishReconciling, Rearm,
         Postflight, Unlock, StartTimers, Ends, Errs, Cleanup, GiveUp, TimersFail, Surrender, demovars

-----------------------------------------------------------------------------
(* How an orchestrator can go on *)

\* It takes a step and goes on: with its run, under the flock or not as before.
Follows(o, p) ==
    /\ p \in OrchRows /\ p.run = o.run
    /\ p.at \in Before /\ p.result # "commit" => o.at \in Before /\ o.result # "commit"
GoesOn(s) == \E p \in OrchRows :
    /\ orch' = [orch EXCEPT ![s] = p] /\ Follows(orch[s], p)
    /\ \/ lock' = lock /\ (p.at \in Released <=> orch[s].at \in Released)
       \/ lock' = Nil /\ lock = s /\ p.at \in Released
    /\ disp' \in {disp, Nil}

\* It ends, and the dispatcher hears of it or is stopped with it.
Leaves(s) ==
    /\ orch' = [orch EXCEPT ![s] = Nil] /\ lock' = Freed(s)
    /\ \/ disp' \in {disp, Nil}
       \/ s = "manual" /\ disp # Nil /\ \E status \in {"succeeded", "failed"} : disp' = [disp EXCEPT !.at = status]

(* An orchestrator that enters on_exit keeps its run and its verdict. *)
LEMMA EntersCleanup ==
    ASSUME DTypeOK, NEW s \in Slots, orch[s] # Nil
    PROVE  \E p \in OrchRows :
              /\ Cleaning(s) = [orch EXCEPT ![s] = p] /\ p.run = orch[s].run
              /\ p.at \in {"cleanup", "give up"} /\ p.result = orch[s].result
<1>. DEFINE p == [orch[s] EXCEPT !.at = IF orch[s].exiting THEN "give up" ELSE "cleanup", !.exiting = TRUE]
<1>1. orch[s] \in OrchRows
  BY DEF DTypeOK
<1>2. /\ p \in OrchRows /\ p.run = orch[s].run
      /\ p.at \in {"cleanup", "give up"} /\ p.result = orch[s].result
  BY <1>1 DEF OrchRows, Phases
<1>3. Cleaning(s) = [orch EXCEPT ![s] = p]
  BY DEF Cleaning
<1>. QED
  BY <1>2, <1>3

(* A step of an orchestrator lets it go on or end. *)
LEMMA OrchSteps ==
    ASSUME DTypeOK, Flock, NEW s \in Slots, OrchStep(s)
    PROVE  GoesOn(s) \/ Leaves(s)
<1>. USE DEF Before, Released, Phases
<1>1. orch[s] \in OrchRows /\ orch \in [Slots -> OrchRows \cup {Nil}]
  BY DEF DTypeOK, OrchStep
<1>2. ASSUME NEW phase \in Phases, To(s, phase), UNCHANGED <<disp, lock>>, phase \in Before => orch[s].at \in Before,
             phase \in Released <=> orch[s].at \in Released
      PROVE  GoesOn(s)
  <2>. DEFINE p == [orch[s] EXCEPT !.at = phase]
  <2>1. /\ orch' = [orch EXCEPT ![s] = p] /\ p \in OrchRows
        /\ p.run = orch[s].run /\ p.result = orch[s].result /\ p.at = phase
    BY <1>1, <1>2 DEF To, OrchRows
  <2>. QED
    BY <1>2, <2>1 DEF GoesOn, Follows
<1>3. CASE \/ StopTimers(s) \/ StopGunicorn(s) \/ StartCopy(s) \/ CopyEnds(s) \/ WriteState(s) \/ MoveMedia(s)
           \/ NewMedia(s) \/ RestoreMedia(s) \/ RemoveState(s) \/ Rearm(s) \/ Postflight(s) \/ StartTimers(s)
  <2>1. PICK phase \in Phases : /\ To(s, phase) /\ UNCHANGED <<disp, lock>>
                                /\ phase \in Before => orch[s].at \in Before
                                /\ phase \in Released <=> orch[s].at \in Released
    BY <1>3 DEF StopTimers, StopGunicorn, StartCopy, CopyEnds, WriteState, MoveMedia, NewMedia, RestoreMedia,
                RemoveState, Rearm, Postflight, StartTimers
  <2>. QED
    BY <1>2, <2>1
<1>4. CASE Cleanup(s)
  <2>1. AfterCleanup(s) \in {"give up", "rearm", "query"}
    BY DEF AfterCleanup
  <2>. QED
    BY <1>2, <1>4, <2>1 DEF Cleanup
<1>5. CASE DropMedia(s)
  <2>1. To(s, "backup") /\ UNCHANGED <<disp, lock>> /\ orch[s].result = "commit" /\ orch[s].at = "media"
    BY <1>5 DEF DropMedia
  <2>. DEFINE p == [orch[s] EXCEPT !.at = "backup"]
  <2>2. /\ orch' = [orch EXCEPT ![s] = p] /\ p \in OrchRows
        /\ p.run = orch[s].run /\ p.result = orch[s].result /\ p.at = "backup"
    BY <1>1, <2>1 DEF To, OrchRows
  <2>. QED
    BY <2>1, <2>2 DEF GoesOn, Follows
<1>6. CASE EmptyMedia(s)
  <2>1. orch' = [orch EXCEPT ![s] = orch[s]] /\ UNCHANGED <<disp, lock>>
    BY <1>1, <1>6 DEF EmptyMedia
  <2>. QED
    BY <1>1, <2>1 DEF GoesOn, Follows
<1>7. CASE Query(s)
  <2>. DEFINE p == [orch[s] EXCEPT !.at = "media", !.result = Verdict(s)]
  <2>1. Verdict(s) \in {"commit", "rollback"}
    BY <1>7 DEF Query, Verdict
  <2>2. p \in OrchRows /\ p.run = orch[s].run /\ p.at = "media"
    BY <1>1, <2>1 DEF OrchRows
  <2>3. orch' = [orch EXCEPT ![s] = p] /\ UNCHANGED <<disp, lock>> /\ orch[s].at = "query"
    BY <1>7 DEF Query
  <2>. QED
    BY <2>2, <2>3 DEF GoesOn, Follows
<1>8. CASE Regenerate(s)
  <2>. DEFINE p == [orch[s] EXCEPT !.succeeded = TRUE, !.at = "query"]
  <2>1. p \in OrchRows /\ p.run = orch[s].run /\ p.at = "query"
    BY <1>1 DEF OrchRows
  <2>2. orch' = [orch EXCEPT ![s] = p] /\ UNCHANGED <<disp, lock>> /\ orch[s].at = "refresh"
    BY <1>8 DEF Regenerate, Regenerates
  <2>. QED
    BY <2>1, <2>2 DEF GoesOn, Follows
<1>9. CASE FinishReconciling(s)
  <2>. DEFINE p == [orch[s] EXCEPT !.finished = TRUE,
                       !.at = IF orch[s].exiting /\ orch[s].result = "commit" THEN "give up" ELSE "rearm"]
  <2>1. p \in OrchRows /\ p.run = orch[s].run /\ p.at \in {"give up", "rearm"}
    BY <1>1 DEF OrchRows
  <2>2. orch' = [orch EXCEPT ![s] = p] /\ UNCHANGED <<disp, lock>> /\ orch[s].at = "finish"
    BY <1>9 DEF FinishReconciling
  <2>. QED
    BY <2>1, <2>2 DEF GoesOn, Follows
<1>10. ASSUME orch' = Cleaning(s), UNCHANGED <<disp, lock>>, orch[s].at \notin Released PROVE GoesOn(s)
  BY <1>10, EntersCleanup DEF GoesOn, Follows, OrchStep
<1>11. CASE RegenerateUnheard(s)
  BY <1>10, <1>11 DEF RegenerateUnheard, Regenerates
<1>12. ASSUME NEW status \in {"succeeded", "failed"}, Gone(s, status) PROVE Leaves(s)
  BY <1>12 DEF Gone, Leaves
<1>13. CASE Preflight(s)
  <2>1. CASE Ready
    BY <1>2, <1>13, <2>1 DEF Preflight
  <2>2. CASE ~Ready
    BY <1>12, <1>13, <2>2 DEF Preflight, Trips, Untrapped
  <2>. QED
    BY <2>1, <2>2
<1>14. CASE Errs(s)
  <2>1. CASE orch[s].at \in Untrapped
    BY <1>12, <1>14, <2>1 DEF Errs, Trips
  <2>2. CASE orch[s].at \notin Untrapped
    BY <1>10, <1>14, <2>2 DEF Errs, Trips, Untrapped
  <2>. QED
    BY <2>1, <2>2
<1>15. CASE GiveUp(s) \/ TimersFail(s)
  BY <1>12, <1>15 DEF GiveUp, TimersFail, Surrender
<1>16. CASE Ends(s)
  BY <1>12, <1>16 DEF Ends
<1>17. CASE Unlock(s)
  <2>1. To(s, "timers") /\ UNCHANGED disp /\ lock' = Nil /\ orch[s].at = "unlock"
    BY <1>17 DEF Unlock
  <2>2. lock = s
    BY <2>1 DEF OrchStep, Flock
  <2>. DEFINE p == [orch[s] EXCEPT !.at = "timers"]
  <2>3. /\ orch' = [orch EXCEPT ![s] = p] /\ p \in OrchRows /\ p.run = orch[s].run /\ p.at = "timers"
    BY <1>1, <2>1 DEF To, OrchRows
  <2>. QED
    BY <2>1, <2>2, <2>3 DEF GoesOn, Follows
<1>. QED
  BY <1>3, <1>4, <1>5, <1>6, <1>7, <1>8, <1>9, <1>11, <1>13, <1>14, <1>15, <1>16, <1>17
     DEF OrchStep, Advances, Recovers

(* Everything else starts an orchestrator, ends one or leaves them alone. *)
LEMMA Ways ==
    ASSUME DTypeOK, Flock, [DNext]_demovars
    PROVE  \/ UNCHANGED <<orch, lock>> /\ disp' \in {disp, Nil}
           \/ Tick \/ Launch \/ Nightly \/ Reboot
           \/ \E s \in Slots : orch[s] # Nil /\ (GoesOn(s) \/ Leaves(s))
<1>1. ASSUME NEW s \in Slots, OrchStep(s) PROVE orch[s] # Nil /\ (GoesOn(s) \/ Leaves(s))
  BY <1>1, OrchSteps DEF OrchStep
<1>2. ASSUME NEW s \in Slots, Kill(s) PROVE orch[s] # Nil /\ Leaves(s)
  BY <1>2 DEF Kill, Gone, Leaves
<1>3. CASE DispatcherStopped
  <2>1. CASE orch["manual"] = Nil
    BY <1>3, <2>1 DEF DispatcherStopped
  <2>2. CASE orch["manual"] # Nil /\ (orch["manual"].at \in Untrapped \/ orch["manual"].exiting)
    BY <1>3, <2>2 DEF DispatcherStopped, Leaves, Slots
  <2>3. CASE orch["manual"] # Nil /\ orch["manual"].at \notin Untrapped /\ ~orch["manual"].exiting
    <3>1. orch' = Cleaning("manual") /\ lock' = lock /\ disp' = Nil /\ "manual" \in Slots
      BY <1>3, <2>3 DEF DispatcherStopped, Slots
    <3>. QED
      BY <2>3, <3>1, EntersCleanup DEF GoesOn, Follows, Before, Released, Untrapped
  <2>. QED
    BY <2>1, <2>2, <2>3
<1>4. CASE UNCHANGED demovars
  BY <1>4 DEF demovars
<1>5. CASE Systemd \/ Finalize \/ FinalizeTimesOut \/ \E r \in Requests : Ask(r) \/ Expire(r)
  BY <1>5 DEF Systemd, StartGunicorn, StartJob, EndJob, Copy, CopyFails, Finalize, FinalizeTimesOut, Ask, Expire
<1>. QED
  BY <1>1, <1>2, <1>3, <1>4, <1>5 DEF DNext, Dispatch, Fault

(* A run begins with the flock, or finds it taken and ends at once. *)
LEMMA Begins ==
    ASSUME DTypeOK, NEW s \in Slots, NEW r \in Runs, Begin(s, r)
    PROVE  \/ /\ lock = Nil /\ lock' = s
              /\ \E p \in OrchRows : /\ orch' = [orch EXCEPT ![s] = p]
                                     /\ p.run = r /\ p.at = "preflight" /\ p.result = "pending"
              /\ disp' = IF s = "manual" THEN [disp EXCEPT !.at = "running"] ELSE disp
           \/ lock # Nil /\ Gone(s, "failed")
<1>. DEFINE p == [run |-> r, at |-> "preflight", succeeded |-> FALSE, finished |-> FALSE,
                  exiting |-> FALSE, result |-> "pending"]
<1>1. p \in OrchRows /\ p.run = r /\ p.at = "preflight" /\ p.result = "pending"
  BY DEF OrchRows, Phases
<1>2. CASE lock = Nil
  <2>1. /\ lock' = s /\ orch' = [orch EXCEPT ![s] = p]
        /\ disp' = IF s = "manual" THEN [disp EXCEPT !.at = "running"] ELSE disp
    BY <1>2 DEF Begin, LockFree
  <2>. QED
    BY <1>1, <1>2, <2>1
<1>3. CASE lock # Nil
  BY <1>3 DEF Begin, LockFree
<1>. QED
  BY <1>2, <1>3

(* While a run is not confirmed there is a generation for it. *)
LEMMA Room ==
    ASSUME Types, NEW r \in Runs, r \notin receipts
    PROVE  generation + 1 \in Generations /\ Cardinality(receipts \cup {r}) = generation + 1
<1>1. IsFiniteSet(Runs) /\ receipts \subseteq Runs /\ generation = Cardinality(receipts)
  BY FS_Union, RunAssumption DEF Runs, Types, DTypeOK
<1>2. IsFiniteSet(receipts)
  BY <1>1, FS_Subset
<1>3. Cardinality(receipts \cup {r}) = generation + 1 /\ generation \in Nat
  BY <1>1, <1>2, FS_AddElement, FS_CardinalityType
<1>4. receipts \cup {r} \subseteq Runs
  BY <1>1
<1>5. Cardinality(receipts \cup {r}) <= Cardinality(Runs) /\ Cardinality(Runs) \in Nat
  BY <1>1, <1>4, FS_Subset, FS_CardinalityType
<1>. QED
  BY <1>3, <1>5 DEF Generations

(* The transaction confirms a run of which nothing was confirmed yet. *)
LEMMA Confirms ==
    ASSUME Types, NEW s \in Slots, orch[s] # Nil, Regenerate(s) \/ RegenerateUnheard(s)
    PROVE  /\ orch[s].run \in Runs /\ orch[s].run \notin receipts /\ disk.state = orch[s].run
           /\ receipts' = receipts \cup {orch[s].run} /\ generation' = generation + 1 /\ UNCHANGED disk
           /\ orch[s].at = "refresh" /\ UNCHANGED <<disp, requests, nights, units, copies>>
<1>1. orch[s] \in OrchRows
  BY DEF Types, DTypeOK
<1>. QED
  BY <1>1 DEF Regenerate, RegenerateUnheard, Regenerates, Regenerable, OrchRows, queue

-----------------------------------------------------------------------------
(* Types *)

LEMMA FirstGeneration == 0 \in Generations /\ Generations \subseteq Nat
<1>1. IsFiniteSet(Runs)
  BY FS_Union, RunAssumption DEF Runs
<1>2. Cardinality(Runs) \in Nat
  BY <1>1, FS_CardinalityType
<1>. QED
  BY <1>2 DEF Generations

LEMMA InitTypes == ASSUME DInit PROVE Types
<1>1. generation = Cardinality(receipts) /\ 0 \in Generations
  BY FirstGeneration, FS_EmptySet DEF DInit
<1>2. 0 \in 0 .. MaxFaults
  BY RunAssumption
<1>. QED
  BY <1>1, <1>2 DEF DInit, Types, DTypeOK, Codes

LEMMA BaseTypes ==
    ASSUME Types, [DNext]_demovars
    PROVE  receipts' \subseteq Runs /\ generation' \in Generations /\ generation' = Cardinality(receipts')
<1>1. CASE UNCHANGED base
  BY <1>1 DEF base, Types, DTypeOK
<1>2. ASSUME NEW s \in Slots, orch[s] # Nil, Regenerate(s) \/ RegenerateUnheard(s)
      PROVE  receipts' \subseteq Runs /\ generation' \in Generations /\ generation' = Cardinality(receipts')
  BY <1>2, Confirms, Room DEF Types, DTypeOK
<1>. QED
  BY <1>1, <1>2, BaseSteps

LEMMA QueueTypes ==
    ASSUME Types, [DNext]_demovars
    PROVE  /\ requests' \in [Requests -> [status : {"none", "pending", "processing", "completed", "failed"}, code : Codes]]
           /\ stale' \subseteq Requests
<1>. DEFINE Rows == [status : {"none", "pending", "processing", "completed", "failed"}, code : Codes]
<1>1. requests \in [Requests -> Rows] /\ stale \subseteq Requests
  BY DEF Types, DTypeOK
<1>2. ASSUME NEW r \in Requests, NEW status \in {"pending", "processing"},
             requests' = [requests EXCEPT ![r].status = status]
      PROVE  requests' \in [Requests -> Rows]
  BY <1>1, <1>2
<1>3. ASSUME NEW r \in Requests, NEW status \in {"completed", "failed"}, NEW code \in Codes, Close(r, status, code)
      PROVE  requests' \in [Requests -> Rows]
  BY <1>1, <1>3 DEF Close
<1>4. CASE Tick
  BY <1>1, <1>2, <1>3, <1>4 DEF Tick, Codes
<1>5. CASE Finalize
  <2>1. disp.req \in Requests
    BY <1>5 DEF Finalize, Types, DTypeOK, DispRows
  <2>. QED
    BY <1>1, <1>3, <1>5, <2>1 DEF Finalize, Codes
<1>6. ASSUME NEW r \in Requests, Ask(r) \/ Expire(r) PROVE requests' \in [Requests -> Rows] /\ stale' \subseteq Requests
  BY <1>1, <1>2, <1>6 DEF Ask, Expire
<1>7. CASE UNCHANGED <<requests, stale>>
  BY <1>1, <1>7
<1>. QED
  BY <1>1, <1>4, <1>5, <1>6, <1>7, QueueSteps DEF Tick, Finalize

LEMMA OrchTypes ==
    ASSUME Types, Flock, [DNext]_demovars
    PROVE  /\ orch' \in [Slots -> OrchRows \cup {Nil}] /\ lock' \in Slots \cup {Nil}
           /\ disp' \in DispRows \cup {Nil}
<1>1. /\ orch \in [Slots -> OrchRows \cup {Nil}] /\ lock \in Slots \cup {Nil} /\ disp \in DispRows \cup {Nil}
      /\ nights \subseteq Nights
  BY DEF Types, DTypeOK
<1>2. \A status \in {"running", "succeeded", "failed"} : disp # Nil => [disp EXCEPT !.at = status] \in DispRows
  BY <1>1 DEF DispRows
<1>3. CASE UNCHANGED <<orch, lock>> /\ disp' \in {disp, Nil}
  BY <1>1, <1>3
<1>4. CASE Tick
  BY <1>1, <1>4 DEF Tick, DispRows
<1>5. ASSUME NEW s \in Slots, NEW r \in Runs, Begin(s, r), s = "manual" => disp # Nil
      PROVE  /\ orch' \in [Slots -> OrchRows \cup {Nil}] /\ lock' \in Slots \cup {Nil} /\ disp' \in DispRows \cup {Nil}
  <2>1. CASE lock # Nil /\ Gone(s, "failed")
    BY <1>1, <1>2, <2>1 DEF Gone, Freed
  <2>2. CASE ~(lock # Nil /\ Gone(s, "failed"))
    BY <1>1, <1>2, <1>5, <2>2, Begins DEF Types
  <2>. QED
    BY <2>1, <2>2
<1>6. CASE Launch
  BY <1>1, <1>5, <1>6 DEF Launch, DispRows, Runs, Slots
<1>7. CASE Nightly
  BY <1>1, <1>5, <1>7 DEF Nightly, Runs, Slots
<1>8. CASE Reboot
  BY <1>8 DEF Reboot
<1>9. ASSUME NEW s \in Slots, GoesOn(s) \/ Leaves(s)
      PROVE  /\ orch' \in [Slots -> OrchRows \cup {Nil}] /\ lock' \in Slots \cup {Nil} /\ disp' \in DispRows \cup {Nil}
  BY <1>1, <1>2, <1>9 DEF GoesOn, Leaves, Freed
<1>. QED
  BY <1>3, <1>4, <1>6, <1>7, <1>8, <1>9, Ways DEF Types

LEMMA DiskTypes ==
    ASSUME Types, Flock, Fresh, WindowInv, [DNext]_demovars
    PROVE  disk' \in [state : Runs \cup {Nil}, marker : BOOLEAN, root : Generations \cup {Nil}, aside : Generations \cup {Nil}]
<1>. DEFINE Disks == [state : Runs \cup {Nil}, marker : BOOLEAN, root : Generations \cup {Nil}, aside : Generations \cup {Nil}]
<1>1. disk \in Disks
  BY DEF Types, DTypeOK
<1>2. CASE UNCHANGED disk
  BY <1>1, <1>2
<1>3. ASSUME NEW s \in Slots, orch[s] # Nil,
             \/ WriteState(s) \/ MoveMedia(s) \/ DropMedia(s) \/ EmptyMedia(s)
             \/ RestoreMedia(s) \/ RemoveState(s) \/ GiveUp(s) \/ TimersFail(s)
      PROVE  disk' \in Disks
  <2>1. orch[s].run \in Runs
    BY <1>3 DEF Types, DTypeOK, OrchRows
  <2>. QED
    BY <1>1, <1>3, <2>1 DEF WriteState, MoveMedia, DropMedia, EmptyMedia, RestoreMedia, RemoveState, GiveUp,
                            TimersFail, Surrender
<1>4. ASSUME NEW s \in Slots, orch[s] # Nil, NewMedia(s) PROVE disk' \in Disks
  <2>1. orch[s] \in OrchRows
    BY <1>4 DEF Types, DTypeOK
  <2>2. lock = s
    BY <1>4 DEF NewMedia, Flock, Released
  <2>3. orch[s].result = "pending"
    BY <1>4, <2>2, RunAssumption DEF NewMedia, WindowInv, Window
  <2>4. orch[s].run \in Runs \ receipts
    BY <1>4, <2>1, <2>3 DEF NewMedia, Fresh, Before, OrchRows
  <2>. QED
    BY <1>1, <1>4, <2>4, Room DEF NewMedia
<1>. QED
  BY <1>2, <1>3, <1>4, DiskSteps

LEMMA TokenTypes ==
    ASSUME Types, [DNext]_demovars
    PROVE  tokens' \in [backup : Runs \cup {Nil}, rearm : Runs \cup {Nil}]
<1>1. tokens \in [backup : Runs \cup {Nil}, rearm : Runs \cup {Nil}]
  BY DEF Types, DTypeOK
<1>2. ASSUME NEW s \in Slots, orch[s] # Nil, \/ StartCopy(s) \/ CopyEnds(s) \/ Rearm(s) \/ Unlock(s) \/ Cleanup(s) \/ Errs(s)
      PROVE  tokens' \in [backup : Runs \cup {Nil}, rearm : Runs \cup {Nil}]
  <2>1. orch[s].run \in Runs
    BY <1>2 DEF Types, DTypeOK, OrchRows
  <2>2. CASE StartCopy(s) \/ CopyEnds(s)
    BY <1>1, <2>1, <2>2 DEF StartCopy, CopyEnds
  <2>3. CASE Rearm(s) \/ Unlock(s)
    BY <1>1, <2>1, <2>3 DEF Rearm, Unlock
  <2>4. CASE Cleanup(s)
    BY <1>1, <2>4 DEF Cleanup
  <2>5. CASE Errs(s)
    <3>1. tokens' = tokens \/ tokens' = [tokens EXCEPT !.backup = Nil]
      BY <2>5 DEF Errs
    <3>. QED
      BY <1>1, <3>1
  <2>. QED
    BY <1>2, <2>2, <2>3, <2>4, <2>5
<1>3. CASE Reboot
  BY <1>3 DEF Reboot
<1>. QED
  BY <1>1, <1>2, <1>3, TokenSteps

UnitRows == [gunicorn : BOOLEAN, timers : BOOLEAN, job : BOOLEAN,
             copy : {"none", "running", "done", "failed"}, dump : Generations]

(* What systemd and an orchestrator make of a row of units is one. *)
LEMMA UnitRow ==
    ASSUME NEW u \in UnitRows, NEW n \in Generations
    PROVE  /\ [u EXCEPT !.gunicorn = TRUE] \in UnitRows /\ [u EXCEPT !.gunicorn = FALSE] \in UnitRows
           /\ [u EXCEPT !.job = TRUE] \in UnitRows /\ [u EXCEPT !.job = FALSE] \in UnitRows
           /\ [u EXCEPT !.timers = TRUE] \in UnitRows /\ [u EXCEPT !.timers = FALSE] \in UnitRows
           /\ [u EXCEPT !.copy = "done"] \in UnitRows /\ [u EXCEPT !.copy = "failed"] \in UnitRows
           /\ [u EXCEPT !.copy = "none", !.dump = n] \in UnitRows
           /\ [u EXCEPT !.copy = "running", !.dump = n] \in UnitRows
           /\ [u EXCEPT !.copy = "failed", !.dump = n] \in UnitRows
           /\ Stopped(u) \in UnitRows
  BY DEF UnitRows, Stopped

(* A reboot starts the units that may start. *)
LEMMA BootRow ==
    ASSUME NEW b \in BOOLEAN, NEW n \in Generations
    PROVE  [gunicorn |-> b, timers |-> TRUE, job |-> FALSE, copy |-> "none", dump |-> n] \in UnitRows
  BY DEF UnitRows

LEMMA UnitTypes ==
    ASSUME Types, [DNext]_demovars
    PROVE  /\ units' \in [gunicorn : BOOLEAN, timers : BOOLEAN, job : BOOLEAN,
                          copy : {"none", "running", "done", "failed"}, dump : Generations]
           /\ copies' \subseteq Generations \X (Generations \cup {Nil})
<1>1. units \in UnitRows
  BY DEF Types, DTypeOK, UnitRows
<1>2. generation \in Generations /\ 0 \in Generations
  BY FirstGeneration DEF Types, DTypeOK
<1>3. copies' \subseteq Generations \X (Generations \cup {Nil})
  <2>1. copies' \subseteq copies \cup {<<units.dump, disk.root>>}
    BY CopySteps DEF Copy
  <2>2. copies \subseteq Generations \X (Generations \cup {Nil}) /\ disk.root \in Generations \cup {Nil}
    BY DEF Types, DTypeOK
  <2>. QED
    BY <1>1, <2>1, <2>2 DEF UnitRows
<1>4. ASSUME NEW s \in Slots, orch[s] # Nil,
             \/ StopTimers(s) \/ StopGunicorn(s) \/ StartCopy(s) \/ CopyEnds(s) \/ Rearm(s)
             \/ StartTimers(s) \/ Cleanup(s) \/ GiveUp(s) \/ TimersFail(s)
      PROVE  units' \in UnitRows
  <2>1. \/ units' = units \/ units' = Stopped(units)
        \/ units' = [units EXCEPT !.gunicorn = TRUE] \/ units' = [units EXCEPT !.gunicorn = FALSE]
        \/ units' = [units EXCEPT !.timers = TRUE] \/ units' = [units EXCEPT !.timers = FALSE]
        \/ units' = [units EXCEPT !.copy = "none", !.dump = 0]
        \/ units' = [units EXCEPT !.copy = "running", !.dump = generation]
        \/ units' = [units EXCEPT !.copy = "failed", !.dump = generation]
    BY <1>4 DEF StopTimers, StopGunicorn, StartCopy, CopyEnds, Rearm, StartTimers, Cleanup, GiveUp, TimersFail, Surrender
  <2>. QED
    BY <1>1, <1>2, <2>1, UnitRow
<1>5. ASSUME StartGunicorn \/ StartJob \/ EndJob \/ Copy \/ CopyFails PROVE units' \in UnitRows
  <2>1. \/ units' = [units EXCEPT !.gunicorn = TRUE]
        \/ units' = [units EXCEPT !.job = TRUE] \/ units' = [units EXCEPT !.job = FALSE]
        \/ units' = [units EXCEPT !.copy = "done"] \/ units' = [units EXCEPT !.copy = "failed"]
    BY <1>5 DEF StartGunicorn, StartJob, EndJob, Copy, CopyFails
  <2>. QED
    BY <1>1, <1>2, <2>1, UnitRow
<1>6. ASSUME Reboot PROVE units' \in UnitRows
  <2>1. PICK b \in BOOLEAN : units' = [gunicorn |-> b, timers |-> TRUE, job |-> FALSE, copy |-> "none", dump |-> 0]
    BY <1>6 DEF Reboot
  <2>. QED
    BY <1>2, <2>1, BootRow
<1>7. units' \in UnitRows
  BY <1>1, <1>4, <1>5, <1>6, UnitSteps
<1>. QED
  BY <1>3, <1>7 DEF UnitRows

(* The flock goes with the orchestrator that needs it. *)
LEMMA FlockStep == ASSUME Types, Flock, Identities, [DNext]_demovars PROVE Flock'
<1>. USE DEF Flock, Released
<1>1. /\ orch \in [Slots -> OrchRows \cup {Nil}] /\ lock \in Slots \cup {Nil} /\ Nil \notin Slots /\ Nil \notin OrchRows
  BY RunAssumption DEF Types, DTypeOK
<1>2. CASE UNCHANGED <<orch, lock>>
  BY <1>2
<1>3. ASSUME NEW s \in Slots, NEW r \in Runs, Begin(s, r), orch[s] = Nil PROVE Flock'
  <2>1. CASE lock # Nil /\ Gone(s, "failed")
    BY <1>1, <1>3, <2>1 DEF Gone, Freed
  <2>2. CASE ~(lock # Nil /\ Gone(s, "failed"))
    <3>1. lock = Nil /\ lock' = s
      BY <1>3, <2>2, Begins DEF Types
    <3>2. PICK p \in OrchRows : orch' = [orch EXCEPT ![s] = p] /\ p.at = "preflight"
      BY <1>3, <2>2, Begins DEF Types
    <3>. QED
      BY <1>1, <3>1, <3>2
  <2>. QED
    BY <2>1, <2>2
<1>4. CASE Nightly
  BY <1>3, <1>4 DEF Nightly, Runs, Slots, Types, DTypeOK
<1>5. CASE Launch /\ Identities
  BY <1>3, <1>5, <1>1 DEF Launch, Identities, Runs, Slots
<1>6. CASE Reboot
  BY <1>6 DEF Reboot
<1>7. ASSUME NEW s \in Slots, orch[s] # Nil, GoesOn(s) \/ Leaves(s) PROVE Flock'
  <2>1. CASE Leaves(s)
    BY <1>1, <1>7, <2>1 DEF Leaves, Freed
  <2>2. CASE GoesOn(s)
    <3>1. PICK p \in OrchRows :
             /\ orch' = [orch EXCEPT ![s] = p]
             /\ \/ lock' = lock /\ (p.at \in Released <=> orch[s].at \in Released)
                \/ lock' = Nil /\ lock = s /\ p.at \in Released
      BY <2>2 DEF GoesOn
    <3>. QED
      BY <1>1, <1>7, <3>1
  <2>. QED
    BY <1>7, <2>1, <2>2
<1>8. CASE Tick
  BY <1>8 DEF Tick
<1>. QED
  BY <1>2, <1>4, <1>5, <1>6, <1>7, <1>8, Ways DEF Types

LEMMA TypesStep ==
    ASSUME Types, Flock, Identities, Fresh, WindowInv, [DNext]_demovars PROVE Types'
<1>1. nights' \subseteq Nights /\ faults' \in 0 .. MaxFaults
  BY CountSteps, RunAssumption DEF Types, DTypeOK, Faulty, Nightly
<1>2. lock' # Nil => orch'[lock'] # Nil
  BY FlockStep DEF Flock
<1>. QED
  BY <1>1, <1>2, BaseTypes, QueueTypes, OrchTypes, DiskTypes, TokenTypes, UnitTypes DEF Types, DTypeOK

-----------------------------------------------------------------------------
(* Whose run is whose *)

(* The two orchestrators never have one run between them. *)
LEMMA RunsDiffer ==
    ASSUME Types, Identities, NEW s \in Slots, NEW t \in Slots, s # t, orch[s] # Nil, orch[t] # Nil
    PROVE  orch[s].run # orch[t].run
  BY RunAssumption DEF Identities, Slots

(* The runs that orchestrators have, after a step. *)
LEMMA RunsKept ==
    ASSUME Types, Flock, Identities, [DNext]_demovars
    PROVE  /\ orch'["manual"] # Nil => \/ /\ Launch /\ lock = Nil /\ orch'["manual"].run = disp.req
                                          /\ disp' = [disp EXCEPT !.at = "running"]
                                       \/ /\ orch["manual"] # Nil /\ orch'["manual"].run = orch["manual"].run
                                          /\ disp' \in {disp, Nil}
           /\ orch'["nightly"] # Nil => \/ Nightly /\ \E n \in nights : orch'["nightly"].run = n /\ nights' = nights \ {n}
                                        \/ orch["nightly"] # Nil /\ orch'["nightly"].run = orch["nightly"].run
<1>. DEFINE Kept(t) == orch'[t] # Nil => orch[t] # Nil /\ orch'[t].run = orch[t].run
<1>0. /\ orch \in [Slots -> OrchRows \cup {Nil}] /\ Nil \notin OrchRows /\ Slots = {"manual", "nightly"}
  BY RunAssumption DEF Types, DTypeOK, Slots
<1>1. ASSUME NEW s \in Slots, orch[s] # Nil, GoesOn(s) \/ Leaves(s)
      PROVE  /\ \A t \in Slots : Kept(t)
             /\ orch'["manual"] # Nil => disp' \in {disp, Nil}
  <2>1. CASE Leaves(s)
    BY <1>0, <1>1, <2>1 DEF Leaves
  <2>2. CASE GoesOn(s)
    <3>1. PICK p \in OrchRows : orch' = [orch EXCEPT ![s] = p] /\ p.run = orch[s].run /\ disp' \in {disp, Nil}
      BY <2>2 DEF GoesOn, Follows
    <3>. QED
      BY <1>0, <1>1, <3>1
  <2>. QED
    BY <1>1, <2>1, <2>2
<1>2. CASE UNCHANGED <<orch, lock>> /\ disp' \in {disp, Nil}
  BY <1>2
<1>3. CASE Tick
  BY <1>3 DEF Tick
<1>4. CASE Reboot
  BY <1>0, <1>4 DEF Reboot
<1>5. CASE Launch
  <2>1. Begin("manual", disp.req) /\ disp # Nil /\ disp.at = "claimed" /\ orch["manual"] = Nil /\ disp.req \in Runs
    BY <1>5 DEF Launch, Identities, Runs
  <2>2. CASE lock # Nil /\ Gone("manual", "failed")
    BY <1>0, <2>2 DEF Gone
  <2>3. CASE ~(lock # Nil /\ Gone("manual", "failed"))
    <3>1. /\ lock = Nil /\ disp' = [disp EXCEPT !.at = "running"]
          /\ \E p \in OrchRows : orch' = [orch EXCEPT !["manual"] = p] /\ p.run = disp.req
      BY <1>0, <2>1, <2>3, Begins DEF Types
    <3>. QED
      BY <1>0, <1>5, <3>1
  <2>. QED
    BY <2>2, <2>3
<1>6. CASE Nightly
  <2>1. PICK n \in nights : Begin("nightly", n) /\ nights' = nights \ {n} /\ orch["nightly"] = Nil
    BY <1>6 DEF Nightly
  <2>2. n \in Runs
    BY <2>1 DEF Types, DTypeOK, Runs
  <2>3. CASE lock # Nil /\ Gone("nightly", "failed")
    BY <1>0, <2>3 DEF Gone
  <2>4. CASE ~(lock # Nil /\ Gone("nightly", "failed"))
    <3>1. /\ disp' = disp
          /\ \E p \in OrchRows : orch' = [orch EXCEPT !["nightly"] = p] /\ p.run = n
      BY <1>0, <2>1, <2>2, <2>4, Begins DEF Types
    <3>. QED
      BY <1>0, <1>6, <2>1, <3>1
  <2>. QED
    BY <2>3, <2>4
<1>. QED
  BY <1>0, <1>1, <1>2, <1>3, <1>4, <1>5, <1>6, Ways DEF Types

LEMMA RequestsStep ==
    ASSUME Types, Identities, [DNext]_demovars
    PROVE  /\ \A r \in Requests : requests'[r].code = "dispatcher_interrupted" => requests'[r].status = "failed"
           /\ \A r \in Requests : requests'[r].status \in {"none", "pending"} => requests[r].status \in {"none", "pending"}
           /\ \A r \in Requests : requests[r].status = "processing" /\ requests'[r].status # "processing" =>
                 /\ orch["manual"] = Nil /\ orch' = orch /\ disp' = Nil
                 /\ disp # Nil => disp.req = r
<1>1. /\ requests \in [Requests -> [status : {"none", "pending", "processing", "completed", "failed"}, code : Codes]]
      /\ \A r \in Requests : requests[r].code = "dispatcher_interrupted" => requests[r].status = "failed"
  BY DEF Types, DTypeOK, Identities
<1>2. CASE UNCHANGED <<requests, stale>>
  BY <1>1, <1>2
<1>3. CASE Tick
  BY <1>1, <1>3, RunAssumption DEF Tick, Claimed, Active, Close
<1>4. CASE Finalize
  <2>1. disp.req \in Requests /\ orch["manual"] = Nil /\ disp' = Nil /\ orch' = orch
    BY <1>4 DEF Finalize, Identities
  <2>2. PICK status \in {"completed", "failed"}, code \in {"", "orchestrator_failed", "runtime_recovery_required"} :
           Close(disp.req, status, code)
    BY <1>4 DEF Finalize
  <2>. QED
    BY <1>1, <2>1, <2>2 DEF Close
<1>5. ASSUME NEW r \in Requests, Ask(r) \/ Expire(r)
      PROVE  \/ requests' = requests
             \/ requests[r].status = "none" /\ requests' = [requests EXCEPT ![r].status = "pending"]
  BY <1>5 DEF Ask, Expire
<1>6. CASE \E r \in Requests : Ask(r) \/ Expire(r)
  BY <1>1, <1>5, <1>6
<1>. QED
  BY <1>2, <1>3, <1>4, <1>6, QueueSteps

LEMMA IdentitiesStep ==
    ASSUME Types, Flock, Identities, Fresh, [DNext]_demovars PROVE Identities'
<1>1. /\ requests \in [Requests -> [status : {"none", "pending", "processing", "completed", "failed"}, code : Codes]]
      /\ orch \in [Slots -> OrchRows \cup {Nil}] /\ "manual" \in Slots /\ Nil \notin OrchRows
      /\ nights \subseteq Nights /\ Requests \cap Nights = {}
  BY RunAssumption DEF Types, DTypeOK, Slots
<1>2. orch'["manual"] # Nil =>
          orch'["manual"].run \in Requests /\ requests'[orch'["manual"].run].status = "processing"
  <2>1. CASE Launch
    BY <1>1, <2>1, RunsKept DEF Launch, Identities, queue
  <2>2. CASE ~Launch
    BY <1>1, <2>2, RunsKept, RequestsStep DEF Identities
  <2>. QED
    BY <2>1, <2>2
<1>3. orch'["nightly"] # Nil => orch'["nightly"].run \in Nights \ nights'
  <2>1. nights' \subseteq nights
    BY CountSteps DEF Nightly
  <2>. QED
    BY <1>1, <2>1, RunsKept DEF Identities
<1>4. ASSUME NEW s \in Slots, orch[s] # Nil, Regenerate(s) \/ RegenerateUnheard(s)
      PROVE  /\ receipts' = receipts \cup {orch[s].run}
             /\ \/ s = "manual" /\ requests[orch[s].run].status = "processing" /\ orch[s].run \in Requests
                \/ s = "nightly" /\ orch[s].run \in Nights \ nights
             /\ UNCHANGED <<disp, requests, nights>>
  BY <1>4, Confirms DEF Identities, Slots
<1>5. nights' \cap receipts' = {}
  <2>1. nights' \subseteq nights
    BY CountSteps DEF Nightly
  <2>2. CASE UNCHANGED base
    BY <2>1, <2>2 DEF base, Identities
  <2>. QED
    BY <1>1, <1>4, <2>1, <2>2, BaseSteps DEF Identities
<1>6. ASSUME NEW r \in Requests, requests'[r].status \in {"none", "pending"} PROVE r \notin receipts'
  <2>1. requests[r].status \in {"none", "pending"} /\ r \notin receipts
    BY <1>6, RequestsStep DEF Identities
  <2>2. CASE UNCHANGED base
    BY <2>1, <2>2 DEF base
  <2>. QED
    BY <1>1, <1>4, <2>1, <2>2, BaseSteps
<1>7. disp' # Nil => /\ requests'[disp'.req].status = "processing" /\ disp'.req \in Requests
                     /\ disp'.at # "running" => orch'["manual"] = Nil
                     /\ disp'.at = "claimed" => disp'.req \notin receipts'
  <2>1. CASE Tick
    <3>1. UNCHANGED <<orch, receipts>> /\ orch["manual"] = Nil /\ disp = Nil
      BY <2>1 DEF Tick, base
    <3>2. PICK r \in Requests : \/ /\ requests[r].status = "pending" /\ requests' = [requests EXCEPT ![r].status = "processing"]
                                   /\ disp' = [req |-> r, at |-> "claimed"]
                                \/ /\ requests[r].status = "processing" /\ disp' = [req |-> r, at |-> "recovering"] /\ requests' = requests
                                \/ disp' = Nil
      BY <2>1, <3>1 DEF Tick, Claimed, Active
    <3>. QED
      BY <1>1, <3>1, <3>2 DEF Identities
  <2>2. CASE disp' \in {disp, Nil} /\ ~Tick
    <3>1. disp' # Nil => /\ requests'[disp'.req].status = "processing" /\ disp'.req \in Requests
      BY <2>2, RequestsStep DEF Identities
    <3>2. disp' # Nil /\ disp'.at # "running" => orch'["manual"] = Nil
      BY <2>2, RunsKept, RunAssumption DEF Identities, Launch, Types, DTypeOK, DispRows
    <3>3. disp' # Nil /\ disp'.at = "claimed" => disp'.req \notin receipts'
      <4>1. CASE UNCHANGED base
        BY <2>2, <4>1 DEF base, Identities
      <4>. QED
        BY <1>1, <1>4, <2>2, <4>1, BaseSteps DEF Identities
    <3>. QED
      BY <3>1, <3>2, <3>3
  <2>3. ASSUME disp # Nil, NEW status \in {"running", "succeeded", "failed"}, disp' = [disp EXCEPT !.at = status],
               status # "running" => orch'["manual"] = Nil
        PROVE  /\ requests'[disp'.req].status = "processing" /\ disp'.req \in Requests
               /\ disp'.at # "running" => orch'["manual"] = Nil
               /\ disp'.at = "claimed" => disp'.req \notin receipts'
    <3>1. disp'.req = disp.req /\ disp'.at = status /\ disp' # Nil
      BY <2>3, RunAssumption DEF Types, DTypeOK, DispRows
    <3>. QED
      BY <2>3, <3>1, RequestsStep DEF Identities
  <2>4. CASE Launch
    <3>1. Begin("manual", disp.req) /\ disp # Nil /\ disp.req \in Runs
      BY <2>4 DEF Launch, Identities, Runs
    <3>2. CASE lock # Nil /\ Gone("manual", "failed")
      BY <1>1, <2>3, <3>1, <3>2 DEF Gone
    <3>3. CASE ~(lock # Nil /\ Gone("manual", "failed"))
      BY <1>1, <2>3, <3>1, <3>3, Begins DEF Types
    <3>. QED
      BY <3>2, <3>3
  <2>5. CASE Nightly
    <3>1. PICK n \in nights : Begin("nightly", n)
      BY <2>5 DEF Nightly
    <3>2. n \in Runs /\ "nightly" \in Slots
      BY <1>1, <3>1 DEF Runs, Slots
    <3>3. disp' = disp
      BY <3>1, <3>2, Begins DEF Gone, Types
    <3>4. ~Tick
      BY <2>5 DEF Tick, Nightly, Types, DTypeOK
    <3>. QED
      BY <2>2, <3>3, <3>4
  <2>6. CASE Reboot
    BY <2>6 DEF Reboot
  <2>7. ASSUME NEW s \in Slots, orch[s] # Nil, GoesOn(s) \/ Leaves(s), ~(disp' \in {disp, Nil})
        PROVE  /\ requests'[disp'.req].status = "processing" /\ disp'.req \in Requests
               /\ disp'.at # "running" => orch'["manual"] = Nil
               /\ disp'.at = "claimed" => disp'.req \notin receipts'
    <3>1. Leaves("manual") /\ disp # Nil /\ \E status \in {"succeeded", "failed"} : disp' = [disp EXCEPT !.at = status]
      BY <2>7 DEF GoesOn, Leaves
    <3>2. orch'["manual"] = Nil
      BY <1>1, <3>1 DEF Leaves
    <3>. QED
      BY <2>3, <3>1, <3>2
  <2>. QED
    BY <2>1, <2>2, <2>4, <2>5, <2>6, <2>7, Ways DEF Types
<1>. QED
  BY <1>2, <1>3, <1>5, <1>6, <1>7, RequestsStep DEF Identities

LEMMA FreshStep ==
    ASSUME Types, Flock, Identities, Fresh, [DNext]_demovars PROVE Fresh'
<1>1. /\ orch \in [Slots -> OrchRows \cup {Nil}] /\ Slots = {"manual", "nightly"} /\ Nil \notin OrchRows
  BY RunAssumption DEF Types, DTypeOK, Slots
<1>2. CASE UNCHANGED base
  <2>1. ASSUME NEW t \in Slots, orch'[t] # Nil, orch'[t].at \in Before, orch'[t].result # "commit"
        PROVE  orch'[t].run \notin receipts
    <3>1. CASE UNCHANGED <<orch, lock>> \/ Tick
      BY <2>1, <3>1 DEF Fresh, Tick
    <3>2. ASSUME NEW s \in Slots, orch[s] # Nil, GoesOn(s) \/ Leaves(s) PROVE orch'[t].run \notin receipts
      <4>1. CASE Leaves(s)
        BY <1>1, <2>1, <4>1 DEF Leaves, Fresh
      <4>2. CASE GoesOn(s)
        <5>1. PICK p \in OrchRows : orch' = [orch EXCEPT ![s] = p] /\ Follows(orch[s], p)
          BY <4>2 DEF GoesOn
        <5>. QED
          BY <1>1, <2>1, <3>2, <5>1 DEF Follows, Fresh
      <4>. QED
        BY <3>2, <4>1, <4>2
    <3>3. CASE Launch
      <4>1. t = "manual" => disp.req \notin receipts /\ disp.at = "claimed" /\ orch["manual"] = Nil
        BY <3>3 DEF Launch, Identities
      <4>2. t = "manual" => orch'[t].run = disp.req
        BY <2>1, <4>1, RunsKept
      <4>3. t = "nightly" => orch'[t] = orch[t]
        <5>1. Begin("manual", disp.req) /\ disp.req \in Runs
          BY <3>3 DEF Launch, Identities, Runs
        <5>. QED
          BY <1>1, <5>1, Begins DEF Gone, Types
      <4>. QED
        BY <1>1, <2>1, <4>1, <4>2, <4>3 DEF Fresh
    <3>4. CASE Nightly
      <4>1. PICK n \in nights : Begin("nightly", n) /\ orch["nightly"] = Nil
        BY <3>4 DEF Nightly
      <4>2. n \in Runs /\ n \notin receipts
        BY <4>1 DEF Identities, Types, DTypeOK, Runs
      <4>3. t = "nightly" => orch'[t].run \in nights
        BY <2>1, <4>1, RunsKept
      <4>4. t = "manual" => orch'[t] = orch[t]
        BY <1>1, <4>1, <4>2, Begins DEF Gone, Types
      <4>. QED
        BY <1>1, <2>1, <4>3, <4>4 DEF Fresh, Identities
    <3>5. CASE Reboot
      BY <2>1, <3>5 DEF Reboot
    <3>. QED
      BY <3>1, <3>2, <3>3, <3>4, <3>5, Ways DEF Types
  <2>. QED
    BY <1>2, <2>1 DEF Fresh, base
<1>3. ASSUME NEW s \in Slots, orch[s] # Nil, Regenerate(s) \/ RegenerateUnheard(s) PROVE Fresh'
  <2>1. PICK p \in OrchRows : orch' = [orch EXCEPT ![s] = p] /\ p.at \notin Before
    <3>1. CASE Regenerate(s)
      <4>. DEFINE q == [orch[s] EXCEPT !.succeeded = TRUE, !.at = "query"]
      <4>1. orch[s] \in OrchRows
        BY <1>1, <1>3
      <4>2. q \in OrchRows /\ q.at = "query"
        BY <4>1 DEF OrchRows, Phases
      <4>3. orch' = [orch EXCEPT ![s] = q]
        BY <3>1 DEF Regenerate
      <4>. QED
        BY <4>2, <4>3 DEF Before
    <3>2. CASE RegenerateUnheard(s)
      BY <1>3, <3>2, EntersCleanup DEF RegenerateUnheard, Before, Types
    <3>. QED
      BY <1>3, <3>1, <3>2
  <2>2. receipts' = receipts \cup {orch[s].run}
    BY <1>3, Confirms
  <2>3. ASSUME NEW t \in Slots, t # s, orch[t] # Nil PROVE orch[t].run # orch[s].run
    BY <1>3, <2>3, RunsDiffer
  <2>. QED
    BY <1>1, <2>1, <2>2, <2>3 DEF Fresh
<1>. QED
  BY <1>2, <1>3, BaseSteps

-----------------------------------------------------------------------------
(* Media *)

(* Who is in a phase that needs the flock has it, and is where Window says. *)
LEMMA Holder ==
    ASSUME Types, Flock, WindowInv, NEW s \in Slots, orch[s] # Nil, orch[s].at \notin Released
    PROVE  lock = s /\ Window(orch[s]) /\ orch[s] \in OrchRows /\ orch[s].run \in Runs /\ orch[s].run # Nil
<1>1. lock = s /\ lock # Nil /\ orch[s] \in OrchRows
  BY RunAssumption DEF Flock, Types, DTypeOK
<1>2. orch[s].run \in Runs /\ orch[s].run # Nil
  BY <1>1, RunAssumption DEF OrchRows
<1>. QED
  BY <1>1, <1>2 DEF WindowInv

(* Before the transaction nothing is confirmed of the run. *)
LEMMA NotYet ==
    ASSUME Types, Flock, WindowInv, Fresh, NEW s \in Slots, orch[s] # Nil,
           orch[s].at \in {"state", "quarantine", "media root", "refresh"}
    PROVE  orch[s].run \notin receipts
<1>1. Window(orch[s])
  BY Holder DEF Released
<1>2. orch[s].result = "pending"
  BY <1>1 DEF Window
<1>. QED
  BY <1>2 DEF Fresh, Before

(* The generation is a number, and Nil is none. *)
LEMMA Numbers ==
    ASSUME Types PROVE generation \in Nat /\ generation # Nil /\ generation \in Generations
  BY FirstGeneration, RunAssumption DEF Types, DTypeOK

(* Where the media go, step by step. *)
LEMMA MediaMoves ==
    ASSUME Types, Flock, Identities, Fresh, WindowInv, MediaInv, NEW s \in Slots, orch[s] # Nil
    PROVE  /\ DropMedia(s) \/ RestoreMedia(s) \/ WriteState(s) \/ RemoveState(s) => Together'
           /\ EmptyMedia(s) => /\ disk.state = orch[s].run /\ orch[s].run \notin receipts
                               /\ disk.aside = generation
           /\ MoveMedia(s) => Together /\ disk.state = orch[s].run /\ orch[s].run \notin receipts
           /\ NewMedia(s) => /\ disk.state = orch[s].run /\ orch[s].run \notin receipts
                             /\ disk.aside = generation
<1>1. disk \in [state : Runs \cup {Nil}, marker : BOOLEAN, root : Generations \cup {Nil}, aside : Generations \cup {Nil}]
  BY DEF Types, DTypeOK
<1>2. generation # Nil
  BY Numbers
<1>3. ASSUME DropMedia(s) PROVE Together'
  <2>1. orch[s].at = "media" /\ orch[s].result = "commit" /\ disk' = [disk EXCEPT !.aside = Nil] /\ UNCHANGED base
    BY <1>3 DEF DropMedia
  <2>2. Window(orch[s])
    BY <2>1, Holder DEF Released
  <2>3. orch[s].run \in receipts /\ disk.state \in {Nil, orch[s].run}
    BY <2>1, <2>2 DEF Window
  <2>4. disk.root = generation
    BY <2>3 DEF MediaInv, Together
  <2>. QED
    BY <1>1, <2>1, <2>4 DEF Together, base
<1>4. ASSUME orch[s].at = "media", orch[s].result = "rollback"
      PROVE  disk.state \in {Nil, orch[s].run} /\ orch[s].run \notin receipts /\ (Together \/ disk.aside = generation)
  <2>1. Window(orch[s])
    BY <1>4, Holder DEF Released
  <2>2. orch[s].run \notin receipts /\ disk.state \in {Nil, orch[s].run}
    BY <1>4, <2>1 DEF Window
  <2>. QED
    BY <2>2 DEF MediaInv
<1>5. ASSUME RestoreMedia(s) PROVE Together'
  <2>1. /\ orch[s].at = "media" /\ orch[s].result = "rollback" /\ UNCHANGED base
        /\ \/ disk.aside = Nil /\ disk' = disk
           \/ disk.aside # Nil /\ disk' = [disk EXCEPT !.root = disk.aside, !.aside = Nil]
    BY <1>5 DEF RestoreMedia
  <2>. QED
    BY <1>1, <1>2, <1>4, <2>1 DEF Together, base
<1>6. ASSUME WriteState(s) PROVE Together'
  <2>1. orch[s].at = "state" /\ disk' = [disk EXCEPT !.state = orch[s].run] /\ UNCHANGED base
    BY <1>6 DEF WriteState
  <2>2. Together
    BY <2>1, Holder DEF Released, Window
  <2>. QED
    BY <1>1, <2>1, <2>2 DEF Together, base
<1>7. ASSUME RemoveState(s) PROVE Together'
  <2>1. orch[s].at = "remove" /\ disk' = [disk EXCEPT !.state = Nil] /\ UNCHANGED base
    BY <1>7 DEF RemoveState
  <2>2. Together
    BY <2>1, Holder DEF Released, Window
  <2>. QED
    BY <1>1, <2>1, <2>2 DEF Together, base
<1>8. ASSUME EmptyMedia(s)
      PROVE  disk.state = orch[s].run /\ orch[s].run \notin receipts /\ disk.aside = generation
  <2>1. orch[s].at = "media" /\ orch[s].result = "rollback" /\ disk.aside # Nil
    BY <1>8 DEF EmptyMedia
  <2>2. disk.state # Nil
    BY <2>1 DEF MediaInv, Together
  <2>. QED
    BY <1>4, <2>1, <2>2 DEF Together
<1>9. ASSUME MoveMedia(s) PROVE Together /\ disk.state = orch[s].run /\ orch[s].run \notin receipts
  <2>1. orch[s].at = "quarantine"
    BY <1>9 DEF MoveMedia
  <2>. QED
    BY <2>1, Holder, NotYet DEF Released, Window
<1>10. ASSUME NewMedia(s) PROVE disk.state = orch[s].run /\ orch[s].run \notin receipts /\ disk.aside = generation
  <2>1. orch[s].at = "media root"
    BY <1>10 DEF NewMedia
  <2>. QED
    BY <2>1, Holder, NotYet DEF Released, Window
<1>. QED
  BY <1>3, <1>5, <1>6, <1>7, <1>8, <1>9, <1>10

LEMMA MediaStep ==
    ASSUME Types, Flock, Identities, Fresh, WindowInv, MediaInv, [DNext]_demovars PROVE MediaInv'
<1>1. /\ disk \in [state : Runs \cup {Nil}, marker : BOOLEAN, root : Generations \cup {Nil}, aside : Generations \cup {Nil}]
      /\ Nil \notin Runs
  BY RunAssumption DEF Types, DTypeOK
<1>2. CASE UNCHANGED <<disk, base>>
  BY <1>2 DEF MediaInv, Together, base
<1>3. ASSUME NEW s \in Slots, orch[s] # Nil, Regenerate(s) \/ RegenerateUnheard(s) PROVE MediaInv'
  <2>1. orch[s].at = "refresh"
    BY <1>3, Confirms
  <2>2. disk.root = generation + 1
    BY <1>3, <2>1, Holder DEF Released, Window
  <2>. QED
    BY <1>1, <1>3, <2>2, Confirms DEF MediaInv
<1>4. ASSUME NEW s \in Slots, orch[s] # Nil, DropMedia(s) \/ RestoreMedia(s) \/ WriteState(s) \/ RemoveState(s) PROVE MediaInv'
  BY <1>4, MediaMoves DEF MediaInv
<1>5. ASSUME NEW s \in Slots, orch[s] # Nil, MoveMedia(s) PROVE MediaInv'
  <2>1. disk' = [disk EXCEPT !.aside = disk.root, !.root = Nil] /\ UNCHANGED base
    BY <1>5 DEF MoveMedia
  <2>2. disk.root = generation /\ disk.state \in Runs /\ disk.state \notin receipts
    BY <1>5, MediaMoves, <1>1 DEF Together, Types, DTypeOK, OrchRows
  <2>. QED
    BY <1>1, <2>1, <2>2 DEF MediaInv, base
<1>6. ASSUME NEW s \in Slots, orch[s] # Nil, NewMedia(s) \/ EmptyMedia(s) PROVE MediaInv'
  <2>1. /\ UNCHANGED base
        /\ \/ disk' = [disk EXCEPT !.root = generation + 1]
           \/ disk' = [disk EXCEPT !.root = Nil]
    BY <1>6 DEF NewMedia, EmptyMedia
  <2>2. disk.aside = generation /\ disk.state \in Runs /\ disk.state \notin receipts
    BY <1>6, MediaMoves, <1>1 DEF Types, DTypeOK, OrchRows
  <2>. QED
    BY <1>1, <2>1, <2>2 DEF MediaInv, base
<1>7. ASSUME NEW s \in Slots, orch[s] # Nil, GiveUp(s) \/ TimersFail(s) PROVE MediaInv'
  <2>1. disk' = [disk EXCEPT !.marker = TRUE] /\ UNCHANGED base
    BY <1>7 DEF GiveUp, TimersFail, Surrender
  <2>. QED
    BY <1>1, <2>1 DEF MediaInv, Together, base
<1>. QED
  BY <1>2, <1>3, <1>4, <1>5, <1>6, <1>7, BaseSteps, DiskSteps

-----------------------------------------------------------------------------
(* The phases *)

(* A change of phase leaves the run and the verdict. *)
LEMMA Turns ==
    ASSUME Types, NEW s \in Slots, orch[s] # Nil, NEW phase \in Phases, To(s, phase)
    PROVE  orch'[s].at = phase /\ orch'[s].run = orch[s].run /\ orch'[s].result = orch[s].result
<1>1. orch[s] \in OrchRows /\ orch \in [Slots -> OrchRows \cup {Nil}]
  BY DEF Types, DTypeOK
<1>. QED
  BY <1>1 DEF To, OrchRows

(* What the orchestrator that holds the flock does next leaves it in the next row of Window. *)
LEMMA HolderStep ==
    ASSUME Types, Flock, Identities, Fresh, WindowInv, MediaInv,
           NEW s \in Slots, lock = s, lock' = s, OrchStep(s)
    PROVE  Window(orch[s])'
<1>1. /\ orch[s] \in OrchRows /\ orch[s] # Nil /\ orch \in [Slots -> OrchRows \cup {Nil}] /\ s # Nil
      /\ Window(orch[s]) /\ orch[s].at \notin Released /\ orch[s].run \in Runs
  <2>1. orch[s] # Nil /\ s # Nil /\ lock # Nil
    BY RunAssumption DEF OrchStep
  <2>2. orch[s].at \notin Released
    BY <2>1 DEF Flock
  <2>. QED
    BY <2>1, <2>2, Holder DEF Types, DTypeOK
<1>2. ASSUME NEW phase \in Phases, To(s, phase)
      PROVE  orch'[s].at = phase /\ orch'[s].run = orch[s].run /\ orch'[s].result = orch[s].result
  BY <1>1, <1>2, Turns
<1>3. /\ disk \in [state : Runs \cup {Nil}, marker : BOOLEAN, root : Generations \cup {Nil}, aside : Generations \cup {Nil}]
      /\ tokens \in [backup : Runs \cup {Nil}, rearm : Runs \cup {Nil}]
      /\ units \in UnitRows
  BY DEF Types, DTypeOK, UnitRows
<1>4. CASE Preflight(s)
  <2>1. orch[s].at = "preflight"
    BY <1>4 DEF Preflight
  <2>2. CASE Ready
    <3>1. To(s, "quiesce") /\ "quiesce" \in Phases /\ UNCHANGED <<base, disk, tokens, units>> /\ disk.state = Nil /\ tokens.rearm = Nil
      BY <1>4, <2>2 DEF Preflight, Phases, Ready, Clean
    <3>2. Together
      BY <3>1 DEF MediaInv
    <3>. QED
      BY <1>1, <1>2, <2>1, <3>1, <3>2 DEF Window, Together, Phases, base
  <2>3. CASE ~Ready
    BY <1>1, <1>4, <2>1, <2>3 DEF Preflight, Trips, Untrapped, Gone, Freed
  <2>. QED
    BY <2>2, <2>3
<1>5. CASE StopTimers(s)
  <2>1. To(s, "drain") /\ "drain" \in Phases
    BY <1>5 DEF StopTimers, Phases
  <2>. QED
    BY <1>1, <1>2, <1>3, <1>5, <2>1 DEF StopTimers, Window, Together, Phases, base
<1>6. CASE StopGunicorn(s)
  <2>1. /\ To(s, "backup") /\ "backup" \in Phases /\ orch[s].at = "drain"
        /\ units' = [units EXCEPT !.gunicorn = FALSE] /\ ~units.job /\ units.copy # "running"
        /\ UNCHANGED <<base, disk, tokens>>
    BY <1>6 DEF StopGunicorn, Phases, Quiet
  <2>2. ~units'.gunicorn /\ ~units'.job /\ units'.copy # "running"
    BY <1>3, <2>1 DEF UnitRows
  <2>. QED
    BY <1>1, <1>2, <2>1, <2>2 DEF Window, Together, Phases, base
<1>7. CASE StartCopy(s)
  <2>1. /\ To(s, "copying") /\ "copying" \in Phases /\ orch[s].at = "backup" /\ UNCHANGED <<base, disk>>
    BY <1>7 DEF StartCopy, Phases
  <2>2. /\ units'.gunicorn = units.gunicorn /\ units'.job = units.job /\ tokens'.rearm = tokens.rearm
    BY <1>3, <1>7 DEF StartCopy, UnitRows
  <2>. QED
    BY <1>1, <1>2, <2>1, <2>2 DEF Window, Together, Phases, base
<1>8. CASE WriteState(s)
  <2>1. To(s, "quarantine") /\ "quarantine" \in Phases
    BY <1>8 DEF WriteState, Phases
  <2>. QED
    BY <1>1, <1>2, <1>3, <1>8, <2>1 DEF WriteState, Window, Together, Phases, base
<1>9. CASE MoveMedia(s)
  <2>1. To(s, "media root") /\ "media root" \in Phases
    BY <1>9 DEF MoveMedia, Phases
  <2>. QED
    BY <1>1, <1>2, <1>3, <1>9, <2>1 DEF MoveMedia, Window, Together, Phases, base
<1>10. CASE NewMedia(s)
  <2>1. To(s, "refresh") /\ "refresh" \in Phases
    BY <1>10 DEF NewMedia, Phases
  <2>. QED
    BY <1>1, <1>2, <1>3, <1>10, <2>1 DEF NewMedia, Window, Together, Phases, base
<1>11. CASE RemoveState(s)
  <2>1. To(s, "finish") /\ "finish" \in Phases
    BY <1>11 DEF RemoveState, Phases
  <2>. QED
    BY <1>1, <1>2, <1>3, <1>11, <2>1 DEF RemoveState, Window, Together, Phases, base
<1>12. CASE Rearm(s)
  <2>1. To(s, "postflight") /\ "postflight" \in Phases
    BY <1>12 DEF Rearm, Phases
  <2>. QED
    BY <1>1, <1>2, <1>3, <1>12, <2>1 DEF Rearm, Window, Together, Phases, base
<1>13. CASE Postflight(s)
  <2>1. To(s, "unlock") /\ "unlock" \in Phases
    BY <1>13 DEF Postflight, Phases
  <2>. QED
    BY <1>1, <1>2, <1>3, <1>13, <2>1 DEF Postflight, Window, Together, Phases, base
<1>14. CASE CopyEnds(s)
  <2>1. orch[s].at = "copying" /\ UNCHANGED <<base, disk>> /\ units'.copy = "none" /\ tokens'.rearm = tokens.rearm
        /\ units'.gunicorn = units.gunicorn /\ units'.job = units.job
    BY <1>3, <1>14 DEF CopyEnds, UnitRows
  <2>2. CASE orch[s].result = "commit"
    <3>1. To(s, "remove") /\ "remove" \in Phases
      BY <1>14, <2>2 DEF CopyEnds, Phases
    <3>. QED
      BY <1>1, <1>2, <2>1, <2>2, <3>1 DEF Window, Together, Phases, base
  <2>3. CASE orch[s].result # "commit"
    <3>1. To(s, "state") /\ "state" \in Phases
      BY <1>14, <2>3 DEF CopyEnds, Phases
    <3>2. orch[s].result = "pending"
      BY <1>1, <2>1, <2>3 DEF Window, OrchRows
    <3>. QED
      BY <1>1, <1>2, <2>1, <3>1, <3>2 DEF Window, Together, Phases, base
  <2>. QED
    BY <2>2, <2>3
<1>15. CASE Regenerate(s)
  <2>. DEFINE q == [orch[s] EXCEPT !.succeeded = TRUE, !.at = "query"]
  <2>1. q.at = "query" /\ q.run = orch[s].run
    BY <1>1 DEF OrchRows
  <2>2. orch'[s] = q
    BY <1>1, <1>15 DEF Regenerate
  <2>3. orch[s].at = "refresh" /\ UNCHANGED <<disk, tokens, units>>
    BY <1>15 DEF Regenerate, Regenerates
  <2>. QED
    BY <1>1, <2>1, <2>2, <2>3 DEF Window, Phases
<1>16. CASE Query(s)
  <2>. DEFINE q == [orch[s] EXCEPT !.at = "media", !.result = Verdict(s)]
  <2>1. q.at = "media" /\ q.run = orch[s].run /\ q.result = Verdict(s)
    BY <1>1 DEF OrchRows
  <2>2. orch'[s] = q
    BY <1>1, <1>16 DEF Query
  <2>3. orch[s].at = "query" /\ UNCHANGED <<disk, tokens, units, base>>
    BY <1>16 DEF Query
  <2>4. Verdict(s) = IF orch[s].run \in receipts THEN "commit" ELSE "rollback"
    BY <1>16 DEF Query, Verdict
  <2>. QED
    BY <1>1, <2>1, <2>2, <2>3, <2>4 DEF Window, Phases, base
<1>17. CASE DropMedia(s)
  <2>1. To(s, "backup") /\ "backup" \in Phases /\ orch[s].at = "media" /\ orch[s].result = "commit"
        /\ disk'.state = disk.state /\ UNCHANGED <<base, tokens, units>>
    BY <1>3, <1>17 DEF DropMedia, Phases
  <2>2. Together'
    BY <1>1, <1>17, MediaMoves
  <2>. QED
    BY <1>1, <1>2, <2>1, <2>2 DEF Window, Phases
<1>18. CASE EmptyMedia(s)
  <2>1. UNCHANGED <<orch, base, tokens, units>> /\ orch[s].at = "media" /\ disk'.state = disk.state
    BY <1>3, <1>18 DEF EmptyMedia
  <2>. QED
    BY <1>1, <2>1 DEF Window, Phases, base
<1>19. CASE RestoreMedia(s)
  <2>1. To(s, "remove") /\ "remove" \in Phases /\ orch[s].at = "media"
        /\ disk'.state = disk.state /\ UNCHANGED <<base, tokens, units>>
    BY <1>3, <1>19 DEF RestoreMedia, Phases
  <2>2. Together'
    BY <1>1, <1>19, MediaMoves
  <2>. QED
    BY <1>1, <1>2, <2>1, <2>2 DEF Window, Phases
<1>20. CASE FinishReconciling(s)
  <2>. DEFINE q == [orch[s] EXCEPT !.finished = TRUE,
                       !.at = IF orch[s].exiting /\ orch[s].result = "commit" THEN "give up" ELSE "rearm"]
  <2>1. q.at \in {"give up", "rearm"} /\ q.run = orch[s].run
    BY <1>1 DEF OrchRows
  <2>2. orch'[s] = q
    BY <1>1, <1>20 DEF FinishReconciling
  <2>3. orch[s].at = "finish" /\ UNCHANGED <<disk, tokens, units>>
    BY <1>20 DEF FinishReconciling
  <2>. QED
    BY <1>1, <2>1, <2>2, <2>3 DEF Window, Phases
<1>21. CASE Unlock(s) \/ GiveUp(s)
  BY <1>1, <1>21 DEF Unlock, GiveUp, Surrender, Gone, Freed
<1>22. CASE StartTimers(s) \/ Ends(s) \/ TimersFail(s)
  BY <1>1, <1>22 DEF StartTimers, Ends, TimersFail, Released
<1>23. ASSUME orch' = Cleaning(s), disk' = disk, orch[s].at # "preflight" PROVE Window(orch[s])'
  <2>1. PICK p \in OrchRows : /\ Cleaning(s) = [orch EXCEPT ![s] = p] /\ p.run = orch[s].run
                              /\ p.at \in {"cleanup", "give up"}
    BY <1>1, EntersCleanup DEF Types
  <2>2. orch'[s] = p
    BY <1>1, <1>23, <2>1
  <2>. QED
    BY <1>1, <1>23, <2>1, <2>2 DEF Window, Phases
<1>24. CASE RegenerateUnheard(s)
  BY <1>23, <1>24 DEF RegenerateUnheard, Regenerates
<1>25. CASE Errs(s)
  <2>1. CASE orch[s].at \in Untrapped
    BY <1>1, <1>25, <2>1 DEF Errs, Trips, Gone, Freed
  <2>2. CASE orch[s].at \notin Untrapped
    BY <1>23, <1>25, <2>2 DEF Errs, Trips, Untrapped
  <2>. QED
    BY <2>1, <2>2
<1>26. CASE Cleanup(s)
  <2>1. /\ To(s, AfterCleanup(s)) /\ AfterCleanup(s) \in {"give up", "rearm", "query"} /\ AfterCleanup(s) \in Phases
        /\ orch[s].at = "cleanup" /\ disk' = disk /\ tokens'.rearm = Nil
    BY <1>26 DEF Cleanup, AfterCleanup, Phases
  <2>2. orch'[s].at = AfterCleanup(s) /\ orch'[s].run = orch[s].run
    BY <1>2, <2>1
  <2>3. /\ ~Stopped(units).gunicorn /\ ~Stopped(units).job /\ Stopped(units).copy # "running"
    BY <1>3 DEF UnitRows, Stopped
  <2>4. AfterCleanup(s) = "query" => ~units'.gunicorn /\ ~units'.job /\ units'.copy # "running"
    BY <1>26, <2>3 DEF Cleanup, AfterCleanup, NeedsReconciling
  <2>5. AfterCleanup(s) = "rearm" => units'.copy # "running"
    BY <1>26, <2>3 DEF Cleanup, AfterCleanup, Quiet
  <2>. QED
    BY <1>1, <2>1, <2>2, <2>4, <2>5 DEF Window, Phases
<1>. QED
  BY <1>4, <1>5, <1>6, <1>7, <1>8, <1>9, <1>10, <1>11, <1>12, <1>13, <1>14, <1>15, <1>16, <1>17, <1>18, <1>19, <1>20, <1>21, <1>22, <1>24, <1>25, <1>26 DEF OrchStep, Advances, Recovers

(* What leaves its row, the database, the media and its token alone, and starts no copy *)
(* and no writer that the token does not let pass, does not disturb the holder. *)
LEMMA Undisturbed ==
    ASSUME NEW t \in Slots, Window(orch[t]), orch'[t] = orch[t], UNCHANGED base,
           disk'.state = disk.state, disk'.root = disk.root, disk'.aside = disk.aside, tokens'.rearm = tokens.rearm,
           units'.copy = "running" => units.copy = "running",
           units'.gunicorn \/ units'.job => units.gunicorn \/ units.job \/ tokens.rearm # Nil
    PROVE  Window(orch[t])'
  BY DEF Window, Together, Phases, base

(* An orchestrator without the flock only starts the timers or stops units. *)
LEMMA OthersStep ==
    ASSUME Types, Flock, NEW s \in Slots, OrchStep(s), lock # s
    PROVE  /\ lock' = lock /\ UNCHANGED base /\ UNCHANGED tokens
           /\ \A t \in Slots : t # s => orch'[t] = orch[t]
           /\ disk'.state = disk.state /\ disk'.root = disk.root /\ disk'.aside = disk.aside
           /\ units'.copy = "running" => units.copy = "running"
           /\ units'.gunicorn \/ units'.job => units.gunicorn \/ units.job
<1>1. orch[s] # Nil /\ orch[s].at \in {"timers", "watch"}
  BY DEF OrchStep, Flock, Released
<1>2. StartTimers(s) \/ Ends(s) \/ TimersFail(s) \/ Errs(s)
    BY <1>1 DEF OrchStep, Advances, Recovers, Preflight, StopTimers, StopGunicorn, StartCopy, CopyEnds, WriteState,
           MoveMedia, NewMedia, Regenerate, RegenerateUnheard, Regenerates, Query, DropMedia, EmptyMedia, RestoreMedia,
           RemoveState, FinishReconciling, Rearm, Postflight, Unlock, Cleanup, GiveUp
<1>3. /\ disk \in [state : Runs \cup {Nil}, marker : BOOLEAN, root : Generations \cup {Nil}, aside : Generations \cup {Nil}]
      /\ units \in UnitRows
  BY DEF Types, DTypeOK, UnitRows
<1>4. orch \in [Slots -> OrchRows \cup {Nil}]
  BY DEF Types, DTypeOK
<1>5. CASE StartTimers(s)
  BY <1>3, <1>4, <1>5 DEF StartTimers, To, UnitRows
<1>6. CASE Ends(s)
  BY <1>4, <1>6 DEF Ends, Gone, Freed
<1>7. CASE TimersFail(s)
  <2>1. ~Stopped(units).gunicorn /\ ~Stopped(units).job /\ Stopped(units).copy # "running"
    BY <1>3 DEF UnitRows, Stopped
  <2>. QED
    BY <1>3, <1>4, <1>7, <2>1 DEF TimersFail, Surrender, Gone, Freed
<1>8. CASE Errs(s)
  <2>1. Gone(s, "failed") /\ UNCHANGED <<base, disk, units, tokens>>
    BY <1>1, <1>8 DEF Errs, Trips, Untrapped
  <2>. QED
    BY <1>4, <2>1 DEF Gone, Freed
<1>. QED
  BY <1>2, <1>5, <1>6, <1>7, <1>8

LEMMA WindowStep ==
    ASSUME Types, Flock, Identities, Fresh, WindowInv, MediaInv, [DNext]_demovars PROVE WindowInv'
<1>0. SUFFICES ASSUME lock' # Nil PROVE Window(orch[lock])'
  BY DEF WindowInv
<1>1. /\ orch \in [Slots -> OrchRows \cup {Nil}] /\ Slots = {"manual", "nightly"} /\ Nil \notin OrchRows
      /\ lock \in Slots \cup {Nil} /\ Nil \notin Slots
      /\ lock # Nil => Window(orch[lock]) /\ orch[lock] # Nil /\ orch[lock].at \notin {"timers", "watch"}
      /\ units \in UnitRows
  BY RunAssumption DEF Types, DTypeOK, Slots, WindowInv, Flock, Released, UnitRows
<1>2. ASSUME lock' = lock, orch'[lock] = orch[lock], UNCHANGED <<base, disk, tokens>>,
             units'.copy = "running" => units.copy = "running",
             units'.gunicorn \/ units'.job => units.gunicorn \/ units.job \/ tokens.rearm # Nil
      PROVE  Window(orch[lock])'
  <2>1. PICK t \in Slots : lock = t /\ lock' = t
    BY <1>0, <1>1, <1>2
  <2>2. Window(orch[t])'
    BY <1>0, <1>1, <1>2, <2>1, Undisturbed
  <2>. QED
    BY <2>1, <2>2
<1>3. ASSUME NEW s \in Slots, OrchStep(s) PROVE Window(orch[lock])'
  <2>1. CASE lock = s
    <3>1. lock' = s
      BY <1>0, <1>3, <2>1, OrchSteps DEF GoesOn, Leaves, Freed, Types
    <3>2. Window(orch[s])'
      BY <1>3, <2>1, <3>1, HolderStep
    <3>. QED
      BY <3>1, <3>2
  <2>2. CASE lock # s
    <3>1. PICK t \in Slots : lock = t /\ lock' = t /\ t # s
      BY <1>0, <1>1, <1>3, <2>2, OthersStep
    <3>2. Window(orch[t])'
      BY <1>1, <1>3, <2>2, <3>1, OthersStep, Undisturbed
    <3>. QED
      BY <3>1, <3>2
  <2>. QED
    BY <2>1, <2>2
<1>4. ASSUME NEW s \in Slots, NEW r \in Runs, Begin(s, r), orch[s] = Nil, UNCHANGED <<base, disk, tokens, units>>
      PROVE  Window(orch[lock])'
  <2>1. CASE lock # Nil /\ Gone(s, "failed")
    <3>1. lock' = lock /\ orch'[lock] = orch[lock]
      BY <1>1, <1>4, <2>1 DEF Gone, Freed
    <3>. QED
      BY <1>2, <1>4, <3>1
  <2>2. CASE ~(lock # Nil /\ Gone(s, "failed"))
    <3>1. lock' = s /\ \E p \in OrchRows : orch' = [orch EXCEPT ![s] = p] /\ p.at = "preflight" /\ p.result = "pending"
      BY <1>4, <2>2, Begins DEF Types
    <3>2. orch'[lock'].at = "preflight" /\ orch'[lock'].result = "pending"
      BY <1>1, <3>1
    <3>. QED
      BY <3>2 DEF Window, Phases
  <2>. QED
    BY <2>1, <2>2
<1>5. CASE Launch
  BY <1>1, <1>4, <1>5 DEF Launch, Identities, Runs
<1>6. CASE Nightly
  BY <1>1, <1>4, <1>6 DEF Nightly, Types, DTypeOK, Runs
<1>7. ASSUME NEW s \in Slots, Kill(s) PROVE Window(orch[lock])'
  <2>1. lock' = lock /\ orch'[lock] = orch[lock] /\ UNCHANGED <<base, disk, tokens, units>>
    BY <1>0, <1>1, <1>7 DEF Kill, Gone, Freed
  <2>. QED
    BY <1>2, <2>1
<1>8. CASE DispatcherStopped
  <2>1. UNCHANGED <<base, disk, tokens, units>>
    BY <1>8 DEF DispatcherStopped
  <2>2. CASE orch["manual"] = Nil
    BY <1>2, <1>8, <2>1, <2>2 DEF DispatcherStopped
  <2>3. CASE orch["manual"] # Nil /\ (orch["manual"].at \in Untrapped \/ orch["manual"].exiting)
    <3>1. lock' = lock /\ orch'[lock] = orch[lock]
      BY <1>0, <1>1, <1>8, <2>3 DEF DispatcherStopped, Freed
    <3>. QED
      BY <1>2, <2>1, <3>1
  <2>4. CASE orch["manual"] # Nil /\ orch["manual"].at \notin Untrapped /\ ~orch["manual"].exiting
    <3>1. orch' = Cleaning("manual") /\ lock' = lock
      BY <1>8, <2>4 DEF DispatcherStopped
    <3>2. lock = "manual" /\ Window(orch["manual"]) /\ orch["manual"].at # "preflight"
      BY <1>1, <2>4, Holder DEF Untrapped, Released
    <3>3. PICK p \in OrchRows : /\ Cleaning("manual") = [orch EXCEPT !["manual"] = p] /\ p.run = orch["manual"].run
                                /\ p.at \in {"cleanup", "give up"}
      BY <1>1, <2>4, EntersCleanup DEF Types
    <3>4. orch'[lock'] = p
      BY <1>1, <3>1, <3>2, <3>3
    <3>. QED
      BY <2>1, <3>2, <3>3, <3>4 DEF Window, Phases
  <2>. QED
    BY <2>2, <2>3, <2>4
<1>9. CASE Reboot
  BY <1>0, <1>9 DEF Reboot
<1>10. CASE Systemd
  <2>1. UNCHANGED <<orch, lock, base, disk, tokens>>
    BY <1>10 DEF Systemd, StartGunicorn, StartJob, EndJob, Copy, CopyFails
  <2>2. /\ units'.copy = "running" => units.copy = "running"
        /\ units'.gunicorn \/ units'.job => units.gunicorn \/ units.job \/ tokens.rearm # Nil
    <3>1. CASE StartGunicorn \/ StartJob
      <4>1. tokens.rearm # Nil
        BY <1>0, <2>1, <3>1 DEF StartGunicorn, StartJob, AllowsWriters
      <4>2. units'.copy = units.copy
        BY <1>1, <3>1 DEF StartGunicorn, StartJob, UnitRows
      <4>. QED
        BY <4>1, <4>2
    <3>2. CASE EndJob \/ Copy \/ CopyFails
      BY <1>1, <3>2 DEF EndJob, Copy, CopyFails, UnitRows
    <3>. QED
      BY <1>10, <3>1, <3>2 DEF Systemd
  <2>. QED
    BY <1>2, <2>1, <2>2
<1>11. CASE \/ UNCHANGED demovars \/ Tick \/ Finalize \/ FinalizeTimesOut \/ \E r \in Requests : Ask(r) \/ Expire(r)
  <2>1. UNCHANGED <<orch, lock, base, disk, tokens, units>>
    BY <1>11 DEF demovars, base, Tick, Finalize, FinalizeTimesOut, Ask, Expire
  <2>. QED
    BY <1>2, <2>1
<1>. QED
  BY <1>3, <1>5, <1>6, <1>7, <1>8, <1>9, <1>10, <1>11 DEF DNext, Dispatch, Fault

-----------------------------------------------------------------------------
(* Copies, writers and requests *)

(* The media move only while no copy runs and no writer does. *)
LEMMA MovesInTheQuiet ==
    ASSUME Types, Flock, Identities, Fresh, WindowInv, MediaInv, [DNext]_demovars,
           disk'.root # disk.root \/ disk'.aside # disk.aside \/ ~UNCHANGED base
    PROVE  ~units.gunicorn /\ ~units.job /\ units.copy # "running" /\ UNCHANGED units
<1>0. disk \in [state : Runs \cup {Nil}, marker : BOOLEAN, root : Generations \cup {Nil}, aside : Generations \cup {Nil}]
  BY DEF Types, DTypeOK
<1>1. ASSUME NEW s \in Slots, orch[s] # Nil, orch[s].at \in {"quarantine", "media root", "refresh", "media"}
      PROVE  ~units.gunicorn /\ ~units.job /\ units.copy # "running"
  BY <1>1, Holder DEF Window, Released, Phases
<1>2. CASE ~UNCHANGED base
  <2>1. PICK s \in Slots : orch[s] # Nil /\ (Regenerate(s) \/ RegenerateUnheard(s))
    BY <1>2, BaseSteps
  <2>. QED
    BY <1>1, <2>1, Confirms
<1>3. CASE disk'.root # disk.root \/ disk'.aside # disk.aside
  <2>1. PICK s \in Slots : orch[s] # Nil /\ (MoveMedia(s) \/ NewMedia(s) \/ DropMedia(s) \/ EmptyMedia(s) \/ RestoreMedia(s))
    BY <1>0, <1>3, DiskSteps DEF WriteState, RemoveState, GiveUp, TimersFail, Surrender
  <2>2. orch[s].at \in {"quarantine", "media root", "media"} /\ UNCHANGED units
    BY <2>1 DEF MoveMedia, NewMedia, DropMedia, EmptyMedia, RestoreMedia
  <2>. QED
    BY <1>1, <2>1, <2>2
<1>. QED
  BY <1>2, <1>3

LEMMA CopyStep ==
    ASSUME Types, Flock, Identities, Fresh, WindowInv, MediaInv, CopyInv, [DNext]_demovars PROVE CopyInv'
<1>1. units \in UnitRows
  BY DEF Types, DTypeOK, UnitRows
<1>2. ASSUME units'.copy = "running" PROVE units'.dump = disk'.root
  <2>1. CASE disk'.root # disk.root
    BY <1>2, <2>1, MovesInTheQuiet
  <2>2. CASE disk'.root = disk.root
    <3>1. CASE UNCHANGED units
      BY <1>2, <2>2, <3>1 DEF CopyInv
    <3>2. CASE StartGunicorn \/ StartJob \/ EndJob \/ Copy \/ CopyFails \/ Reboot
      BY <1>1, <1>2, <2>2, <3>2 DEF CopyInv, StartGunicorn, StartJob, EndJob, Copy, CopyFails, Reboot, UnitRows
    <3>3. ASSUME NEW s \in Slots, orch[s] # Nil, StartCopy(s) PROVE units'.dump = disk'.root
      <4>1. orch[s].at = "backup" /\ units'.dump = generation
        BY <1>1, <3>3 DEF StartCopy, UnitRows
      <4>2. Together
        BY <3>3, <4>1, Holder DEF Window, Released
      <4>. QED
        BY <2>2, <4>1, <4>2 DEF Together
    <3>4. Stopped(units).copy # "running"
      BY <1>1 DEF UnitRows, Stopped
    <3>5. ASSUME NEW s \in Slots, StopTimers(s) \/ StopGunicorn(s) \/ CopyEnds(s) \/ Rearm(s) \/ StartTimers(s)
          PROVE  units'.dump = disk'.root
      BY <1>1, <1>2, <2>2, <3>5 DEF CopyInv, StopTimers, StopGunicorn, CopyEnds, Rearm, StartTimers, UnitRows
    <3>6. ASSUME NEW s \in Slots, Cleanup(s) \/ GiveUp(s) \/ TimersFail(s) PROVE units'.dump = disk'.root
      BY <1>2, <2>2, <3>1, <3>4, <3>6 DEF Cleanup, GiveUp, TimersFail, Surrender
    <3>. QED
      BY <3>1, <3>2, <3>3, <3>5, <3>6, UnitSteps
  <2>. QED
    BY <2>1, <2>2
<1>3. \A c \in copies' : c[1] = c[2]
  BY CopySteps DEF Copy, CopyInv
<1>. QED
  BY <1>2, <1>3 DEF CopyInv

(* Whoever starts a writer has passed the guard, or is a reboot of a clean disk. *)
LEMMA WritersStep ==
    ASSUME Types, Flock, Identities, Fresh, WindowInv, MediaInv, WritersSeeOneGeneration, [DNext]_demovars
    PROVE  WritersSeeOneGeneration'
<1>1. units \in UnitRows
  BY DEF Types, DTypeOK, UnitRows
<1>2. CASE disk'.root # disk.root \/ disk'.aside # disk.aside \/ ~UNCHANGED base
  BY <1>2, MovesInTheQuiet DEF WritersSeeOneGeneration
<1>3. CASE disk'.root = disk.root /\ disk'.aside = disk.aside /\ UNCHANGED base
  <2>1. disk.state = Nil => Together
    BY DEF MediaInv
  <2>2. ASSUME (units'.gunicorn \/ units'.job) /\ ~(units.gunicorn \/ units.job) PROVE disk.state = Nil
    <3>1. Stopped(units).gunicorn = FALSE /\ Stopped(units).job = FALSE
      BY <1>1 DEF UnitRows, Stopped
    <3>2. CASE UNCHANGED units
      BY <2>2, <3>2
    <3>3. ASSUME StartGunicorn \/ StartJob \/ Reboot PROVE disk.state = Nil
      <4>1. CASE StartGunicorn \/ StartJob
        BY <4>1 DEF StartGunicorn, StartJob, AllowsWriters, Clean
      <4>2. CASE Reboot
        <5>1. units'.job = FALSE /\ units'.gunicorn = (Sound /\ disk.state = Nil /\ disk.aside = Nil)
          BY <4>2 DEF Reboot
        <5>. QED
          BY <2>2, <5>1, Zenon
      <4>. QED
        BY <3>3, <4>1, <4>2
    <3>4. CASE EndJob \/ Copy \/ CopyFails
      BY <1>1, <2>2, <3>4 DEF EndJob, Copy, CopyFails, UnitRows
    <3>5. ASSUME NEW s \in Slots, Rearm(s) PROVE disk.state = Nil
      BY <3>5 DEF Rearm, AllowsWriters, Clean
    <3>6. ASSUME NEW s \in Slots, StopTimers(s) \/ StopGunicorn(s) \/ StartCopy(s) \/ CopyEnds(s) \/ StartTimers(s)
          PROVE  disk.state = Nil
      BY <1>1, <2>2, <3>6 DEF StopTimers, StopGunicorn, StartCopy, CopyEnds, StartTimers, UnitRows
    <3>7. ASSUME NEW s \in Slots, Cleanup(s) \/ GiveUp(s) \/ TimersFail(s) PROVE disk.state = Nil
      BY <2>2, <3>1, <3>7 DEF Cleanup, GiveUp, TimersFail, Surrender
    <3>. QED
      BY <3>2, <3>3, <3>4, <3>5, <3>6, <3>7, UnitSteps
  <2>. QED
    BY <1>3, <2>1, <2>2 DEF WritersSeeOneGeneration, Together, base
<1>. QED
  BY <1>2, <1>3

LEMMA RequestsTruthStep ==
    ASSUME Types, Flock, Identities, RequestsTellTheTruth, [DNext]_demovars PROVE RequestsTellTheTruth'
<1>1. requests \in [Requests -> [status : {"none", "pending", "processing", "completed", "failed"}, code : Codes]]
  BY DEF Types, DTypeOK
<1>2. ASSUME NEW s \in Slots, orch[s] # Nil, Regenerate(s) \/ RegenerateUnheard(s) PROVE RequestsTellTheTruth'
  <2>1. /\ receipts' = receipts \cup {orch[s].run} /\ requests' = requests
        /\ \A r \in Requests : r = orch[s].run => requests[r].status = "processing"
    BY <1>2, Confirms, RunAssumption DEF Identities, Slots
  <2>. QED
    BY <2>1 DEF RequestsTellTheTruth, Identities
<1>3. CASE UNCHANGED base
  <2>1. CASE UNCHANGED <<requests, stale>>
    BY <1>3, <2>1 DEF RequestsTellTheTruth, base
  <2>2. CASE Tick
    BY <1>1, <1>3, <2>2 DEF Tick, Claimed, Active, Close, RequestsTellTheTruth, base, Identities
  <2>3. CASE Finalize
    <3>1. disp.req \in Requests
      BY <2>3 DEF Finalize, Identities
    <3>2. PICK status \in {"completed", "failed"}, code \in {"", "orchestrator_failed", "runtime_recovery_required"} :
             Close(disp.req, status, code) /\ (status = "completed" => disp.req \in receipts)
      BY <2>3 DEF Finalize
    <3>. QED
      BY <1>1, <1>3, <3>1, <3>2 DEF Close, RequestsTellTheTruth, base
  <2>4. ASSUME NEW r \in Requests, Ask(r) \/ Expire(r) PROVE RequestsTellTheTruth'
    <3>1. \/ requests' = requests
          \/ requests[r].status = "none" /\ requests' = [requests EXCEPT ![r].status = "pending"]
      BY <2>4 DEF Ask, Expire
    <3>. QED
      BY <1>1, <1>3, <3>1 DEF RequestsTellTheTruth, base, Identities
  <2>. QED
    BY <2>1, <2>2, <2>3, <2>4, QueueSteps
<1>. QED
  BY <1>2, <1>3, BaseSteps

-----------------------------------------------------------------------------
(* The theorems *)

LEMMA DInvHolds == DSpec => []DInv
<1>1. ASSUME DInit PROVE DInv
  <2>1. Types
    BY <1>1, InitTypes
  <2>2. /\ orch = [s \in Slots |-> Nil] /\ lock = Nil /\ disp = Nil /\ receipts = {} /\ generation = 0 /\ copies = {}
        /\ disk.root = 0 /\ disk.aside = Nil /\ units.copy = "none"
        /\ requests = [r \in Requests |-> [status |-> "none", code |-> ""]]
    BY <1>1 DEF DInit
  <2>3. Flock /\ Identities /\ Fresh
    BY <2>2, RunAssumption DEF Flock, Identities, Fresh, Slots
  <2>4. MediaInv /\ WindowInv /\ CopyInv /\ WritersSeeOneGeneration /\ RequestsTellTheTruth
    BY <2>2 DEF MediaInv, Together, WindowInv, CopyInv, WritersSeeOneGeneration, RequestsTellTheTruth
  <2>. QED
    BY <2>1, <2>3, <2>4 DEF DInv
<1>2. ASSUME DInv, [DNext]_demovars PROVE DInv'
  BY <1>2, TypesStep, FlockStep, IdentitiesStep, FreshStep, MediaStep, WindowStep, CopyStep, WritersStep,
     RequestsTruthStep DEF DInv
<1>. QED
  BY <1>1, <1>2, PTL DEF DSpec

(* The queue, the durable state and the media keep the shape of DemoRefreshRequest and *)
(* of the files of the scripts, for any number of requests, nights and faults. *)
THEOREM DemoTypes == DSpec => []DTypeOK
<1>1. DInv => DTypeOK
  BY DEF DInv, Types
<1>. QED
  BY <1>1, DInvHolds, PTL

(* No writer runs on media of another generation, whatever was cut off and whoever starts *)
(* it: agendasalon-demo-start-guard and the phases of the orchestrator together. *)
THEOREM OneGeneration == DSpec => []WritersSeeOneGeneration
<1>1. DInv => WritersSeeOneGeneration
  BY DEF DInv
<1>. QED
  BY <1>1, DInvHolds, PTL

(* The media of the database always exist: commit_media_after_refresh and *)
(* restore_media_after_failure delete only what the receipt of their run lets them. *)
THEOREM MediaSurvive == DSpec => []MediaOutliveTheRefresh
<1>1. DInv => MediaOutliveTheRefresh
  BY DEF DInv, MediaInv, Together, MediaOutliveTheRefresh
<1>. QED
  BY <1>1, DInvHolds, PTL

(* A request closed as interrupted never regenerates, a completed one has: what *)
(* claim_pending_demo_refresh and finalize_demo_refresh conclude from age and receipt. *)
THEOREM ClosedRequests == DSpec => []RequestsTellTheTruth
<1>1. DInv => RequestsTellTheTruth
  BY DEF DInv
<1>. QED
  BY <1>1, DInvHolds, PTL

(* Every canonical copy holds one generation, and no orchestrator reopens the application *)
(* beside a copy: create_and_verify_canonical_backup, quiesce and on_exit together. *)
THEOREM ColdCopies == DSpec => CopiesAreTakenCold
<1>1. ASSUME DInv, [DNext]_demovars
      PROVE  /\ \A c \in copies' : c[1] = c[2]
             /\ orch' # orch /\ ~units.gunicorn /\ units'.gunicorn => units'.copy # "running"
  <2>0. Types /\ Flock /\ Identities /\ Fresh /\ WindowInv /\ MediaInv /\ CopyInv
    BY <1>1 DEF DInv
  <2>1. \A c \in copies' : c[1] = c[2]
    BY <1>1, <2>0, CopyStep DEF CopyInv
  <2>2. units \in UnitRows
    BY <2>0 DEF Types, DTypeOK, UnitRows
  <2>3. ASSUME orch' # orch, ~units.gunicorn, units'.gunicorn PROVE units'.copy # "running"
    <3>1. Stopped(units).gunicorn = FALSE
      BY <2>2 DEF UnitRows, Stopped
    <3>2. CASE UNCHANGED units
      BY <2>3, <3>2
    <3>3. CASE StartGunicorn \/ StartJob \/ EndJob \/ Copy \/ CopyFails
      BY <2>3, <3>3 DEF StartGunicorn, StartJob, EndJob, Copy, CopyFails
    <3>4. CASE Reboot
      BY <3>4 DEF Reboot
    <3>5. ASSUME NEW s \in Slots, orch[s] # Nil, Rearm(s) PROVE units'.copy # "running"
      <4>1. orch[s].at = "rearm" /\ units' = [units EXCEPT !.gunicorn = TRUE]
        BY <3>5 DEF Rearm
      <4>2. units.copy # "running"
        BY <2>0, <3>5, <4>1, Holder DEF Window, Released, Phases
      <4>. QED
        BY <2>2, <4>1, <4>2 DEF UnitRows
    <3>6. ASSUME NEW s \in Slots, StopTimers(s) \/ StopGunicorn(s) \/ StartCopy(s) \/ CopyEnds(s) \/ StartTimers(s)
          PROVE  units'.copy # "running"
      BY <2>2, <2>3, <3>6 DEF StopTimers, StopGunicorn, StartCopy, CopyEnds, StartTimers, UnitRows
    <3>7. ASSUME NEW s \in Slots, Cleanup(s) \/ GiveUp(s) \/ TimersFail(s) PROVE units'.copy # "running"
      BY <2>3, <3>1, <3>7 DEF Cleanup, GiveUp, TimersFail, Surrender
    <3>. QED
      BY <1>1, <3>2, <3>3, <3>4, <3>5, <3>6, <3>7, UnitSteps
  <2>. QED
    BY <2>1, <2>3
<1>. QED
  BY <1>1, DInvHolds, PTL DEF DSpec, CopiesAreTakenCold
====
