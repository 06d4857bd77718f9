------------------------------ MODULE DemoRefresh ------------------------------
(***************************************************************************)
(* The regeneration of the demo: the queue of manual requests, the root    *)
(* dispatcher that serves it, the orchestrator that stops every writer,    *)
(* sets the media aside, runs one transaction and reconciles media with    *)
(* what PostgreSQL says of it, and the guard that every writer must pass   *)
(* to start.  Generations number the database and the media it belongs to. *)
(***************************************************************************)
EXTENDS Naturals, FiniteSets

CONSTANTS
    Requests,     \* public_id of the manual requests
    Nights,       \* run ids the nightly timer draws
    MaxFaults,    \* bound on kills and reboots
    Nil

Runs == Requests \cup Nights
Slots == {"manual", "nightly"}      \* the orchestrator, under the dispatcher or its own unit
Generations == 0 .. Cardinality(Runs)

VARIABLES
    requests,     \* request: its status and failure code
    stale,        \* requests in course for PROCESSING_STALE_AFTER
    receipts,     \* runs PostgreSQL confirmed
    generation,   \* of the database
    disp,         \* the dispatcher: Nil, or its request and where it is
    orch,         \* slot: Nil or the orchestrator there
    lock,         \* slot that holds the exclusive flock
    disk,         \* what survives a reboot
    tokens,       \* authorisations under /run/lock
    units,        \* what systemd runs
    copies,       \* canonical backups: the generations of their dump and their media
    nights,       \* run ids not drawn yet
    faults

demovars == <<requests, stale, receipts, generation, disp, orch, lock, disk, tokens, units, copies, nights, faults>>
queue == <<requests, stale>>
base  == <<receipts, generation>>

Codes    == {"", "dispatcher_interrupted", "orchestrator_failed", "runtime_recovery_required"}
DispRows == [req : Requests, at : {"claimed", "running", "succeeded", "failed", "recovering"}]
Phases   == {"preflight", "quiesce", "drain", "backup", "copying", "state", "quarantine", "media root",
             "refresh", "query", "media", "remove", "finish", "rearm", "postflight", "unlock", "timers",
             "watch", "cleanup", "give up"}
OrchRows == [run : Runs, at : Phases, succeeded : BOOLEAN, finished : BOOLEAN, exiting : BOOLEAN,
             result : {"pending", "commit", "rollback"}]

DInit ==
    /\ requests = [r \in Requests |-> [status |-> "none", code |-> ""]]
    /\ stale = {} /\ receipts = {} /\ generation = 0 /\ copies = {} /\ faults = 0
    /\ disp = Nil /\ orch = [s \in Slots |-> Nil] /\ lock = Nil
    /\ disk = [state |-> Nil, marker |-> FALSE, root |-> 0, aside |-> Nil]
    /\ tokens = [backup |-> Nil, rearm |-> Nil]
    /\ units = [gunicorn |-> TRUE, timers |-> TRUE, job |-> FALSE, copy |-> "none", dump |-> 0]
    /\ nights = Nights

\* Every run draws an identifier of its own, and Nil is nothing that a variable names.
ASSUME RunAssumption ==
    /\ IsFiniteSet(Requests) /\ IsFiniteSet(Nights) /\ Requests \cap Nights = {} /\ MaxFaults \in Nat
    /\ Nil \notin Runs /\ Nil \notin Slots /\ Nil \notin Generations
    /\ Nil \notin DispRows /\ Nil \notin OrchRows

-----------------------------------------------------------------------------
(* agendasalon-demo-start-guard *)

Clean == disk.state = Nil /\ disk.aside = Nil /\ tokens.backup = Nil
Sound == disk.root # Nil /\ ~disk.marker

AllowsWritersWithState(rearm) == Sound /\ (lock = Nil <=> rearm = Nil)
AllowsWriters(rearm) == Sound /\ Clean /\ (lock = Nil <=> rearm = Nil)

AllowsCopy(run) ==
    /\ Sound /\ disk.aside = Nil /\ disk.state \in {Nil, run}
    /\ ~units.gunicorn /\ ~units.timers /\ ~units.job
    /\ lock # Nil /\ tokens.rearm = Nil

\* A unit being started already counts as active for who waits for it.
StartGunicorn == /\ ~units.gunicorn /\ AllowsWriters(tokens.rearm)
                 /\ units' = [units EXCEPT !.gunicorn = TRUE]
                 /\ UNCHANGED <<queue, base, disp, orch, lock, disk, tokens, copies, nights, faults>>
StartJob == /\ ~units.job /\ AllowsWriters(tokens.rearm)
            /\ units' = [units EXCEPT !.job = TRUE]
            /\ UNCHANGED <<queue, base, disp, orch, lock, disk, tokens, copies, nights, faults>>
EndJob == /\ units.job
          /\ units' = [units EXCEPT !.job = FALSE]
          /\ UNCHANGED <<queue, base, disp, orch, lock, disk, tokens, copies, nights, faults>>

\* The canonical backup: the dump was taken when it started, the media are read now.
Copy == /\ units.copy = "running"
        /\ copies' = copies \cup {<<units.dump, disk.root>>}
        /\ units' = [units EXCEPT !.copy = "done"]
        /\ UNCHANGED <<queue, base, disp, orch, lock, disk, tokens, nights, faults>>
CopyFails == /\ units.copy = "running"
             /\ units' = [units EXCEPT !.copy = "failed"]
             /\ UNCHANGED <<queue, base, disp, orch, lock, disk, tokens, copies, nights, faults>>

-----------------------------------------------------------------------------
(* The queue *)

Active(r) == requests[r].status \in {"pending", "processing"}

\* request_demo_refresh
Ask(r) ==
    /\ requests[r].status = "none" /\ units.gunicorn
    /\ \A q \in Requests : ~Active(q)
    /\ requests' = [requests EXCEPT ![r].status = "pending"]
    /\ UNCHANGED <<stale, base, disp, orch, lock, disk, tokens, units, copies, nights, faults>>

Expire(r) ==
    /\ requests[r].status = "processing" /\ r \notin stale
    /\ stale' = stale \cup {r}
    /\ UNCHANGED <<requests, base, disp, orch, lock, disk, tokens, units, copies, nights, faults>>

\* claim_pending_demo_refresh
ClaimedByAge(r) ==
    IF requests[r].status = "pending" THEN "claim"
    ELSE IF r \in stale THEN "interrupt" ELSE IF r \in receipts THEN "recover" ELSE "idle"
ClaimedOnce(r) ==
    IF requests[r].status = "pending" THEN "claim" ELSE IF r \in receipts THEN "recover" ELSE "idle"
Claimed(r) ==
    IF requests[r].status = "pending" THEN "claim"
    ELSE IF r \in receipts THEN "recover"
    ELSE IF r \in stale THEN "interrupt" ELSE "idle"

Close(r, status, code) == requests' = [requests EXCEPT ![r] = [status |-> status, code |-> code]]

\* One pass of the dispatcher; with the flock taken it leaves the queue alone.
Tick == \E r \in Requests :
    /\ units.timers /\ disp = Nil /\ orch["manual"] = Nil /\ lock = Nil /\ Active(r)
    /\ \/ /\ Claimed(r) = "claim"
          /\ requests' = [requests EXCEPT ![r].status = "processing"]
          /\ disp' = [req |-> r, at |-> "claimed"]
       \/ /\ Claimed(r) = "recover"
          /\ disp' = [req |-> r, at |-> "recovering"]
          /\ UNCHANGED requests
       \/ /\ Claimed(r) = "interrupt"
          /\ Close(r, "failed", "dispatcher_interrupted")
          /\ UNCHANGED disp
    /\ UNCHANGED <<stale, base, orch, lock, disk, tokens, units, copies, nights, faults>>

\* runtime_is_recoverable
Recoverable == units.gunicorn /\ units.timers /\ disk.state = Nil /\ ~disk.marker /\ disk.aside = Nil

\* recover_request and finalize_demo_refresh, under the shared flock
Finalize ==
    /\ disp # Nil /\ disp.at \in {"succeeded", "failed", "recovering"}
    /\ lock = Nil /\ requests[disp.req].status = "processing"
    /\ \/ disp.at = "succeeded" /\ disp.req \in receipts /\ Close(disp.req, "completed", "")
       \/ disp.at = "failed" /\ Close(disp.req, "failed", "orchestrator_failed")
       \/ /\ disp.at = "recovering"
          /\ IF Recoverable /\ disp.req \in receipts THEN Close(disp.req, "completed", "")
             ELSE Close(disp.req, "failed", "runtime_recovery_required")
    /\ disp' = Nil
    /\ UNCHANGED <<stale, base, orch, lock, disk, tokens, units, copies, nights, faults>>

\* flock --timeout 2400
FinalizeTimesOut ==
    /\ disp # Nil /\ disp.at \in {"succeeded", "failed", "recovering"} /\ lock # Nil
    /\ disp' = Nil
    /\ UNCHANGED <<queue, base, orch, lock, disk, tokens, units, copies, nights, faults>>

-----------------------------------------------------------------------------
(* The orchestrator *)

To(s, phase) == orch' = [orch EXCEPT ![s].at = phase]

\* The process ends: the flock goes, and the dispatcher reads the exit status.
FreedLate(s) == lock
Freed(s) == IF lock = s THEN Nil ELSE lock
Gone(s, status) ==
    /\ orch' = [orch EXCEPT ![s] = Nil]
    /\ lock' = Freed(s)
    /\ disp' = IF s = "manual" /\ disp # Nil THEN [disp EXCEPT !.at = status] ELSE disp

\* An error or a signal: main enters on_exit, and on_exit gives up.  Before the trap is
\* set, and once the flock is released, there is nothing to clean and the process just ends.
Untrapped == {"preflight", "timers", "watch"}
Cleaning(s) == [orch EXCEPT ![s] = [@ EXCEPT !.at = IF orch[s].exiting THEN "give up" ELSE "cleanup",
                                             !.exiting = TRUE]]
Trips(s) == IF orch[s].at \in Untrapped THEN Gone(s, "failed")
            ELSE orch' = Cleaning(s) /\ UNCHANGED <<lock, disp>>

\* prepare_process_lock
LockFreeAlways == TRUE
LockFree == lock = Nil

Begin(s, r) ==
    IF LockFree
    THEN /\ lock' = s
         /\ orch' = [orch EXCEPT ![s] = [run |-> r, at |-> "preflight", succeeded |-> FALSE, finished |-> FALSE,
                                         exiting |-> FALSE, result |-> "pending"]]
         /\ disp' = IF s = "manual" THEN [disp EXCEPT !.at = "running"] ELSE disp
    ELSE Gone(s, "failed")

Launch ==
    /\ disp # Nil /\ disp.at = "claimed"
    /\ Begin("manual", disp.req)
    /\ UNCHANGED <<queue, base, disk, tokens, units, copies, nights, faults>>
Nightly == \E n \in nights :
    /\ units.timers /\ orch["nightly"] = Nil
    /\ nights' = nights \ {n}
    /\ Begin("nightly", n)
    /\ UNCHANGED <<queue, base, disk, tokens, units, copies, faults>>

Ready == Sound /\ Clean /\ tokens.rearm = Nil /\ units.gunicorn /\ units.timers
Preflight(s) ==
    /\ orch[s].at = "preflight"
    /\ IF Ready THEN To(s, "quiesce") /\ UNCHANGED <<lock, disp>> ELSE Trips(s)
    /\ UNCHANGED <<queue, base, disk, tokens, units, copies, nights, faults>>

StopTimers(s) ==
    /\ orch[s].at = "quiesce"
    /\ units' = [units EXCEPT !.timers = FALSE]
    /\ To(s, "drain")
    /\ UNCHANGED <<queue, base, disp, lock, disk, tokens, copies, nights, faults>>

Quiet == ~units.job /\ units.copy # "running"
StopGunicorn(s) ==
    /\ orch[s].at = "drain" /\ Quiet
    /\ units' = [units EXCEPT !.gunicorn = FALSE]
    /\ To(s, "backup")
    /\ UNCHANGED <<queue, base, disp, lock, disk, tokens, copies, nights, faults>>

\* create_and_verify_canonical_backup, before the refresh and after it
StartCopy(s) ==
    /\ orch[s].at = "backup" /\ tokens.backup = Nil
    /\ tokens' = [tokens EXCEPT !.backup = orch[s].run]
    /\ units' = [units EXCEPT !.copy = IF AllowsCopy(orch[s].run) THEN "running" ELSE "failed",
                              !.dump = generation]
    /\ To(s, "copying")
    /\ UNCHANGED <<queue, base, disp, lock, disk, copies, nights, faults>>
CopyEnds(s) ==
    /\ orch[s].at = "copying" /\ units.copy = "done"
    /\ tokens' = [tokens EXCEPT !.backup = Nil]
    /\ units' = [units EXCEPT !.copy = "none", !.dump = 0]
    /\ To(s, IF orch[s].result = "commit" THEN "remove" ELSE "state")
    /\ UNCHANGED <<queue, base, disp, lock, disk, copies, nights, faults>>

WriteState(s) ==
    /\ orch[s].at = "state"
    /\ disk' = [disk EXCEPT !.state = orch[s].run]
    /\ To(s, "quarantine")
    /\ UNCHANGED <<queue, base, disp, lock, tokens, units, copies, nights, faults>>

\* quarantine_media: a rename, then a new directory
MoveMedia(s) ==
    /\ orch[s].at = "quarantine"
    /\ disk' = [disk EXCEPT !.aside = disk.root, !.root = Nil]
    /\ To(s, "media root")
    /\ UNCHANGED <<queue, base, disp, lock, tokens, units, copies, nights, faults>>
NewMedia(s) ==
    /\ orch[s].at = "media root"
    /\ disk' = [disk EXCEPT !.root = generation + 1]
    /\ To(s, "refresh")
    /\ UNCHANGED <<queue, base, disp, lock, tokens, units, copies, nights, faults>>

\* DemoRefreshGuard and acquire_refresh_locks: the run's own marker, media aside, nobody connected
Regenerable(s) ==
    /\ disk.state = orch[s].run /\ disk.aside # Nil /\ disk.root # Nil
    /\ ~units.gunicorn /\ ~units.job /\ units.copy # "running"
    /\ orch[s].run \notin receipts
Regenerates(s) ==
    /\ orch[s].at = "refresh" /\ Regenerable(s)
    /\ generation' = generation + 1
    /\ receipts' = receipts \cup {orch[s].run}
Regenerate(s) ==
    /\ Regenerates(s)
    /\ orch' = [orch EXCEPT ![s] = [@ EXCEPT !.succeeded = TRUE, !.at = "query"]]
    /\ UNCHANGED <<queue, disp, lock, disk, tokens, units, copies, nights, faults>>
\* The transaction commits, but the command is cut off before it says so.
RegenerateUnheard(s) ==
    /\ Regenerates(s)
    /\ orch' = Cleaning(s)
    /\ UNCHANGED <<queue, disp, lock, disk, tokens, units, copies, nights, faults>>

\* query_refresh_receipt: an absent receipt is a rollback only after a known failure.
VerdictOnFailure(s) == IF orch[s].exiting /\ ~orch[s].succeeded THEN "rollback"
                       ELSE IF orch[s].run \in receipts THEN "commit" ELSE "indeterminate"
Verdict(s) == IF orch[s].run \in receipts THEN "commit"
              ELSE IF orch[s].exiting /\ ~orch[s].succeeded THEN "rollback" ELSE "indeterminate"
Query(s) ==
    /\ orch[s].at = "query" /\ Verdict(s) # "indeterminate"
    /\ orch' = [orch EXCEPT ![s] = [@ EXCEPT !.at = "media", !.result = Verdict(s)]]
    /\ UNCHANGED <<queue, base, disp, lock, disk, tokens, units, copies, nights, faults>>

\* commit_media_after_refresh
DropMedia(s) ==
    /\ orch[s].at = "media" /\ orch[s].result = "commit" /\ disk.root # Nil
    /\ disk' = [disk EXCEPT !.aside = Nil]
    /\ To(s, "backup")
    /\ UNCHANGED <<queue, base, disp, lock, tokens, units, copies, nights, faults>>
\* restore_media_after_failure: the new directory goes, then the old one comes back.
EmptyMedia(s) ==
    /\ orch[s].at = "media" /\ orch[s].result = "rollback" /\ disk.aside # Nil /\ disk.root # Nil
    /\ disk' = [disk EXCEPT !.root = Nil]
    /\ UNCHANGED <<queue, base, disp, orch, lock, tokens, units, copies, nights, faults>>
RestoreMedia(s) ==
    /\ orch[s].at = "media" /\ orch[s].result = "rollback"
    /\ IF disk.aside = Nil THEN disk.root # Nil /\ UNCHANGED disk
       ELSE disk.root = Nil /\ disk' = [disk EXCEPT !.root = disk.aside, !.aside = Nil]
    /\ To(s, "remove")
    /\ UNCHANGED <<queue, base, disp, lock, tokens, units, copies, nights, faults>>

\* remove_durable_state
RemoveState(s) ==
    /\ orch[s].at = "remove"
    /\ disk' = [disk EXCEPT !.state = Nil]
    /\ To(s, "finish")
    /\ UNCHANGED <<queue, base, disp, lock, tokens, units, copies, nights, faults>>
\* A commit reconciled by on_exit keeps the window closed: nothing verified it.
FinishReconciling(s) ==
    /\ orch[s].at = "finish"
    /\ orch' = [orch EXCEPT ![s] = [@ EXCEPT !.finished = TRUE,
                   !.at = IF orch[s].exiting /\ orch[s].result = "commit" THEN "give up" ELSE "rearm"]]
    /\ UNCHANGED <<queue, base, disp, lock, disk, tokens, units, copies, nights, faults>>

\* rearm_operational_state, postflight_runtime, release_process_lock_after_runtime_rearm
Rearm(s) ==
    /\ orch[s].at = "rearm" /\ tokens.rearm = Nil /\ AllowsWriters(orch[s].run)
    /\ tokens' = [tokens EXCEPT !.rearm = orch[s].run]
    /\ units' = [units EXCEPT !.gunicorn = TRUE]
    /\ To(s, "postflight")
    /\ UNCHANGED <<queue, base, disp, lock, disk, copies, nights, faults>>
Postflight(s) ==
    /\ orch[s].at = "postflight" /\ units.gunicorn
    /\ To(s, "unlock")
    /\ UNCHANGED <<queue, base, disp, lock, disk, tokens, units, copies, nights, faults>>
Unlock(s) ==
    /\ orch[s].at = "unlock" /\ Clean
    /\ tokens' = [tokens EXCEPT !.rearm = Nil]
    /\ lock' = Nil
    /\ To(s, "timers")
    /\ UNCHANGED <<queue, base, disp, disk, units, copies, nights, faults>>

\* restore_operational_timers_after_unlock
StartTimers(s) ==
    /\ orch[s].at = "timers"
    /\ units' = [units EXCEPT !.timers = TRUE]
    /\ To(s, "watch")
    /\ UNCHANGED <<queue, base, disp, lock, disk, tokens, copies, nights, faults>>
Ends(s) ==
    /\ orch[s].at = "watch" /\ units.timers /\ ~units.job
    /\ Gone(s, IF orch[s].exiting THEN "failed" ELSE "succeeded")
    /\ UNCHANGED <<queue, base, disk, tokens, units, copies, nights, faults>>

\* write_runtime_failure_marker and ensure_writers_stopped
Stopped(u) == [u EXCEPT !.gunicorn = FALSE, !.timers = FALSE, !.job = FALSE,
                        !.copy = IF @ = "running" THEN "failed" ELSE @]
Surrender(s) ==
    /\ disk' = [disk EXCEPT !.marker = TRUE]
    /\ units' = Stopped(units)
    /\ Gone(s, "failed")
    /\ UNCHANGED <<queue, base, tokens, copies, nights, faults>>
GiveUp(s)     == orch[s].at = "give up" /\ Surrender(s)
TimersFail(s) == orch[s].at = "watch" /\ Surrender(s)

\* The first half of on_exit: wait for what systemd still runs, revoke, and see what is left
\* to reconcile.  Once the durable state is gone only a finished refresh knows the outcome.
NeedsReconciling(s) == disk.state # Nil \/ orch[s].succeeded
AfterCleanupAtOnce(s) ==
    IF orch[s].finished THEN "give up"
    ELSE IF ~NeedsReconciling(s) THEN "rearm" ELSE IF disk.state # Nil THEN "query" ELSE "give up"
AfterCleanup(s) ==
    IF ~Quiet \/ orch[s].finished THEN "give up"
    ELSE IF ~NeedsReconciling(s) THEN "rearm"
    ELSE IF disk.state # Nil THEN "query" ELSE "give up"
Cleanup(s) ==
    /\ orch[s].at = "cleanup"
    /\ tokens' = [backup |-> Nil, rearm |-> Nil]
    /\ units' = IF NeedsReconciling(s) /\ ~orch[s].finished THEN Stopped(units) ELSE units
    /\ To(s, AfterCleanup(s))
    /\ UNCHANGED <<queue, base, disp, lock, disk, copies, nights, faults>>

\* A command fails, a wait runs out or a signal arrives.  A failed copy revokes its token.
Errs(s) ==
    /\ orch[s].at \notin {"cleanup", "give up"}
    /\ orch[s].at = "copying" /\ orch[s].exiting => units.copy # "running"
    /\ tokens' = IF orch[s].at = "copying" /\ units.copy # "running"
                 THEN [tokens EXCEPT !.backup = Nil] ELSE tokens
    /\ Trips(s)
    /\ UNCHANGED <<queue, base, disk, units, copies, nights, faults>>

Advances(s) ==
    \/ Preflight(s) \/ StopTimers(s) \/ StopGunicorn(s) \/ StartCopy(s) \/ CopyEnds(s) \/ WriteState(s)
    \/ MoveMedia(s) \/ NewMedia(s) \/ Regenerate(s) \/ Query(s) \/ DropMedia(s) \/ EmptyMedia(s)
    \/ RestoreMedia(s) \/ RemoveState(s) \/ FinishReconciling(s) \/ Rearm(s) \/ Postflight(s)
    \/ Unlock(s) \/ StartTimers(s) \/ Ends(s)
Recovers(s) == RegenerateUnheard(s) \/ Errs(s) \/ Cleanup(s) \/ GiveUp(s) \/ TimersFail(s)
OrchStep(s) == orch[s] # Nil /\ (Advances(s) \/ Recovers(s))

-----------------------------------------------------------------------------
(* Faults *)

Faulty == faults < MaxFaults /\ faults' = faults + 1

\* SIGKILL: no trap runs; what systemd started goes on.
Kill(s) ==
    /\ orch[s] # Nil /\ Faulty
    /\ Gone(s, "failed")
    /\ UNCHANGED <<queue, base, disk, tokens, units, copies, nights>>

\* systemd stops the dispatcher's unit: SIGTERM for it and for the orchestrator under it.
DispatcherStopped ==
    /\ disp # Nil /\ Faulty
    /\ disp' = Nil
    /\ IF orch["manual"] = Nil THEN UNCHANGED <<orch, lock>>
       ELSE IF orch["manual"].at \in Untrapped \/ orch["manual"].exiting
       THEN orch' = [orch EXCEPT !["manual"] = Nil] /\ lock' = Freed("manual")
       ELSE orch' = Cleaning("manual") /\ UNCHANGED lock
    /\ UNCHANGED <<queue, base, disk, tokens, units, copies, nights>>

\* /run is emptied; Gunicorn and the timers are enabled, and the guard has its say.
Reboot ==
    /\ Faulty
    /\ disp' = Nil /\ orch' = [s \in Slots |-> Nil] /\ lock' = Nil
    /\ tokens' = [backup |-> Nil, rearm |-> Nil]
    /\ units' = [gunicorn |-> Sound /\ disk.state = Nil /\ disk.aside = Nil, timers |-> TRUE,
                 job |-> FALSE, copy |-> "none", dump |-> 0]
    /\ UNCHANGED <<queue, base, disk, copies, nights>>

Systemd == StartGunicorn \/ StartJob \/ EndJob \/ Copy \/ CopyFails
Dispatch == Tick \/ Launch \/ Finalize \/ FinalizeTimesOut
Fault == (\E s \in Slots : Kill(s)) \/ DispatcherStopped \/ Reboot

DNext == \/ Systemd \/ Dispatch \/ Nightly \/ Fault
         \/ \E r \in Requests : Ask(r) \/ Expire(r)
         \/ \E s \in Slots : OrchStep(s)

DSpec == DInit /\ [][DNext]_demovars

-----------------------------------------------------------------------------
DTypeOK ==
    /\ requests \in [Requests -> [status : {"none", "pending", "processing", "completed", "failed"}, code : Codes]]
    /\ stale \subseteq Requests /\ receipts \subseteq Runs /\ generation \in Generations
    /\ disp \in DispRows \cup {Nil}
    /\ orch \in [Slots -> OrchRows \cup {Nil}]
    /\ lock \in Slots \cup {Nil} /\ (lock # Nil => orch[lock] # Nil)
    /\ disk \in [state : Runs \cup {Nil}, marker : BOOLEAN, root : Generations \cup {Nil}, aside : Generations \cup {Nil}]
    /\ tokens \in [backup : Runs \cup {Nil}, rearm : Runs \cup {Nil}]
    /\ units \in [gunicorn : BOOLEAN, timers : BOOLEAN, job : BOOLEAN,
                copy : {"none", "running", "done", "failed"}, dump : Generations]
    /\ copies \subseteq Generations \X (Generations \cup {Nil})
    /\ nights \subseteq Nights /\ faults \in 0 .. MaxFaults

(***************************************************************************)
(* Nothing that writes runs while the database and the media on disk are   *)
(* of different generations or old media are still aside, whatever was     *)
(* interrupted, by a signal, a kill or a reboot, and whoever starts it.    *)
(***************************************************************************)
WritersSeeOneGeneration ==
    units.gunicorn \/ units.job => disk.root = generation /\ disk.aside = Nil

(***************************************************************************)
(* The media of the database that PostgreSQL holds always exist, at their  *)
(* place or aside: none are deleted on the strength of a lost answer.      *)
(***************************************************************************)
MediaOutliveTheRefresh == generation \in {disk.root, disk.aside}

(***************************************************************************)
(* A canonical backup is cold: its media are of the generation of its dump, *)
(* and no orchestrator, cut off or not, reopens the application while one  *)
(* runs.  (One killed after its wait for the copy ran out is not there to  *)
(* say so: the guard then lets the application start beside the copy.)     *)
(***************************************************************************)
CopiesAreTakenCold == [][
    /\ \A c \in copies' : c[1] = c[2]
    /\ orch' # orch /\ ~units.gunicorn /\ units'.gunicorn => units'.copy # "running"]_demovars

(***************************************************************************)
(* A request closed as interrupted did not regenerate anything, before or  *)
(* after it was closed, and a completed one did.                           *)
(***************************************************************************)
RequestsTellTheTruth == \A r \in Requests :
    /\ requests[r].code = "dispatcher_interrupted" => r \notin receipts
    /\ requests[r].status = "completed" => r \in receipts

(***************************************************************************)
(* A request the dispatcher took comes to an end, whatever dies, as long   *)
(* as the timers are not left stopped for a manual review.                 *)
(***************************************************************************)
ProcessingComesToAnEnd ==
    <>[]units.timers => \A r \in Requests : [](requests[r].status = "processing" => <>(requests[r].status # "processing"))
=============================================================================
