----------------------------- MODULE MemoryJobs -----------------------------
(***************************************************************************)
(* The memory pipeline's job table (codex-rs/state/src/runtime/memories.rs *)
(* and its callers in codex-rs/memories/write).  Several codex processes   *)
(* share one SQLite database.  Stage 1 extracts a memory from each thread  *)
(* that changed; phase 2 consolidates the extracted memories under a       *)
(* single global lock.  A job is owned through a fresh token and a lease:  *)
(* the owner may stall or die, the lease runs out, another process takes   *)
(* the job over, and the first one may still come back and report.         *)
(*                                                                         *)
(* Times are kept as what is left of them: a lease, a retry delay or the   *)
(* cooldown of n ticks becomes 0 when it has run out.  One action is one   *)
(* transaction, or one statement outside a transaction.                    *)
(***************************************************************************)
EXTENDS Integers, FiniteSets

CONSTANTS
    Threads,
    Attempts,        \* claims in flight, each with an ownership token of its own
    MaxSource,       \* bound on how often a thread changes
    MaxRunning,      \* max_running_jobs of stage 1
    Lease,           \* JOB_LEASE_SECONDS, in ticks
    RetryDelay,      \* JOB_RETRY_DELAY_SECONDS
    Cooldown,        \* PHASE2_SUCCESS_COOLDOWN_SECONDS
    DefaultRetries   \* DEFAULT_RETRY_REMAINING

ASSUME BoundsAssumption ==
    /\ MaxSource \in Nat \ {0} /\ MaxRunning \in Nat /\ Lease \in Nat \ {0}
    /\ RetryDelay \in Nat /\ Cooldown \in Nat /\ DefaultRetries \in Nat \ {0}
ASSUME FiniteAssumption == IsFiniteSet(Threads) /\ IsFiniteSet(Attempts)

NoToken == "no token"
ASSUME TokenAssumption == NoToken \notin Attempts

VARIABLES
    source,     \* updated_at of each thread, 0 once it is deleted
    mode,       \* memory_mode of each thread, "enabled" once it is deleted
    job,        \* the stage-1 row of each thread
    output,     \* the stage1_outputs row of each thread
    global,     \* the row of the phase-2 job
    consolidated, \* the versions of the outputs in the last successful phase 2, 0 once
                  \* the output is gone
    attempt     \* what each claim in flight is doing

vars == <<source, mode, job, output, global, consolidated, attempt>>

\* A missing row has status "none" (jobs) or source 0 (outputs).  success is
\* last_success_watermark, 0 when NULL.
NoJob == [status |-> "none", token |-> NoToken, lease |-> 0, retry |-> 0,
          retries |-> DefaultRetries, input |-> 0, success |-> 0]
NoOutput == [src |-> 0, sel |-> 0]
NoGlobal == [status |-> "none", token |-> NoToken, lease |-> 0, retry |-> 0,
             failed |-> 0, cooldown |-> 0]
NoSelection == [t \in Threads |-> 0]
Idle == [pc |-> "idle", t |-> NoToken, src |-> 0, sel |-> NoSelection]

Versions == 0..MaxSource
JobRow == [status : {"none", "running", "done", "error"}, token : Attempts \cup {NoToken},
           lease : 0..Lease, retry : 0..RetryDelay, retries : 0..DefaultRetries,
           input : Versions, success : Versions]
OutputRow == [src : Versions, sel : Versions]
GlobalRow == [status : {"none", "pending", "running", "done", "error"},
              token : Attempts \cup {NoToken}, lease : 0..Lease, retry : 0..RetryDelay,
              failed : {0, 1}, cooldown : 0..Cooldown]
Pcs == {"idle", "claim", "extract", "select", "agent", "mark", "fail", "pollute", "delete"}
AttemptState == [pc : Pcs, t : Threads \cup {NoToken}, src : Versions,
                 sel : [Threads -> Versions]]

TypeOK ==
    /\ source \in [Threads -> Versions]
    /\ mode \in [Threads -> {"enabled", "polluted"}]
    /\ job \in [Threads -> JobRow]
    /\ output \in [Threads -> OutputRow]
    /\ global \in GlobalRow
    /\ consolidated \in [Threads -> Versions]
    /\ attempt \in [Attempts -> AttemptState]

Init ==
    /\ source = [t \in Threads |-> 1]
    /\ mode = [t \in Threads |-> "enabled"]
    /\ job = [t \in Threads |-> NoJob]
    /\ output = [t \in Threads |-> NoOutput]
    /\ global = NoGlobal
    /\ consolidated = NoSelection
    /\ attempt = [a \in Attempts |-> Idle]

-----------------------------------------------------------------------------
(* Stage 1.                                                                 *)

\* The condition of every update of a row by its owner.
Owns(a, t) == job[t].status = "running" /\ job[t].token = a
OwnsGlobal(a) == global.status = "running" /\ global.token = a

\* A token is a fresh UUID: no running row has an attempt's when it begins.  The token
\* in a row that is not running is compared with nothing; the model forgets it.
Fresh(a) ==
    /\ attempt[a].pc = "idle"
    /\ ~OwnsGlobal(a)
    /\ \A t \in Threads : ~Owns(a, t)

Become(a, new) == attempt' = [attempt EXCEPT ![a] = new]
End(a) == Become(a, Idle)

\* stage1_source_needs_update, asked again inside the claim.
UpToDate(t, src) == output[t].src >= src \/ job[t].success >= src

Enabled(t) == source[t] > 0 /\ mode[t] = "enabled"

\* The startup scan reads the threads that are enabled and out of date.
Scan(a, t) ==
    /\ Fresh(a)
    /\ Enabled(t) /\ ~UpToDate(t, source[t])
    /\ Become(a, [Idle EXCEPT !.pc = "claim", !.t = t, !.src = source[t]])
    /\ UNCHANGED <<source, mode, job, output, global, consolidated>>

\* Jobs running under a lease that has not run out.
Running(T) == {t \in T : job[t].status = "running" /\ job[t].lease > 0}

\* Mutant: the cap is compared with the jobs that already run, not with one more.
CanClaimOneMore(t, src) ==
    /\ Cardinality(Running(Threads)) <= MaxRunning
    /\ job[t].status # "none" =>
           /\ job[t].status # "running" \/ job[t].lease = 0
           /\ job[t].retry = 0 \/ src > job[t].input
           /\ job[t].retries > 0 \/ src > job[t].input

\* The conditions of the upsert: below the cap, a row that does not exist is inserted;
\* one that does is taken over if nobody runs it, its backoff is over and it has
\* retries left, the last two unless the thread changed.
CanClaim(t, src) ==
    /\ Cardinality(Running(Threads)) < MaxRunning
    /\ job[t].status # "none" =>
           /\ job[t].status # "running" \/ job[t].lease = 0
           /\ job[t].retry = 0 \/ src > job[t].input
           /\ job[t].retries > 0 \/ src > job[t].input

\* try_claim_stage1_job
Claim(a) ==
    LET t == attempt[a].t
        src == attempt[a].src
    IN /\ attempt[a].pc = "claim"
       /\ IF ~UpToDate(t, src) /\ CanClaim(t, src)
          THEN /\ job' = [job EXCEPT ![t] =
                     [status |-> "running", token |-> a, lease |-> Lease, retry |-> 0,
                      retries |-> IF src > job[t].input THEN DefaultRetries ELSE job[t].retries,
                      input |-> src, success |-> job[t].success]]
               /\ attempt' = [attempt EXCEPT ![a].pc = "extract"]
          ELSE End(a) /\ UNCHANGED job
       /\ UNCHANGED <<source, mode, output, global, consolidated>>

\* enqueue_global_consolidation: a running job stays running, any other becomes
\* pending without a delay.  The watermark of the row decides nothing.
Enqueued(g) ==
    IF g.status = "running" THEN g
    ELSE [g EXCEPT !.status = "pending", !.retry = 0]

Done(row) == [row EXCEPT !.status = "done", !.token = NoToken, !.lease = 0, !.success = row.input]

\* Mutant: the row is finished whoever owns it.
SucceedUnowned(a) ==
    LET t == attempt[a].t
    IN /\ attempt[a].pc = "extract"
       /\ job' = [job EXCEPT ![t] = Done(@)]
       /\ output' = [output EXCEPT ![t].src = IF attempt[a].src >= @ THEN attempt[a].src ELSE @]
       /\ global' = Enqueued(global)
       /\ End(a)
       /\ UNCHANGED <<source, mode, consolidated>>

\* Mutant: a late report replaces what a later one stored.
SucceedLate(a) ==
    LET t == attempt[a].t
    IN /\ attempt[a].pc = "extract"
       /\ job' = [job EXCEPT ![t] = [@ EXCEPT !.status = "done", !.token = NoToken, !.lease = 0,
                                              !.success = attempt[a].src]]
       /\ output' = [output EXCEPT ![t].src = attempt[a].src]
       /\ global' = Enqueued(global)
       /\ End(a)
       /\ UNCHANGED <<source, mode, consolidated>>

\* mark_stage1_job_succeeded; what is reported without owning the row is dropped.
Succeed(a) ==
    LET t == attempt[a].t
        src == attempt[a].src
    IN /\ attempt[a].pc = "extract"
       /\ IF Owns(a, t)
          THEN /\ job' = [job EXCEPT ![t] = Done(@)]
               /\ output' = [output EXCEPT ![t].src = IF src >= @ THEN src ELSE @]
               /\ global' = Enqueued(global)
          ELSE UNCHANGED <<job, output, global>>
       /\ End(a)
       /\ UNCHANGED <<source, mode, consolidated>>

\* The row of an output is deleted.
Delete(t) ==
    /\ output' = [output EXCEPT ![t] = NoOutput]
    /\ consolidated' = [consolidated EXCEPT ![t] = 0]

\* mark_stage1_job_succeeded_no_output: there is nothing to remember of the thread.
SucceedNoOutput(a) ==
    LET t == attempt[a].t
    IN /\ attempt[a].pc = "extract"
       /\ IF Owns(a, t)
          THEN /\ job' = [job EXCEPT ![t] = Done(@)]
               /\ Delete(t)
               /\ global' = IF output[t].src > 0 THEN Enqueued(global) ELSE global
          ELSE UNCHANGED <<job, output, global, consolidated>>
       /\ End(a)
       /\ UNCHANGED <<source, mode>>

Errored(row) == [row EXCEPT !.status = "error", !.token = NoToken, !.lease = 0,
                            !.retry = RetryDelay, !.retries = @ - 1]

\* mark_stage1_job_failed
FailStage1(a) ==
    LET t == attempt[a].t
    IN /\ attempt[a].pc = "extract"
       /\ job' = IF Owns(a, t)
                 THEN [job EXCEPT ![t] = Errored(@)]
                 ELSE job
       /\ End(a)
       /\ UNCHANGED <<source, mode, output, global, consolidated>>

-----------------------------------------------------------------------------
(* Phase 2: the consolidation under the global lock.                        *)

\* try_claim_global_phase2_job: not in the backoff of a failure, not while a lease
\* holds, not in the cooldown of a success.  A missing row is inserted.
CanClaimGlobal ==
    \/ global.status = "none"
    \/ /\ global.retry = 0
       /\ global.status # "running" \/ global.lease = 0
       /\ global.failed = 1 \/ global.cooldown = 0

ClaimGlobal(a) ==
    /\ Fresh(a)
    /\ CanClaimGlobal
    /\ global' = [NoGlobal EXCEPT !.status = "running", !.token = a, !.lease = Lease]
    /\ Become(a, [Idle EXCEPT !.pc = "select"])
    /\ UNCHANGED <<source, mode, job, output, consolidated>>

\* get_phase2_input_selection: outputs of enabled threads, as many as there is room
\* for.  Rows that change between its two queries are left out.  Without changes in
\* the workspace the job is marked at once; a step that goes wrong fails it.
Select(a) ==
    /\ attempt[a].pc = "select"
    /\ \/ \E S \in SUBSET {t \in Threads : output[t].src > 0 /\ Enabled(t)} :
          \E pc \in {"agent", "mark"} :
            Become(a, [Idle EXCEPT !.pc = pc,
                           !.sel = [t \in Threads |-> IF t \in S THEN output[t].src ELSE 0]])
       \/ Become(a, [Idle EXCEPT !.pc = "fail"])
    /\ UNCHANGED <<source, mode, job, output, global, consolidated>>

\* heartbeat_global_phase2_job, while the agent works and once more when it is done.
\* Whoever lost the lock gives up: in the loop as a failure, at the end silently.
Renewed(a) == IF OwnsGlobal(a) THEN [global EXCEPT !.lease = Lease] ELSE global

Heartbeat(a) ==
    /\ attempt[a].pc = "agent"
    /\ global' = Renewed(a)
    /\ IF OwnsGlobal(a) THEN UNCHANGED attempt ELSE Become(a, [Idle EXCEPT !.pc = "fail"])
    /\ UNCHANGED <<source, mode, job, output, consolidated>>

AgentCompletes(a) ==
    /\ attempt[a].pc = "agent"
    /\ global' = Renewed(a)
    /\ IF OwnsGlobal(a) THEN attempt' = [attempt EXCEPT ![a].pc = "mark"] ELSE End(a)
    /\ UNCHANGED <<source, mode, job, output, consolidated>>

AgentFails(a) ==
    /\ attempt[a].pc = "agent"
    /\ Become(a, [Idle EXCEPT !.pc = "fail"])
    /\ UNCHANGED <<source, mode, job, output, global, consolidated>>

GlobalDone == [global EXCEPT !.status = "done", !.token = NoToken, !.lease = 0,
                             !.failed = 0, !.cooldown = Cooldown]

\* Mutant: a row is marked at its present version, which is not the one consolidated.
MarkPresent(a) ==
    LET sel == attempt[a].sel
    IN /\ attempt[a].pc = "mark"
       /\ IF OwnsGlobal(a)
          THEN /\ global' = GlobalDone
               /\ output' = [t \in Threads |->
                      [output[t] EXCEPT !.sel = IF sel[t] > 0 THEN output[t].src ELSE 0]]
               /\ consolidated' = sel
          ELSE UNCHANGED <<global, output, consolidated>>
       /\ End(a)
       /\ UNCHANGED <<source, mode, job>>

\* mark_global_phase2_job_succeeded: the selection of this run replaces the one
\* before; a row that was written again since it was selected is not marked.
MarkSucceeded(a) ==
    LET sel == attempt[a].sel
    IN /\ attempt[a].pc = "mark"
       /\ IF OwnsGlobal(a)
          THEN /\ global' = GlobalDone
               /\ output' = [t \in Threads |->
                      [output[t] EXCEPT !.sel = IF sel[t] > 0 /\ sel[t] = output[t].src
                                                THEN sel[t] ELSE 0]]
               /\ consolidated' = sel
          ELSE UNCHANGED <<global, output, consolidated>>
       /\ End(a)
       /\ UNCHANGED <<source, mode, job>>

\* mark_global_phase2_job_failed; its fallback for a row without an owner finds
\* none, since only a claim makes a row running.
MarkFailed(a) ==
    /\ attempt[a].pc = "fail"
    /\ global' = IF OwnsGlobal(a)
                 THEN [global EXCEPT !.status = "error", !.token = NoToken, !.lease = 0,
                                     !.retry = RetryDelay, !.failed = 1]
                 ELSE global
    /\ End(a)
    /\ UNCHANGED <<source, mode, job, output, consolidated>>

-----------------------------------------------------------------------------
(* The rest of the world.                                                   *)

\* A process dies, or an attempt is abandoned: its row is left as it is.
Crash(a) ==
    /\ attempt[a].pc # "idle"
    /\ End(a)
    /\ UNCHANGED <<source, mode, job, output, global, consolidated>>

ThreadChanges(t) ==
    /\ source[t] \in 1..(MaxSource - 1)
    /\ source' = [source EXCEPT ![t] = @ + 1]
    /\ UNCHANGED <<mode, job, output, global, consolidated, attempt>>

\* mark_thread_memory_mode_polluted looks whether the thread is part of the last
\* consolidation, and only then marks it and enqueues the next.
PolluteReads(a, t) ==
    /\ Fresh(a)
    /\ source[t] > 0
    /\ Become(a, [Idle EXCEPT !.pc = "pollute", !.t = t, !.src = output[t].sel])
    /\ UNCHANGED <<source, mode, job, output, global, consolidated>>

PolluteMarks(a) ==
    /\ attempt[a].pc = "pollute"
    /\ mode' = IF source[attempt[a].t] > 0 THEN [mode EXCEPT ![attempt[a].t] = "polluted"] ELSE mode
    /\ global' = IF attempt[a].src > 0 THEN Enqueued(global) ELSE global
    /\ End(a)
    /\ UNCHANGED <<source, job, output, consolidated>>

\* delete_threads_strict deletes the memory of the thread (delete_thread_memory), and
\* the thread itself in another database later, if nothing fails in between.
DeleteMemory(a, t) ==
    /\ Fresh(a)
    /\ source[t] > 0
    /\ job' = [job EXCEPT ![t] = NoJob]
    /\ Delete(t)
    /\ global' = IF output[t].sel > 0 THEN Enqueued(global) ELSE global
    /\ Become(a, [Idle EXCEPT !.pc = "delete", !.t = t])
    /\ UNCHANGED <<source, mode>>

DeleteThread(a) ==
    /\ attempt[a].pc = "delete"
    /\ source' = [source EXCEPT ![attempt[a].t] = 0]
    /\ mode' = [mode EXCEPT ![attempt[a].t] = "enabled"]
    /\ End(a)
    /\ UNCHANGED <<job, output, global, consolidated>>

\* clear_memory_data
Clear ==
    /\ job' = [t \in Threads |-> NoJob]
    /\ output' = [t \in Threads |-> NoOutput]
    /\ consolidated' = NoSelection
    /\ global' = NoGlobal
    /\ UNCHANGED <<source, mode, attempt>>

\* prune_stage1_outputs_for_retention: old outputs that no consolidation uses.
Prune(t) ==
    /\ output[t].src > 0 /\ output[t].sel = 0
    /\ Delete(t)
    /\ UNCHANGED <<source, mode, job, global, attempt>>

Less(n) == IF n > 0 THEN n - 1 ELSE 0
Tick ==
    /\ job' = [t \in Threads |-> [job[t] EXCEPT !.lease = Less(@), !.retry = Less(@)]]
    /\ global' = [global EXCEPT !.lease = Less(@), !.retry = Less(@), !.cooldown = Less(@)]
    /\ UNCHANGED <<source, mode, output, consolidated, attempt>>

Next ==
    \/ \E a \in Attempts :
         \/ \E t \in Threads : Scan(a, t) \/ PolluteReads(a, t) \/ DeleteMemory(a, t)
         \/ Claim(a) \/ Succeed(a) \/ SucceedNoOutput(a) \/ FailStage1(a)
         \/ ClaimGlobal(a) \/ Select(a) \/ Heartbeat(a) \/ AgentCompletes(a) \/ AgentFails(a)
         \/ MarkSucceeded(a) \/ MarkFailed(a) \/ PolluteMarks(a) \/ DeleteThread(a)
         \/ Crash(a)
    \/ \E t \in Threads : ThreadChanges(t) \/ Prune(t)
    \/ Clear
    \/ Tick

Spec == Init /\ [][Next]_vars

-----------------------------------------------------------------------------
(* Properties.                                                              *)

\* No more stage-1 jobs run under a valid lease than max_running_jobs, whoever
\* claimed them, took them over or lost them.
RunningCapHolds == Cardinality(Running(Threads)) <= MaxRunning

\* An output that is stored is the one the job row vouches for: the row's last
\* success is the version of the thread the output was made from.  A worker that
\* lost its lease and comes back late changes neither.
OutputMatchesWatermark ==
    \A t \in Threads : output[t].src > 0 => output[t].src = job[t].success

\* While a row exists, what is known of a thread never goes back to an older version.
MemoryAdvances ==
    [][\A t \in Threads :
          /\ output[t].src > 0 /\ output'[t].src > 0 => output'[t].src >= output[t].src
          /\ job'[t].status # "none" => job'[t].success >= job[t].success]_vars

\* The outputs marked as selected are snapshots of the last consolidation that
\* succeeded, each marked with the version that was consolidated.
SelectedWasConsolidated ==
    \A t \in Threads : output[t].sel > 0 =>
        /\ output[t].sel = consolidated[t]
        /\ output[t].sel <= output[t].src

=============================================================================
