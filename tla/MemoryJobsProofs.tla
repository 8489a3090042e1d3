-------------------------- MODULE MemoryJobsProofs --------------------------
(***************************************************************************)
(* Safety of the memory pipeline's job table, proved for any number of      *)
(* threads and attempts and any lease, delay and cap.                       *)
(***************************************************************************)
EXTENDS MemoryJobs, FiniteSetTheorems, TLAPS

(* A row that does not exist has its default values, and a running job has  *)
(* a retry left to lose.                                                    *)
RowsInv ==
    \A t \in Threads : /\ job[t].status = "none" => job[t] = NoJob
                       /\ job[t].status = "running" => job[t].retries >= 1

(* The steps that use an attempt's thread have one.                         *)
AttemptInv ==
    \A a \in Attempts :
        attempt[a].pc \in {"claim", "extract", "pollute", "delete"} => attempt[a].t \in Threads

(* The owner of a running row is dead, or extracts the very version the row *)
(* was claimed for, and nothing as new is stored or vouched for.            *)
OwnInv ==
    \A a \in Attempts, t \in Threads : Owns(a, t) =>
        \/ attempt[a].pc = "idle"
        \/ /\ attempt[a].pc = "extract" /\ attempt[a].t = t
           /\ attempt[a].src = job[t].input
           /\ output[t].src < attempt[a].src
           /\ job[t].success < attempt[a].src

(* The inductive invariant: late reports are harmless because of OwnInv.    *)
IInv ==
    /\ TypeOK /\ RowsInv /\ AttemptInv /\ OwnInv
    /\ OutputMatchesWatermark /\ SelectedWasConsolidated /\ RunningCapHolds

USE BoundsAssumption, TokenAssumption

(***************************************************************************)
(* The rows the operations write.                                           *)
(***************************************************************************)

(* The initial rows and attempts are well-formed.                           *)
LEMMA DefaultTypes ==
    /\ NoJob \in JobRow /\ NoOutput \in OutputRow /\ NoGlobal \in GlobalRow
    /\ NoSelection \in [Threads -> Versions] /\ Idle \in AttemptState
<1>1. 0 \in Versions /\ DefaultRetries \in 0..DefaultRetries
  BY DEF Versions
<1>2. NoSelection \in [Threads -> Versions]
  BY <1>1 DEF NoSelection
<1>3. NoJob \in JobRow
  BY <1>1 DEF NoJob, JobRow
<1>4. NoOutput \in OutputRow
  BY <1>1 DEF NoOutput, OutputRow
<1>5. NoGlobal \in GlobalRow
  BY DEF NoGlobal, GlobalRow
<1>6. Idle \in AttemptState
  BY <1>1, <1>2 DEF Idle, AttemptState, Pcs
<1>7. QED
  BY <1>2, <1>3, <1>4, <1>5, <1>6

(* The values the operations write into the fields of a row.                *)
LEMMA FieldValues ==
    /\ 0 \in 0..Lease /\ Lease \in 0..Lease
    /\ 0 \in 0..RetryDelay /\ RetryDelay \in 0..RetryDelay
    /\ 0 \in 0..Cooldown /\ Cooldown \in 0..Cooldown
    /\ 0 \in Versions
  BY DEF Versions

(* A row with one field replaced by a value of the field's type.            *)
LEMMA JobRowWith ==
    ASSUME NEW r \in JobRow
    PROVE  /\ \A v \in {"none", "running", "done", "error"} : [r EXCEPT !.status = v] \in JobRow
           /\ \A v \in Attempts \cup {NoToken} : [r EXCEPT !.token = v] \in JobRow
           /\ \A v \in 0..Lease : [r EXCEPT !.lease = v] \in JobRow
           /\ \A v \in 0..RetryDelay : [r EXCEPT !.retry = v] \in JobRow
           /\ \A v \in 0..DefaultRetries : [r EXCEPT !.retries = v] \in JobRow
           /\ \A v \in Versions : [r EXCEPT !.success = v] \in JobRow
<1>1. \A v \in {"none", "running", "done", "error"} : [r EXCEPT !.status = v] \in JobRow
  BY DEF JobRow
<1>2. \A v \in Attempts \cup {NoToken} : [r EXCEPT !.token = v] \in JobRow
  BY DEF JobRow
<1>3. \A v \in 0..Lease : [r EXCEPT !.lease = v] \in JobRow
  BY DEF JobRow
<1>4. \A v \in 0..RetryDelay : [r EXCEPT !.retry = v] \in JobRow
  BY DEF JobRow
<1>5. \A v \in 0..DefaultRetries : [r EXCEPT !.retries = v] \in JobRow
  BY DEF JobRow
<1>6. \A v \in Versions : [r EXCEPT !.success = v] \in JobRow
  BY DEF JobRow
<1>7. QED
  BY <1>1, <1>2, <1>3, <1>4, <1>5, <1>6

(* The same for the row of the global job.                                  *)
LEMMA GlobalRowWith ==
    ASSUME NEW g \in GlobalRow
    PROVE  /\ \A v \in {"none", "pending", "running", "done", "error"} : [g EXCEPT !.status = v] \in GlobalRow
           /\ \A v \in Attempts \cup {NoToken} : [g EXCEPT !.token = v] \in GlobalRow
           /\ \A v \in 0..Lease : [g EXCEPT !.lease = v] \in GlobalRow
           /\ \A v \in 0..RetryDelay : [g EXCEPT !.retry = v] \in GlobalRow
           /\ \A v \in {0, 1} : [g EXCEPT !.failed = v] \in GlobalRow
           /\ \A v \in 0..Cooldown : [g EXCEPT !.cooldown = v] \in GlobalRow
<1>1. \A v \in {"none", "pending", "running", "done", "error"} : [g EXCEPT !.status = v] \in GlobalRow
  BY DEF GlobalRow
<1>2. \A v \in Attempts \cup {NoToken} : [g EXCEPT !.token = v] \in GlobalRow
  BY DEF GlobalRow
<1>3. \A v \in 0..Lease : [g EXCEPT !.lease = v] \in GlobalRow
  BY DEF GlobalRow
<1>4. \A v \in 0..RetryDelay : [g EXCEPT !.retry = v] \in GlobalRow
  BY DEF GlobalRow
<1>5. \A v \in {0, 1} : [g EXCEPT !.failed = v] \in GlobalRow
  BY DEF GlobalRow
<1>6. \A v \in 0..Cooldown : [g EXCEPT !.cooldown = v] \in GlobalRow
  BY DEF GlobalRow
<1>7. QED
  BY <1>1, <1>2, <1>3, <1>4, <1>5, <1>6

(* Finishing a job sets its success to the version it was claimed for.      *)
LEMMA DoneRow ==
    ASSUME NEW r \in JobRow
    PROVE  /\ Done(r) \in JobRow
           /\ Done(r).status = "done" /\ Done(r).success = r.input
<1> DEFINE r1 == [r EXCEPT !.status = "done"]
           r2 == [r1 EXCEPT !.token = NoToken]
           r3 == [r2 EXCEPT !.lease = 0]
           r4 == [r3 EXCEPT !.success = r.input]
<1>1. r1 \in JobRow /\ r1.status = "done"
  BY JobRowWith DEF JobRow
<1> HIDE DEF r1
<1>2. r2 \in JobRow /\ r2.status = "done"
  BY <1>1, JobRowWith DEF JobRow
<1> HIDE DEF r2
<1>3. r3 \in JobRow
  BY <1>2, JobRowWith, FieldValues
<1>4. r3.status = "done"
  BY <1>2 DEF JobRow
<1> HIDE DEF r3
<1>5. r.input \in Versions
  BY DEF JobRow
<1>6. r4 \in JobRow
  BY <1>3, <1>5, JobRowWith
<1>7. r4.status = "done" /\ r4.success = r.input
  BY <1>3, <1>4 DEF JobRow
<1>8. Done(r) = r4
  BY DEF Done, r1, r2, r3
<1>9. QED
  BY <1>6, <1>7, <1>8

(* A failure costs a retry.                                                 *)
LEMMA ErroredRow ==
    ASSUME NEW r \in JobRow, r.retries >= 1
    PROVE  /\ Errored(r) \in JobRow
           /\ Errored(r).status = "error" /\ Errored(r).success = r.success
<1> DEFINE r1 == [r EXCEPT !.status = "error"]
           r2 == [r1 EXCEPT !.token = NoToken]
           r3 == [r2 EXCEPT !.lease = 0]
           r4 == [r3 EXCEPT !.retry = RetryDelay]
           r5 == [r4 EXCEPT !.retries = @ - 1]
           Same(x) == x.status = "error" /\ x.success = r.success /\ x.retries = r.retries
<1>1. r1 \in JobRow /\ Same(r1)
  BY JobRowWith DEF JobRow
<1> HIDE DEF r1
<1>2. r2 \in JobRow /\ Same(r2)
  BY <1>1, JobRowWith DEF JobRow
<1> HIDE DEF r2
<1>3. r3 \in JobRow
  BY <1>2, JobRowWith, FieldValues
<1>4. Same(r3)
  BY <1>2 DEF JobRow
<1> HIDE DEF r3
<1>5. r4 \in JobRow
  BY <1>3, JobRowWith, FieldValues
<1>6. Same(r4)
  BY <1>3, <1>4 DEF JobRow
<1> HIDE DEF r4
<1>7. r4.retries - 1 \in 0..DefaultRetries
  BY <1>5, <1>6 DEF JobRow
<1>8. r5 \in JobRow
  BY <1>5, <1>7, JobRowWith
<1>9. r5.status = "error" /\ r5.success = r.success
  BY <1>5, <1>6 DEF JobRow
<1>10. Errored(r) = r5
  BY DEF Errored, r1, r2, r3, r4
<1>11. QED
  BY <1>8, <1>9, <1>10

(* Enqueueing keeps the row of the global job well-formed.                  *)
LEMMA EnqueuedRow ==
    ASSUME NEW g \in GlobalRow
    PROVE  Enqueued(g) \in GlobalRow
<1> DEFINE g1 == [g EXCEPT !.status = "pending"]
<1>1. g1 \in GlobalRow
  BY GlobalRowWith
<1> HIDE DEF g1
<1>2. [g1 EXCEPT !.retry = 0] \in GlobalRow
  BY <1>1, GlobalRowWith, FieldValues
<1>3. [g EXCEPT !.status = "pending", !.retry = 0] = [g1 EXCEPT !.retry = 0]
  BY DEF g1
<1>4. QED
  BY <1>2, <1>3 DEF Enqueued

(* A claimed global row.                                                    *)
LEMMA ClaimedGlobalRow ==
    ASSUME NEW a \in Attempts
    PROVE  [NoGlobal EXCEPT !.status = "running", !.token = a, !.lease = Lease] \in GlobalRow
<1> DEFINE g1 == [NoGlobal EXCEPT !.status = "running"]
           g2 == [g1 EXCEPT !.token = a]
<1>1. g1 \in GlobalRow
  BY GlobalRowWith, DefaultTypes
<1> HIDE DEF g1
<1>2. g2 \in GlobalRow
  BY <1>1, GlobalRowWith
<1> HIDE DEF g2
<1>3. [g2 EXCEPT !.lease = Lease] \in GlobalRow
  BY <1>2, GlobalRowWith, FieldValues
<1>4. [NoGlobal EXCEPT !.status = "running", !.token = a, !.lease = Lease] = [g2 EXCEPT !.lease = Lease]
  BY DEF g1, g2
<1>5. QED
  BY <1>3, <1>4

(* The row of a consolidation that succeeded, and of one that failed.       *)
LEMMA EndedGlobalRow ==
    ASSUME global \in GlobalRow
    PROVE  /\ GlobalDone \in GlobalRow
           /\ [global EXCEPT !.status = "error", !.token = NoToken, !.lease = 0,
                             !.retry = RetryDelay, !.failed = 1] \in GlobalRow
<1> DEFINE End1(s) == [global EXCEPT !.status = s]
           End2(s) == [End1(s) EXCEPT !.token = NoToken]
           End3(s) == [End2(s) EXCEPT !.lease = 0]
           d4 == [End3("done") EXCEPT !.failed = 0]
           d5 == [d4 EXCEPT !.cooldown = Cooldown]
           e4 == [End3("error") EXCEPT !.retry = RetryDelay]
           e5 == [e4 EXCEPT !.failed = 1]
<1>1. \A s \in {"done", "error"} : End1(s) \in GlobalRow
  BY GlobalRowWith
<1> HIDE DEF End1
<1>2. \A s \in {"done", "error"} : End2(s) \in GlobalRow
  BY <1>1, GlobalRowWith
<1> HIDE DEF End2
<1>3. \A s \in {"done", "error"} : End3(s) \in GlobalRow
  BY <1>2, GlobalRowWith, FieldValues
<1> HIDE DEF End3
<1>4. d4 \in GlobalRow
  BY <1>3, GlobalRowWith
<1>5. e4 \in GlobalRow
  BY <1>3, GlobalRowWith, FieldValues
<1> HIDE DEF d4, e4
<1>6. d5 \in GlobalRow
  BY <1>4, GlobalRowWith, FieldValues
<1>7. e5 \in GlobalRow
  BY <1>5, GlobalRowWith
<1>8. GlobalDone = d5
  BY DEF GlobalDone, End1, End2, End3, d4
<1>9. [global EXCEPT !.status = "error", !.token = NoToken, !.lease = 0,
                     !.retry = RetryDelay, !.failed = 1] = e5
  BY DEF End1, End2, End3, e4
<1>10. QED
  BY <1>6, <1>7, <1>8, <1>9

(* Time passes for a row.                                                   *)
LEMMA LessBound ==
    ASSUME NEW n \in Nat, NEW k \in 0..n
    PROVE  Less(k) \in 0..n
  BY DEF Less

(* A tick changes the lease and the delay of a row, and nothing else.        *)
LEMMA TickedJobRow ==
    ASSUME NEW r \in JobRow
    PROVE  /\ [r EXCEPT !.lease = Less(@), !.retry = Less(@)] \in JobRow
           /\ [r EXCEPT !.lease = Less(@), !.retry = Less(@)].status = r.status
           /\ [r EXCEPT !.lease = Less(@), !.retry = Less(@)].token = r.token
           /\ [r EXCEPT !.lease = Less(@), !.retry = Less(@)].retries = r.retries
           /\ [r EXCEPT !.lease = Less(@), !.retry = Less(@)].input = r.input
           /\ [r EXCEPT !.lease = Less(@), !.retry = Less(@)].success = r.success
           /\ [r EXCEPT !.lease = Less(@), !.retry = Less(@)].lease = Less(r.lease)
<1> DEFINE r1 == [r EXCEPT !.lease = Less(@)]
           r2 == [r1 EXCEPT !.retry = Less(@)]
<1>1. r.lease \in 0..Lease /\ r.retry \in 0..RetryDelay
  BY DEF JobRow
<1>2. Less(r.lease) \in 0..Lease /\ Less(r.retry) \in 0..RetryDelay
  BY <1>1, LessBound
<1>3. r1 \in JobRow
  BY <1>2, JobRowWith
<1>4. /\ r1.status = r.status /\ r1.token = r.token /\ r1.retries = r.retries
      /\ r1.input = r.input /\ r1.success = r.success /\ r1.lease = Less(r.lease) /\ r1.retry = r.retry
  BY DEF JobRow
<1> HIDE DEF r1
<1>5. r2 \in JobRow
  BY <1>2, <1>3, <1>4, JobRowWith
<1>6. /\ r2.status = r.status /\ r2.token = r.token /\ r2.retries = r.retries
      /\ r2.input = r.input /\ r2.success = r.success /\ r2.lease = Less(r.lease)
  BY <1>3, <1>4 DEF JobRow
<1>7. [r EXCEPT !.lease = Less(@), !.retry = Less(@)] = r2
  BY DEF r1, JobRow
<1>8. QED
  BY <1>5, <1>6, <1>7

(* The same for the row of the global job.                                  *)
LEMMA TickedGlobalRow ==
    ASSUME NEW g \in GlobalRow
    PROVE  [g EXCEPT !.lease = Less(@), !.retry = Less(@), !.cooldown = Less(@)] \in GlobalRow
<1> DEFINE g1 == [g EXCEPT !.lease = Less(@)]
           g2 == [g1 EXCEPT !.retry = Less(@)]
           g3 == [g2 EXCEPT !.cooldown = Less(@)]
<1>1. g.lease \in 0..Lease /\ g.retry \in 0..RetryDelay /\ g.cooldown \in 0..Cooldown
  BY DEF GlobalRow
<1>2. Less(g.lease) \in 0..Lease /\ Less(g.retry) \in 0..RetryDelay /\ Less(g.cooldown) \in 0..Cooldown
  BY <1>1, LessBound
<1>3. g1 \in GlobalRow
  BY <1>2, GlobalRowWith
<1>4. g1.retry = g.retry /\ g1.cooldown = g.cooldown
  BY DEF GlobalRow
<1> HIDE DEF g1
<1>5. g2 \in GlobalRow
  BY <1>2, <1>3, <1>4, GlobalRowWith
<1>6. g2.cooldown = g.cooldown
  BY <1>3, <1>4 DEF GlobalRow
<1> HIDE DEF g2
<1>7. g3 \in GlobalRow
  BY <1>2, <1>5, <1>6, GlobalRowWith
<1>8. [g EXCEPT !.lease = Less(@), !.retry = Less(@), !.cooldown = Less(@)] = g3
  BY DEF g1, g2, GlobalRow
<1>9. QED
  BY <1>7, <1>8

(* A claimed row.                                                           *)
LEMMA ClaimedRow ==
    ASSUME NEW a \in Attempts, NEW n \in 0..DefaultRetries, NEW src \in Versions, NEW suc \in Versions
    PROVE  [status |-> "running", token |-> a, lease |-> Lease, retry |-> 0,
            retries |-> n, input |-> src, success |-> suc] \in JobRow
  BY DEF JobRow

(* An attempt that begins, and one that goes on.                            *)
LEMMA BegunAttempt ==
    ASSUME NEW pc \in Pcs, NEW t \in Threads, NEW src \in Versions, NEW sel \in [Threads -> Versions]
    PROVE  /\ [Idle EXCEPT !.pc = pc] \in AttemptState
           /\ [Idle EXCEPT !.pc = pc, !.t = t] \in AttemptState
           /\ [Idle EXCEPT !.pc = pc, !.t = t, !.src = src] \in AttemptState
           /\ [Idle EXCEPT !.pc = pc, !.sel = sel] \in AttemptState
  BY DefaultTypes DEF AttemptState

(* An attempt that goes on with the versions it selected.                   *)
LEMMA BegunSelection ==
    ASSUME NEW pc \in Pcs, NEW sel \in [Threads -> Versions]
    PROVE  [Idle EXCEPT !.pc = pc, !.sel = sel] \in AttemptState
  BY DefaultTypes DEF AttemptState

(* An attempt that goes on keeps its thread and its version.                *)
LEMMA MovedAttempt ==
    ASSUME NEW pc \in Pcs, NEW r \in AttemptState
    PROVE  /\ [r EXCEPT !.pc = pc] \in AttemptState
           /\ [r EXCEPT !.pc = pc].t = r.t /\ [r EXCEPT !.pc = pc].src = r.src
           /\ [r EXCEPT !.pc = pc].pc = pc
  BY DEF AttemptState

(* The fields of a row and of an attempt.                                   *)
LEMMA JobFields ==
    ASSUME NEW r \in JobRow
    PROVE  /\ r.retries \in 0..DefaultRetries /\ r.lease \in 0..Lease
           /\ r.input \in Versions /\ r.success \in Versions
  BY DEF JobRow

(* The fields of an output, and an output with one of them replaced.        *)
LEMMA OutputFields ==
    ASSUME NEW r \in OutputRow
    PROVE  /\ r.src \in Versions /\ r.sel \in Versions
           /\ \A v \in Versions : /\ [r EXCEPT !.src = v] \in OutputRow
                                  /\ [r EXCEPT !.sel = v] \in OutputRow
                                  /\ [r EXCEPT !.src = v].src = v /\ [r EXCEPT !.src = v].sel = r.sel
                                  /\ [r EXCEPT !.sel = v].sel = v /\ [r EXCEPT !.sel = v].src = r.src
  BY DEF OutputRow

(* The version and the selection of an attempt.                             *)
LEMMA AttemptFields ==
    ASSUME NEW r \in AttemptState
    PROVE  r.src \in Versions /\ r.sel \in [Threads -> Versions]
  BY DEF AttemptState

(***************************************************************************)
(* Type correctness.                                                        *)
(***************************************************************************)

(* Ending an attempt, and any of its moves, keep the type of attempt.       *)
LEMMA MoveType ==
    ASSUME TypeOK, NEW a \in Attempts, NEW new \in AttemptState, attempt' = [attempt EXCEPT ![a] = new]
    PROVE  attempt' \in [Attempts -> AttemptState]
  BY DEF TypeOK

(* An attempt that ends.                                                    *)
LEMMA EndType ==
    ASSUME TypeOK, NEW a \in Attempts, End(a)
    PROVE  attempt' \in [Attempts -> AttemptState]
  BY DefaultTypes, MoveType DEF End, Become

(* An attempt goes on with another step.                                    *)
LEMMA GotoType ==
    ASSUME TypeOK, NEW a \in Attempts, NEW pc \in Pcs, attempt' = [attempt EXCEPT ![a].pc = pc]
    PROVE  attempt' \in [Attempts -> AttemptState]
<1>1. [attempt[a] EXCEPT !.pc = pc] \in AttemptState
  BY MovedAttempt DEF TypeOK
<1>2. attempt' = [attempt EXCEPT ![a] = [attempt[a] EXCEPT !.pc = pc]]
  BY DEF TypeOK
<1>3. QED
  BY <1>1, <1>2, MoveType

(* Every step keeps the types of the rows and the attempts.                 *)
LEMMA TypeStep ==
    ASSUME TypeOK, RowsInv, AttemptInv, [Next]_vars
    PROVE  TypeOK'
<1> USE DefaultTypes
<1>1. ASSUME NEW a \in Attempts, NEW t \in Threads, Scan(a, t)
      PROVE  TypeOK'
  <2>1. [Idle EXCEPT !.pc = "claim", !.t = t, !.src = source[t]] \in AttemptState
    BY BegunAttempt DEF TypeOK, Pcs
  <2>2. attempt' \in [Attempts -> AttemptState]
    BY <1>1, <2>1, MoveType DEF Scan, Become
  <2>3. QED
    BY <1>1, <2>2 DEF Scan, TypeOK
<1>2. ASSUME NEW a \in Attempts, NEW t \in Threads, PolluteReads(a, t)
      PROVE  TypeOK'
  <2>1. output[t].sel \in Versions
    BY OutputFields DEF TypeOK
  <2>2. [Idle EXCEPT !.pc = "pollute", !.t = t, !.src = output[t].sel] \in AttemptState
    BY <2>1, BegunAttempt DEF Pcs
  <2>3. attempt' \in [Attempts -> AttemptState]
    BY <1>2, <2>2, MoveType DEF PolluteReads, Become
  <2>4. QED
    BY <1>2, <2>3 DEF PolluteReads, TypeOK
<1>3. ASSUME NEW a \in Attempts, NEW t \in Threads, DeleteMemory(a, t)
      PROVE  TypeOK'
  <2>1. [Idle EXCEPT !.pc = "delete", !.t = t] \in AttemptState
    BY BegunAttempt DEF Pcs
  <2>2. attempt' \in [Attempts -> AttemptState]
    BY <1>3, <2>1, MoveType DEF DeleteMemory, Become
  <2>3. global' \in GlobalRow
    BY <1>3, EnqueuedRow DEF DeleteMemory, TypeOK
  <2>4. job' \in [Threads -> JobRow]
    BY <1>3 DEF DeleteMemory, TypeOK
  <2>5. output' \in [Threads -> OutputRow] /\ consolidated' \in [Threads -> Versions]
    BY <1>3, FieldValues DEF DeleteMemory, Delete, TypeOK
  <2>6. QED
    BY <1>3, <2>2, <2>3, <2>4, <2>5 DEF DeleteMemory, TypeOK
<1>4. ASSUME NEW a \in Attempts, Claim(a)
      PROVE  TypeOK'
  <2> DEFINE t == attempt[a].t
             src == attempt[a].src
             n == IF src > job[t].input THEN DefaultRetries ELSE job[t].retries
             new == [status |-> "running", token |-> a, lease |-> Lease, retry |-> 0,
                     retries |-> n, input |-> src, success |-> job[t].success]
  <2>1. t \in Threads /\ src \in Versions /\ job[t] \in JobRow
    BY <1>4, AttemptFields DEF Claim, AttemptInv, TypeOK
  <2>2. CASE ~UpToDate(t, src) /\ CanClaim(t, src)
    <3>1. n \in 0..DefaultRetries /\ job[t].success \in Versions
      BY <2>1, JobFields
    <3>2. new \in JobRow
      BY <2>1, <3>1, ClaimedRow
    <3>3. job' = [job EXCEPT ![t] = new]
      BY <1>4, <2>2 DEF Claim
    <3> HIDE DEF new
    <3>4. job' \in [Threads -> JobRow]
      BY <2>1, <3>2, <3>3 DEF TypeOK
    <3>5. attempt' \in [Attempts -> AttemptState]
      BY <1>4, <2>2, GotoType DEF Claim, Pcs
    <3>6. QED
      BY <1>4, <3>4, <3>5 DEF Claim, TypeOK
  <2>3. CASE ~(~UpToDate(t, src) /\ CanClaim(t, src))
    <3>1. End(a) /\ UNCHANGED job
      BY <1>4, <2>3 DEF Claim
    <3>2. QED
      BY <1>4, <3>1, EndType DEF Claim, TypeOK
  <2>4. QED
    BY <2>2, <2>3
<1>5. ASSUME NEW a \in Attempts, Succeed(a)
      PROVE  TypeOK'
  <2> DEFINE t == attempt[a].t
             src == attempt[a].src
             new == IF src >= output[t].src THEN src ELSE output[t].src
  <2>1. t \in Threads /\ src \in Versions /\ job[t] \in JobRow /\ output[t] \in OutputRow
    BY <1>5, AttemptFields DEF Succeed, AttemptInv, TypeOK
  <2>2. attempt' \in [Attempts -> AttemptState]
    BY <1>5, EndType DEF Succeed
  <2>3. job' \in [Threads -> JobRow]
    BY <1>5, <2>1, DoneRow DEF Succeed, TypeOK
  <2>4. new \in Versions
    BY <2>1, OutputFields
  <2>5. Owns(a, t) => output' = [output EXCEPT ![t] = [output[t] EXCEPT !.src = new]]
    BY <1>5, <2>1 DEF Succeed, TypeOK
  <2> HIDE DEF new
  <2>6. output' \in [Threads -> OutputRow]
    <3>1. [output[t] EXCEPT !.src = new] \in OutputRow
      BY <2>1, <2>4, OutputFields
    <3>2. ~Owns(a, t) => output' = output
      BY <1>5 DEF Succeed
    <3>3. QED
      BY <2>1, <2>5, <3>1, <3>2 DEF TypeOK
  <2>7. global' \in GlobalRow
    BY <1>5, EnqueuedRow DEF Succeed, TypeOK
  <2>8. QED
    BY <1>5, <2>2, <2>3, <2>6, <2>7 DEF Succeed, TypeOK
<1>6. ASSUME NEW a \in Attempts, SucceedNoOutput(a)
      PROVE  TypeOK'
  <2>1. attempt[a].t \in Threads
    BY <1>6 DEF SucceedNoOutput, AttemptInv
  <2>2. attempt' \in [Attempts -> AttemptState]
    BY <1>6, EndType DEF SucceedNoOutput
  <2>3. job' \in [Threads -> JobRow]
    BY <1>6, <2>1, DoneRow DEF SucceedNoOutput, TypeOK
  <2>4. output' \in [Threads -> OutputRow] /\ consolidated' \in [Threads -> Versions]
    BY <1>6, <2>1, FieldValues DEF SucceedNoOutput, Delete, TypeOK
  <2>5. global' \in GlobalRow
    BY <1>6, EnqueuedRow DEF SucceedNoOutput, TypeOK
  <2>6. QED
    BY <1>6, <2>2, <2>3, <2>4, <2>5 DEF SucceedNoOutput, TypeOK
<1>7. ASSUME NEW a \in Attempts, FailStage1(a)
      PROVE  TypeOK'
  <2>1. attempt[a].t \in Threads
    BY <1>7 DEF FailStage1, AttemptInv
  <2>2. job' \in [Threads -> JobRow]
    BY <1>7, <2>1, ErroredRow DEF FailStage1, Owns, RowsInv, TypeOK
  <2>3. QED
    BY <1>7, <2>2, EndType DEF FailStage1, TypeOK
<1>8. ASSUME NEW a \in Attempts, ClaimGlobal(a)
      PROVE  TypeOK'
  <2>1. [Idle EXCEPT !.pc = "select"] \in AttemptState
    BY MovedAttempt DEF Pcs
  <2>2. attempt' \in [Attempts -> AttemptState]
    BY <1>8, <2>1, MoveType DEF ClaimGlobal, Become
  <2>3. global' \in GlobalRow
    BY <1>8, ClaimedGlobalRow DEF ClaimGlobal
  <2>4. QED
    BY <1>8, <2>2, <2>3 DEF ClaimGlobal, TypeOK
<1>9. ASSUME NEW a \in Attempts, Select(a)
      PROVE  TypeOK'
  <2>1. [Idle EXCEPT !.pc = "fail"] \in AttemptState
    BY MovedAttempt DEF Pcs
  <2>2. ASSUME NEW S, NEW pc \in {"agent", "mark"}
        PROVE  [Idle EXCEPT !.pc = pc,
                   !.sel = [t \in Threads |-> IF t \in S THEN output[t].src ELSE 0]] \in AttemptState
    <3> DEFINE sel == [t \in Threads |-> IF t \in S THEN output[t].src ELSE 0]
    <3>1. sel \in [Threads -> Versions]
      BY OutputFields, FieldValues DEF TypeOK
    <3> HIDE DEF sel
    <3>2. [Idle EXCEPT !.pc = pc, !.sel = sel] \in AttemptState
      BY <2>2, <3>1, BegunSelection DEF Pcs
    <3>3. QED
      BY <3>2 DEF sel
  <2>3. attempt' \in [Attempts -> AttemptState]
    BY <1>9, <2>1, <2>2, MoveType DEF Select, Become
  <2>4. QED
    BY <1>9, <2>3 DEF Select, TypeOK
<1>10. ASSUME NEW a \in Attempts, Heartbeat(a)
      PROVE  TypeOK'
  <2>1. [Idle EXCEPT !.pc = "fail"] \in AttemptState
    BY MovedAttempt DEF Pcs
  <2>2. attempt' \in [Attempts -> AttemptState]
    BY <1>10, <2>1, MoveType DEF Heartbeat, Become, TypeOK
  <2>3. global' \in GlobalRow
    BY <1>10, GlobalRowWith, FieldValues DEF Heartbeat, Renewed, TypeOK
  <2>4. QED
    BY <1>10, <2>2, <2>3 DEF Heartbeat, TypeOK
<1>11. ASSUME NEW a \in Attempts, AgentCompletes(a)
      PROVE  TypeOK'
  <2>1. attempt' \in [Attempts -> AttemptState]
    BY <1>11, GotoType, EndType DEF AgentCompletes, Pcs
  <2>2. global' \in GlobalRow
    BY <1>11, GlobalRowWith, FieldValues DEF AgentCompletes, Renewed, TypeOK
  <2>3. QED
    BY <1>11, <2>1, <2>2 DEF AgentCompletes, TypeOK
<1>12. ASSUME NEW a \in Attempts, AgentFails(a)
      PROVE  TypeOK'
  <2>1. [Idle EXCEPT !.pc = "fail"] \in AttemptState
    BY MovedAttempt DEF Pcs
  <2>2. attempt' \in [Attempts -> AttemptState]
    BY <1>12, <2>1, MoveType DEF AgentFails, Become
  <2>3. QED
    BY <1>12, <2>2 DEF AgentFails, TypeOK
<1>13. ASSUME NEW a \in Attempts, MarkSucceeded(a)
      PROVE  TypeOK'
  <2> DEFINE sel == attempt[a].sel
             V(t) == IF sel[t] > 0 /\ sel[t] = output[t].src THEN sel[t] ELSE 0
  <2>1. sel \in [Threads -> Versions]
    BY AttemptFields DEF TypeOK
  <2>2. \A t \in Threads : V(t) \in Versions
    BY <2>1, FieldValues
  <2>3. OwnsGlobal(a) => output' = [t \in Threads |-> [output[t] EXCEPT !.sel = V(t)]]
    BY <1>13 DEF MarkSucceeded
  <2> HIDE DEF V
  <2>4. output' \in [Threads -> OutputRow]
    <3>1. \A t \in Threads : [output[t] EXCEPT !.sel = V(t)] \in OutputRow
      BY <2>2, OutputFields DEF TypeOK
    <3>2. ~OwnsGlobal(a) => output' = output
      BY <1>13 DEF MarkSucceeded
    <3>3. CASE OwnsGlobal(a)
      <4>1. output' = [t \in Threads |-> [output[t] EXCEPT !.sel = V(t)]]
        BY <2>3, <3>3
      <4>2. QED
        BY <3>1, <4>1
    <3>4. CASE ~OwnsGlobal(a)
      BY <3>2, <3>4 DEF TypeOK
    <3>5. QED
      BY <3>3, <3>4
  <2>5. global' \in GlobalRow
    BY <1>13, EndedGlobalRow DEF MarkSucceeded, TypeOK
  <2>6. consolidated' \in [Threads -> Versions]
    BY <1>13, <2>1 DEF MarkSucceeded, TypeOK
  <2>7. QED
    BY <1>13, <2>4, <2>5, <2>6, EndType DEF MarkSucceeded, TypeOK
<1>14. ASSUME NEW a \in Attempts, MarkFailed(a)
      PROVE  TypeOK'
  <2>1. global' \in GlobalRow
    BY <1>14, EndedGlobalRow DEF MarkFailed, TypeOK
  <2>2. QED
    BY <1>14, <2>1, EndType DEF MarkFailed, TypeOK
<1>15. ASSUME NEW a \in Attempts, PolluteMarks(a)
      PROVE  TypeOK'
  <2>1. global' \in GlobalRow
    BY <1>15, EnqueuedRow DEF PolluteMarks, TypeOK
  <2>2. mode' \in [Threads -> {"enabled", "polluted"}]
    BY <1>15 DEF PolluteMarks, TypeOK
  <2>3. QED
    BY <1>15, <2>1, <2>2, EndType DEF PolluteMarks, TypeOK
<1>16. ASSUME NEW a \in Attempts, DeleteThread(a)
      PROVE  TypeOK'
  <2>1. source' \in [Threads -> Versions] /\ mode' \in [Threads -> {"enabled", "polluted"}]
    BY <1>16, FieldValues DEF DeleteThread, TypeOK
  <2>2. QED
    BY <1>16, <2>1, EndType DEF DeleteThread, TypeOK
<1>17. ASSUME NEW a \in Attempts, Crash(a)
      PROVE  TypeOK'
  BY <1>17, EndType DEF Crash, TypeOK
<1>18. ASSUME NEW t \in Threads, ThreadChanges(t)
      PROVE  TypeOK'
  <2>1. source[t] + 1 \in Versions
    BY <1>18 DEF ThreadChanges, Versions, TypeOK
  <2>2. QED
    BY <1>18, <2>1 DEF ThreadChanges, TypeOK
<1>19. ASSUME NEW t \in Threads, Prune(t)
      PROVE  TypeOK'
  BY <1>19, FieldValues DEF Prune, Delete, TypeOK
<1>20. ASSUME Clear
      PROVE  TypeOK'
  BY <1>20 DEF Clear, TypeOK
<1>21. ASSUME Tick
      PROVE  TypeOK'
  <2>1. job' \in [Threads -> JobRow]
    BY <1>21, TickedJobRow DEF Tick, TypeOK
  <2>2. global' \in GlobalRow
    BY <1>21, TickedGlobalRow DEF Tick, TypeOK
  <2>3. QED
    BY <1>21, <2>1, <2>2 DEF Tick, TypeOK
<1>22. CASE UNCHANGED vars
  BY <1>22 DEF vars, TypeOK
<1>23. QED
  BY <1>1, <1>2, <1>3, <1>4, <1>5, <1>6, <1>7, <1>8, <1>9, <1>10, <1>11, <1>12, <1>13,
     <1>14, <1>15, <1>16, <1>17, <1>18, <1>19, <1>20, <1>21, <1>22 DEF Next

(***************************************************************************)
(* The other conjuncts of the invariant, step by step.                      *)
(***************************************************************************)

Core ==
    /\ RowsInv /\ AttemptInv /\ OwnInv
    /\ OutputMatchesWatermark /\ SelectedWasConsolidated /\ RunningCapHolds

(* Only an attempt that extracts, or is dead, owns a row.                   *)
LEMMA NotOwner ==
    ASSUME OwnInv, NEW a \in Attempts, attempt[a].pc \notin {"idle", "extract"}
    PROVE  \A t \in Threads : ~Owns(a, t)
  BY DEF OwnInv

(* An attempt that owns nothing may begin or go on, and any may end.        *)
LEMMA MoveKeeps ==
    ASSUME TypeOK, AttemptInv, OwnInv, NEW a \in Attempts, NEW new \in AttemptState,
           UNCHANGED <<job, output>>, attempt' = [attempt EXCEPT ![a] = new],
           new.pc \in {"claim", "extract", "pollute", "delete"} => new.t \in Threads,
           new.pc = "idle" \/ \A t \in Threads : ~Owns(a, t)
    PROVE  AttemptInv' /\ OwnInv'
<1>1. \A b \in Attempts : attempt'[b] = IF b = a THEN new ELSE attempt[b]
  BY DEF TypeOK
<1>2. AttemptInv'
  BY <1>1 DEF AttemptInv
<1>3. \A b \in Attempts, t \in Threads : Owns(b, t)' <=> Owns(b, t)
  BY DEF Owns
<1>4. OwnInv'
  <2>1. SUFFICES ASSUME NEW b \in Attempts, NEW t \in Threads, Owns(b, t)
                 PROVE  \/ attempt'[b].pc = "idle"
                        \/ /\ attempt'[b].pc = "extract" /\ attempt'[b].t = t
                           /\ attempt'[b].src = job[t].input
                           /\ output[t].src < attempt'[b].src
                           /\ job[t].success < attempt'[b].src
    BY <1>3 DEF OwnInv
  <2>2. CASE b = a
    BY <1>1, <2>1, <2>2
  <2>3. CASE b # a
    BY <1>1, <2>1, <2>3 DEF OwnInv
  <2>4. QED
    BY <2>2, <2>3
<1>5. QED
  BY <1>2, <1>4

(* The other conjuncts read job, output and consolidated only.              *)
LEMMA QuietKeeps ==
    ASSUME Core, UNCHANGED <<job, output, consolidated>>, AttemptInv', OwnInv'
    PROVE  Core'
  BY DEF Core, RowsInv, OutputMatchesWatermark, SelectedWasConsolidated, RunningCapHolds, Running

(* Fields of the attempts that begin.                                       *)
LEMMA IdleFields == Idle.pc = "idle"
  BY DEF Idle

(* The step and the thread of an attempt that begins.                       *)
LEMMA BegunFields ==
    ASSUME NEW pc, NEW t, NEW src
    PROVE  /\ [Idle EXCEPT !.pc = pc, !.t = t].pc = pc
           /\ [Idle EXCEPT !.pc = pc, !.t = t].t = t
           /\ [Idle EXCEPT !.pc = pc, !.t = t, !.src = src].pc = pc
           /\ [Idle EXCEPT !.pc = pc, !.t = t, !.src = src].t = t
  BY DEF Idle

(* The step of an attempt that begins without a thread.                     *)
LEMMA StepFields ==
    ASSUME NEW pc, NEW sel
    PROVE  [Idle EXCEPT !.pc = pc].pc = pc /\ [Idle EXCEPT !.pc = pc, !.sel = sel].pc = pc
  BY DEF Idle

(* The cap holds as long as no job begins to run.                           *)
LEMMA CapKept ==
    ASSUME RunningCapHolds, \A t \in Threads : t \in Running(Threads)' => t \in Running(Threads)
    PROVE  RunningCapHolds'
<1>1. IsFiniteSet(Running(Threads)) /\ Running(Threads)' \subseteq Running(Threads)
  BY FiniteAssumption, FS_Subset DEF Running
<1>2. /\ Cardinality(Running(Threads)') <= Cardinality(Running(Threads))
      /\ Cardinality(Running(Threads)) \in Nat /\ Cardinality(Running(Threads)') \in Nat
  BY <1>1, FS_Subset, FS_CardinalityType
<1>3. QED
  BY <1>2 DEF RunningCapHolds

(* One job may begin to run below the cap.                                  *)
LEMMA CapReached ==
    ASSUME NEW t \in Threads, Cardinality(Running(Threads)) < MaxRunning,
           \A s \in Threads : s \in Running(Threads)' => s \in Running(Threads) \cup {t}
    PROVE  RunningCapHolds'
<1>1. IsFiniteSet(Running(Threads)) /\ Running(Threads)' \subseteq Running(Threads) \cup {t}
  BY FiniteAssumption, FS_Subset DEF Running
<1>2. /\ IsFiniteSet(Running(Threads) \cup {t})
      /\ Cardinality(Running(Threads) \cup {t}) <= Cardinality(Running(Threads)) + 1
      /\ Cardinality(Running(Threads)) \in Nat
  <2>1. IsFiniteSet(Running(Threads) \cup {t}) /\ Cardinality(Running(Threads)) \in Nat
    BY <1>1, FS_AddElement, FS_CardinalityType
  <2>2. Cardinality(Running(Threads) \cup {t}) =
          IF t \in Running(Threads) THEN Cardinality(Running(Threads)) ELSE Cardinality(Running(Threads)) + 1
    BY <1>1, FS_AddElement
  <2>3. QED
    BY <2>1, <2>2
<1>3. /\ Cardinality(Running(Threads)') <= Cardinality(Running(Threads) \cup {t})
      /\ Cardinality(Running(Threads)') \in Nat /\ Cardinality(Running(Threads) \cup {t}) \in Nat
  BY <1>1, <1>2, FS_Subset, FS_CardinalityType
<1>4. QED
  BY <1>2, <1>3 DEF RunningCapHolds

(* A scan, or a pollution, begins with what it read.                        *)
LEMMA BeginSteps ==
    ASSUME TypeOK, Core, NEW a \in Attempts, NEW t \in Threads, Scan(a, t) \/ PolluteReads(a, t)
    PROVE  Core'
<1> USE DefaultTypes, QuietKeeps
<1>1. AttemptInv /\ OwnInv
  BY DEF Core
<1>2. CASE Scan(a, t)
  <2> DEFINE new == [Idle EXCEPT !.pc = "claim", !.t = t, !.src = source[t]]
  <2>1. source[t] \in Versions
    BY OutputFields DEF TypeOK
  <2>2. new \in AttemptState
    BY <2>1, BegunAttempt DEF Pcs
  <2>3. new.pc = "claim" /\ new.t = t
    BY BegunFields
  <2>4. attempt' = [attempt EXCEPT ![a] = new] /\ \A s \in Threads : ~Owns(a, s)
    BY <1>2 DEF Scan, Become, Fresh
  <2> HIDE DEF new
  <2>5. AttemptInv' /\ OwnInv'
    BY <1>1, <1>2, <2>2, <2>3, <2>4, MoveKeeps DEF Scan
  <2>6. QED
    BY <1>2, <2>5 DEF Scan
<1>3. CASE PolluteReads(a, t)
  <2> DEFINE new == [Idle EXCEPT !.pc = "pollute", !.t = t, !.src = output[t].sel]
  <2>1. output[t].sel \in Versions
    BY OutputFields DEF TypeOK
  <2>2. new \in AttemptState
    BY <2>1, BegunAttempt DEF Pcs
  <2>3. new.pc = "pollute" /\ new.t = t
    BY BegunFields
  <2>4. attempt' = [attempt EXCEPT ![a] = new] /\ \A s \in Threads : ~Owns(a, s)
    BY <1>3 DEF PolluteReads, Become, Fresh
  <2> HIDE DEF new
  <2>5. AttemptInv' /\ OwnInv'
    BY <1>1, <1>3, <2>2, <2>3, <2>4, MoveKeeps DEF PolluteReads
  <2>6. QED
    BY <1>3, <2>5 DEF PolluteReads
<1>4. QED
  BY <1>2, <1>3

(* The other steps that touch no job, no output and no selection.           *)
LEMMA QuietSteps ==
    ASSUME TypeOK, Core, NEW a \in Attempts,
           \/ ClaimGlobal(a) \/ Select(a) \/ Heartbeat(a) \/ AgentCompletes(a) \/ AgentFails(a)
           \/ MarkFailed(a) \/ PolluteMarks(a) \/ DeleteThread(a) \/ Crash(a)
    PROVE  Core'
<1> USE DefaultTypes, QuietKeeps
<1>1. AttemptInv /\ OwnInv
  BY DEF Core
<1>2. ASSUME NEW pc \in {"fail", "select"}, Become(a, [Idle EXCEPT !.pc = pc]),
             \A s \in Threads : ~Owns(a, s), UNCHANGED <<job, output, consolidated>>
      PROVE  Core'
  <2> DEFINE new == [Idle EXCEPT !.pc = pc]
  <2>1. new \in AttemptState /\ new.pc = pc
    BY MovedAttempt, StepFields DEF Pcs
  <2>2. attempt' = [attempt EXCEPT ![a] = new]
    BY <1>2 DEF Become
  <2> HIDE DEF new
  <2>3. AttemptInv' /\ OwnInv'
    BY <1>1, <1>2, <2>1, <2>2, MoveKeeps
  <2>4. QED
    BY <1>2, <2>3
<1>3. CASE ClaimGlobal(a)
  BY <1>2, <1>3 DEF ClaimGlobal, Fresh
<1>4. CASE Select(a)
  <2>1. \A s \in Threads : ~Owns(a, s)
    BY <1>1, <1>4, NotOwner DEF Select
  <2>2. CASE Become(a, [Idle EXCEPT !.pc = "fail"])
    BY <1>2, <1>4, <2>1, <2>2 DEF Select
  <2>3. CASE \E S \in SUBSET {s \in Threads : output[s].src > 0 /\ Enabled(s)} :
             \E pc \in {"agent", "mark"} :
               Become(a, [Idle EXCEPT !.pc = pc,
                   !.sel = [s \in Threads |-> IF s \in S THEN output[s].src ELSE 0]])
    <3>1. PICK S \in SUBSET {s \in Threads : output[s].src > 0 /\ Enabled(s)}, pc \in {"agent", "mark"} :
               Become(a, [Idle EXCEPT !.pc = pc,
                   !.sel = [s \in Threads |-> IF s \in S THEN output[s].src ELSE 0]])
      BY <2>3, Zenon
    <3> DEFINE sel == [s \in Threads |-> IF s \in S THEN output[s].src ELSE 0]
    <3>2. sel \in [Threads -> Versions]
      <4>1. \A s \in Threads : output[s].src \in Versions
        BY OutputFields DEF TypeOK
      <4>2. QED
        BY <4>1, FieldValues
    <3>3. attempt' = [attempt EXCEPT ![a] = [Idle EXCEPT !.pc = pc, !.sel = sel]]
      BY <3>1 DEF Become
    <3> HIDE DEF sel
    <3>4. [Idle EXCEPT !.pc = pc, !.sel = sel] \in AttemptState
      BY <3>2, BegunSelection DEF Pcs
    <3>5. [Idle EXCEPT !.pc = pc, !.sel = sel].pc = pc
      BY StepFields
    <3>6. AttemptInv' /\ OwnInv'
      BY <1>1, <1>4, <2>1, <3>3, <3>4, <3>5, MoveKeeps DEF Select
    <3>7. QED
      BY <1>4, <3>6 DEF Select
  <2>4. QED
    BY <1>4, <2>2, <2>3 DEF Select
<1>5. CASE Heartbeat(a)
  <2>1. \A s \in Threads : ~Owns(a, s)
    BY <1>1, <1>5, NotOwner DEF Heartbeat
  <2>2. CASE OwnsGlobal(a)
    BY <1>1, <1>5, <2>2 DEF Heartbeat, AttemptInv, OwnInv, Owns
  <2>3. CASE ~OwnsGlobal(a)
    BY <1>2, <1>5, <2>1, <2>3 DEF Heartbeat
  <2>4. QED
    BY <2>2, <2>3
<1>6. CASE AgentCompletes(a)
  <2>1. \A s \in Threads : ~Owns(a, s)
    BY <1>1, <1>6, NotOwner DEF AgentCompletes
  <2>2. CASE OwnsGlobal(a)
    <3> DEFINE new == [attempt[a] EXCEPT !.pc = "mark"]
    <3>1. new \in AttemptState /\ new.pc = "mark"
      BY MovedAttempt DEF TypeOK, Pcs
    <3>2. attempt' = [attempt EXCEPT ![a] = new]
      BY <1>6, <2>2 DEF AgentCompletes, TypeOK
    <3> HIDE DEF new
    <3>3. AttemptInv' /\ OwnInv'
      BY <1>1, <1>6, <2>1, <3>1, <3>2, MoveKeeps DEF AgentCompletes
    <3>4. QED
      BY <1>6, <3>3 DEF AgentCompletes
  <2>3. CASE ~OwnsGlobal(a)
    <3>1. AttemptInv' /\ OwnInv'
      BY <1>1, <1>6, <2>3, MoveKeeps, IdleFields DEF AgentCompletes, End, Become
    <3>2. QED
      BY <1>6, <3>1 DEF AgentCompletes
  <2>4. QED
    BY <2>2, <2>3
<1>7. CASE AgentFails(a)
  <2>1. \A s \in Threads : ~Owns(a, s)
    BY <1>1, <1>7, NotOwner DEF AgentFails
  <2>2. QED
    BY <1>2, <1>7, <2>1 DEF AgentFails
<1>8. CASE MarkFailed(a) \/ PolluteMarks(a) \/ DeleteThread(a) \/ Crash(a)
  <2>1. End(a) /\ UNCHANGED <<job, output, consolidated>>
    BY <1>8 DEF MarkFailed, PolluteMarks, DeleteThread, Crash
  <2>2. AttemptInv' /\ OwnInv'
    BY <1>1, <2>1, MoveKeeps, IdleFields DEF End, Become
  <2>3. QED
    BY <2>1, <2>2
<1>9. QED
  BY <1>3, <1>4, <1>5, <1>6, <1>7, <1>8

(* A successful claim makes the attempt the owner of the version it claimed. *)
LEMMA ClaimStep ==
    ASSUME TypeOK, Core, NEW a \in Attempts, Claim(a)
    PROVE  Core'
<1> DEFINE t == attempt[a].t
           src == attempt[a].src
           n == IF src > job[t].input THEN DefaultRetries ELSE job[t].retries
           new == [status |-> "running", token |-> a, lease |-> Lease, retry |-> 0,
                   retries |-> n, input |-> src, success |-> job[t].success]
           go == [attempt[a] EXCEPT !.pc = "extract"]
<1>1. /\ t \in Threads /\ src \in Versions /\ job[t] \in JobRow /\ output[t] \in OutputRow
      /\ attempt[a] \in AttemptState
  BY AttemptFields DEF Claim, Core, AttemptInv, TypeOK
<1>2. CASE ~(~UpToDate(t, src) /\ CanClaim(t, src))
  <2>1. End(a) /\ UNCHANGED <<job, output, consolidated>>
    BY <1>2 DEF Claim
  <2>2. AttemptInv' /\ OwnInv'
    BY <2>1, MoveKeeps, IdleFields, DefaultTypes DEF End, Become, Core
  <2>3. QED
    BY <2>1, <2>2, QuietKeeps
<1>3. CASE ~UpToDate(t, src) /\ CanClaim(t, src)
  <2>1. job' = [job EXCEPT ![t] = new] /\ UNCHANGED <<output, consolidated>>
    BY <1>3 DEF Claim
  <2>2. attempt' = [attempt EXCEPT ![a] = go]
    BY <1>3, <1>1 DEF Claim, TypeOK
  <2>3. go.pc = "extract" /\ go.t = t /\ go.src = src
    BY <1>1, MovedAttempt DEF Pcs
  <2>4. output[t].src < src /\ job[t].success < src
    BY <1>1, <1>3, JobFields, OutputFields DEF UpToDate, Versions
  <2>5. n >= 1
    <3>1. CASE src > job[t].input
      BY <3>1
    <3>2. CASE ~(src > job[t].input)
      <4>1. job[t].input \in Versions /\ output[t].src \in Versions /\ job[t].retries \in 0..DefaultRetries
        BY <1>1, JobFields, OutputFields
      <4>2. job[t].status # "none"
        <5>1. SUFFICES ASSUME job[t].status = "none" PROVE FALSE
          OBVIOUS
        <5>2. job[t].input = 0
          BY <1>1, <5>1 DEF Core, RowsInv, NoJob
        <5>3. QED
          BY <1>1, <2>4, <3>2, <4>1, <5>2 DEF Versions
      <4>3. QED
        BY <1>3, <3>2, <4>1, <4>2 DEF CanClaim
    <3>3. QED
      BY <3>1, <3>2
  <2>6. /\ new.status = "running" /\ new.token = a /\ new.retries = n /\ new.input = src
        /\ new.success = job[t].success
    OBVIOUS
  <2> HIDE DEF new, go, n, src
  <2>7. \A s \in Threads : job'[s] = IF s = t THEN new ELSE job[s]
    BY <2>1 DEF TypeOK
  <2>8. \A b \in Attempts : attempt'[b] = IF b = a THEN go ELSE attempt[b]
    BY <2>2 DEF TypeOK
  <2> HIDE DEF t
  <2>9. RowsInv'
    BY <2>5, <2>6, <2>7 DEF Core, RowsInv
  <2>10. AttemptInv'
    BY <1>1, <2>3, <2>8 DEF Core, AttemptInv
  <2>11. OwnInv'
    <3>1. \A s \in Threads : ~Owns(a, s)
      BY NotOwner DEF Claim, Core
    <3>2. ASSUME NEW b \in Attempts, NEW s \in Threads, Owns(b, s)'
          PROVE  \/ attempt'[b].pc = "idle"
                 \/ /\ attempt'[b].pc = "extract" /\ attempt'[b].t = s
                    /\ attempt'[b].src = job'[s].input
                    /\ output'[s].src < attempt'[b].src
                    /\ job'[s].success < attempt'[b].src
      <4>1. CASE s = t
        <5>1. b = a
          BY <2>6, <2>7, <3>2, <4>1 DEF Owns
        <5>2. QED
          BY <2>1, <2>3, <2>4, <2>6, <2>7, <2>8, <4>1, <5>1
      <4>2. CASE s # t
        <5>1. Owns(b, s) /\ b # a
          BY <2>7, <3>1, <3>2, <4>2 DEF Owns
        <5>2. QED
          BY <2>1, <2>7, <2>8, <4>2, <5>1 DEF Core, OwnInv
      <4>3. QED
        BY <4>1, <4>2
    <3>3. QED
      BY <3>2 DEF OwnInv
  <2>12. OutputMatchesWatermark'
    BY <2>1, <2>6, <2>7 DEF Core, OutputMatchesWatermark
  <2>13. SelectedWasConsolidated'
    BY <2>1 DEF Core, SelectedWasConsolidated
  <2>14. RunningCapHolds'
    <3>1. Cardinality(Running(Threads)) < MaxRunning
      BY <1>3 DEF CanClaim
    <3>2. \A s \in Threads : s \in Running(Threads)' => s \in Running(Threads) \cup {t}
      BY <2>7 DEF Running
    <3>3. QED
      BY <1>1, <3>1, <3>2, CapReached
  <2>15. QED
    BY <2>9, <2>10, <2>11, <2>12, <2>13, <2>14 DEF Core
<1>4. QED
  BY <1>2, <1>3

(* A report by an attempt that lost its row changes nothing but the attempt. *)
LEMMA LateReport ==
    ASSUME TypeOK, Core, NEW a \in Attempts, End(a), UNCHANGED <<job, output, consolidated>>
    PROVE  Core'
<1>1. AttemptInv' /\ OwnInv'
  BY MoveKeeps, IdleFields, DefaultTypes DEF End, Become, Core
<1>2. QED
  BY <1>1, QuietKeeps

(* When an attempt ends and one row stops running, nobody owns that row and  *)
(* the ownership of the others is as before, if their outputs are.          *)
LEMMA RowStops ==
    ASSUME TypeOK, Core, NEW t \in Threads, NEW row \in JobRow, row.status # "running",
           job' = [job EXCEPT ![t] = row],
           \A b \in Attempts : attempt'[b] = attempt[b] \/ attempt'[b] = Idle \/ \A s \in Threads : ~Owns(b, s),
           \A b \in Attempts : attempt'[b].pc \in {"claim", "extract", "pollute", "delete"} => attempt'[b].t \in Threads,
           \A s \in Threads \ {t} : output'[s] = output[s]
    PROVE  /\ AttemptInv' /\ OwnInv' /\ RunningCapHolds'
           /\ \A s \in Threads : job'[s] = IF s = t THEN row ELSE job[s]
<1>1. \A s \in Threads : job'[s] = IF s = t THEN row ELSE job[s]
  BY DEF TypeOK
<1>2. AttemptInv'
  BY DEF AttemptInv
<1>3. OwnInv'
  <2>1. ASSUME NEW b \in Attempts, NEW s \in Threads, Owns(b, s)'
        PROVE  \/ attempt'[b].pc = "idle"
               \/ /\ attempt'[b].pc = "extract" /\ attempt'[b].t = s
                  /\ attempt'[b].src = job'[s].input
                  /\ output'[s].src < attempt'[b].src
                  /\ job'[s].success < attempt'[b].src
    <3>1. s # t /\ Owns(b, s)
      BY <1>1, <2>1 DEF Owns
    <3>2. CASE attempt'[b] = Idle
      BY <3>2, IdleFields
    <3>3. CASE attempt'[b] = attempt[b]
      <4>1. job'[s] = job[s] /\ output'[s] = output[s]
        BY <1>1, <3>1
      <4>2. QED
        BY <3>1, <3>3, <4>1 DEF Core, OwnInv
    <3>4. QED
      BY <3>1, <3>2, <3>3
  <2>2. QED
    BY <2>1 DEF OwnInv
<1>4. RunningCapHolds'
  <2>1. \A s \in Threads : s \in Running(Threads)' => s \in Running(Threads)
    BY <1>1 DEF Running
  <2>2. QED
    BY <2>1, CapKept DEF Core
<1>5. QED
  BY <1>1, <1>2, <1>3, <1>4

(* An attempt that ends is idle, the others are as before.                  *)
LEMMA EndedAttempts ==
    ASSUME TypeOK, Core, NEW a \in Attempts, End(a)
    PROVE  /\ \A b \in Attempts : attempt'[b] = IF b = a THEN Idle ELSE attempt[b]
           /\ \A b \in Attempts : attempt'[b].pc \in {"claim", "extract", "pollute", "delete"}
                                     => attempt'[b].t \in Threads
<1>1. \A b \in Attempts : attempt'[b] = IF b = a THEN Idle ELSE attempt[b]
  BY DEF End, Become, TypeOK
<1>2. QED
  BY <1>1, IdleFields DEF Core, AttemptInv

(* The owner of a row extracts the version the row was claimed for, which is *)
(* newer than what is stored and vouched for.                               *)
LEMMA OwnerIsNewer ==
    ASSUME Core, NEW a \in Attempts, NEW t \in Threads, attempt[a].pc = "extract", Owns(a, t)
    PROVE  /\ attempt[a].t = t /\ attempt[a].src = job[t].input
           /\ output[t].src < attempt[a].src /\ job[t].success < attempt[a].src
  BY DEF Core, OwnInv

(* A memory is stored: the row vouches for the version just stored.         *)
LEMMA SucceedStep ==
    ASSUME TypeOK, Core, NEW a \in Attempts, Succeed(a)
    PROVE  Core'
<1> DEFINE t == attempt[a].t
           src == attempt[a].src
           row == Done(job[t])
           out == [output[t] EXCEPT !.src = src]
<1>1. /\ t \in Threads /\ src \in Versions /\ job[t] \in JobRow /\ output[t] \in OutputRow
  BY AttemptFields DEF Succeed, Core, AttemptInv, TypeOK
<1>2. CASE ~Owns(a, t)
  BY <1>2, LateReport DEF Succeed
<1>3. CASE Owns(a, t)
  <2>1. src = job[t].input /\ output[t].src < src
    BY <1>1, <1>3, OwnerIsNewer DEF Succeed
  <2>2. row \in JobRow /\ row.status = "done" /\ row.success = src
    BY <1>1, <2>1, DoneRow
  <2>3. job' = [job EXCEPT ![t] = row]
    BY <1>1, <1>3 DEF Succeed, TypeOK
  <2>4. End(a) /\ UNCHANGED consolidated
    BY DEF Succeed
  <2>5. output' = [output EXCEPT ![t] = out]
    <3>1. output' = [output EXCEPT ![t].src = IF src >= @ THEN src ELSE @]
      BY <1>3 DEF Succeed
    <3>2. output[t].src \in Versions
      BY <1>1, OutputFields
    <3>3. src >= output[t].src
      BY <1>1, <2>1, <3>2 DEF Versions
    <3>4. QED
      BY <1>1, <3>1, <3>3 DEF TypeOK
  <2>6. out.src = src /\ out.sel = output[t].sel
    BY <1>1, OutputFields
  <2> HIDE DEF row, out, src, t
  <2>7. \A s \in Threads : output'[s] = IF s = t THEN out ELSE output[s]
    BY <1>1, <2>5 DEF TypeOK
  <2>8. /\ AttemptInv' /\ OwnInv' /\ RunningCapHolds'
        /\ \A s \in Threads : job'[s] = IF s = t THEN row ELSE job[s]
    <3>1. \A b \in Attempts : attempt'[b] = attempt[b] \/ attempt'[b] = Idle \/ \A s \in Threads : ~Owns(b, s)
      BY <2>4, EndedAttempts
    <3>2. \A b \in Attempts : attempt'[b].pc \in {"claim", "extract", "pollute", "delete"}
             => attempt'[b].t \in Threads
      BY <2>4, EndedAttempts
    <3>3. \A s \in Threads \ {t} : output'[s] = output[s]
      BY <2>7
    <3>4. QED
      BY ZenonT(60), <1>1, <2>2, <2>3, <3>1, <3>2, <3>3, RowStops
  <2>9. RowsInv'
    BY <2>2, <2>8 DEF Core, RowsInv
  <2>10. OutputMatchesWatermark'
    BY <2>2, <2>6, <2>7, <2>8 DEF Core, OutputMatchesWatermark
  <2>11. SelectedWasConsolidated'
    <3>1. ASSUME NEW s \in Threads, output'[s].sel > 0
          PROVE  output'[s].sel = consolidated[s] /\ output'[s].sel <= output'[s].src
      <4>1. output[s].sel = output'[s].sel
        BY <2>6, <2>7
      <4>2. output[s].sel = consolidated[s] /\ output[s].sel <= output[s].src
        BY <3>1, <4>1 DEF Core, SelectedWasConsolidated
      <4>3. output[s].sel \in Versions /\ output[s].src \in Versions
        BY OutputFields DEF TypeOK
      <4>4. CASE s = t
        BY <1>1, <2>1, <2>6, <2>7, <4>1, <4>2, <4>3, <4>4 DEF Versions
      <4>5. CASE s # t
        BY <2>7, <4>2, <4>5
      <4>6. QED
        BY <4>1, <4>2, <4>4, <4>5
    <3>2. QED
      BY <2>4, <3>1 DEF SelectedWasConsolidated
  <2>12. QED
    BY <2>8, <2>9, <2>10, <2>11 DEF Core
<1>4. QED
  BY <1>2, <1>3

(* An output is deleted, and the row of its thread stops running or does not *)
(* exist any more.                                                          *)
LEMMA DeletedOutput ==
    ASSUME TypeOK, Core, NEW t \in Threads, Delete(t), NEW row \in JobRow,
           row.status # "running", row.status = "none" => row = NoJob,
           job' = [job EXCEPT ![t] = row],
           \A b \in Attempts : attempt'[b] = attempt[b] \/ attempt'[b] = Idle \/ \A s \in Threads : ~Owns(b, s),
           \A b \in Attempts : attempt'[b].pc \in {"claim", "extract", "pollute", "delete"} => attempt'[b].t \in Threads
    PROVE  Core'
<1>1. \A s \in Threads : output'[s] = IF s = t THEN NoOutput ELSE output[s]
  BY DEF Delete, TypeOK
<1>2. \A s \in Threads : consolidated'[s] = IF s = t THEN 0 ELSE consolidated[s]
  BY DEF Delete, TypeOK
<1>3. /\ AttemptInv' /\ OwnInv' /\ RunningCapHolds'
      /\ \A s \in Threads : job'[s] = IF s = t THEN row ELSE job[s]
  <2>1. \A s \in Threads \ {t} : output'[s] = output[s]
    BY <1>1
  <2>2. QED
    BY <2>1, RowStops
<1>4. RowsInv'
  BY <1>3 DEF Core, RowsInv
<1>5. NoOutput.src = 0 /\ NoOutput.sel = 0
  BY DEF NoOutput
<1>6. OutputMatchesWatermark'
  BY <1>1, <1>3, <1>5 DEF Core, OutputMatchesWatermark
<1>7. SelectedWasConsolidated'
  BY <1>1, <1>2, <1>5 DEF Core, SelectedWasConsolidated
<1>8. QED
  BY <1>3, <1>4, <1>6, <1>7 DEF Core

(* There is nothing to remember of the thread.                              *)
LEMMA SucceedNoOutputStep ==
    ASSUME TypeOK, Core, NEW a \in Attempts, SucceedNoOutput(a)
    PROVE  Core'
<1> DEFINE t == attempt[a].t
           row == Done(job[t])
<1>1. t \in Threads /\ job[t] \in JobRow
  BY DEF SucceedNoOutput, Core, AttemptInv, TypeOK
<1>2. CASE ~Owns(a, t)
  BY <1>2, LateReport DEF SucceedNoOutput
<1>3. CASE Owns(a, t)
  <2>1. row \in JobRow /\ row.status = "done"
    BY <1>1, DoneRow
  <2>2. job' = [job EXCEPT ![t] = row] /\ Delete(t) /\ End(a)
    BY <1>1, <1>3 DEF SucceedNoOutput, TypeOK
  <2> HIDE DEF row, t
  <2>3. \A b \in Attempts : attempt'[b] = attempt[b] \/ attempt'[b] = Idle \/ \A s \in Threads : ~Owns(b, s)
    BY <2>2, EndedAttempts
  <2>4. \A b \in Attempts : attempt'[b].pc \in {"claim", "extract", "pollute", "delete"}
           => attempt'[b].t \in Threads
    BY <2>2, EndedAttempts
  <2>5. QED
    BY <1>1, <2>1, <2>2, <2>3, <2>4, DeletedOutput
<1>4. QED
  BY <1>2, <1>3

(* The memory of a thread is deleted, its job with it.                      *)
LEMMA DeleteMemoryStep ==
    ASSUME TypeOK, Core, NEW a \in Attempts, NEW t \in Threads, DeleteMemory(a, t)
    PROVE  Core'
<1> DEFINE new == [Idle EXCEPT !.pc = "delete", !.t = t]
<1>1. NoJob \in JobRow /\ NoJob.status = "none"
  BY DefaultTypes DEF NoJob
<1>2. job' = [job EXCEPT ![t] = NoJob] /\ Delete(t) /\ Fresh(a)
  BY DEF DeleteMemory
<1>3. new.t = t
  BY BegunFields
<1>4. attempt' = [attempt EXCEPT ![a] = new]
  BY DEF DeleteMemory, Become
<1> HIDE DEF new
<1>5. \A b \in Attempts : attempt'[b] = IF b = a THEN new ELSE attempt[b]
  BY <1>4 DEF TypeOK
<1>6. \A b \in Attempts : attempt'[b] = attempt[b] \/ attempt'[b] = Idle \/ \A s \in Threads : ~Owns(b, s)
  BY <1>2, <1>5 DEF Fresh
<1>7. \A b \in Attempts : attempt'[b].pc \in {"claim", "extract", "pollute", "delete"}
         => attempt'[b].t \in Threads
  BY <1>3, <1>5 DEF Core, AttemptInv
<1>8. QED
  BY <1>1, <1>2, <1>6, <1>7, DeletedOutput

(* A failed extraction leaves what is stored and vouched for.               *)
LEMMA FailStage1Step ==
    ASSUME TypeOK, Core, NEW a \in Attempts, FailStage1(a)
    PROVE  Core'
<1> DEFINE t == attempt[a].t
           row == Errored(job[t])
<1>1. t \in Threads /\ job[t] \in JobRow
  BY DEF FailStage1, Core, AttemptInv, TypeOK
<1>2. CASE ~Owns(a, t)
  BY <1>2, LateReport DEF FailStage1
<1>3. CASE Owns(a, t)
  <2>1. job[t].retries >= 1
    BY <1>1, <1>3 DEF Owns, Core, RowsInv
  <2>2. row \in JobRow /\ row.status = "error" /\ row.success = job[t].success
    BY <1>1, <2>1, ErroredRow
  <2>3. job' = [job EXCEPT ![t] = row] /\ End(a) /\ UNCHANGED <<output, consolidated>>
    BY <1>1, <1>3 DEF FailStage1, TypeOK
  <2> HIDE DEF row, t
  <2>4. \A b \in Attempts : attempt'[b] = attempt[b] \/ attempt'[b] = Idle \/ \A s \in Threads : ~Owns(b, s)
    BY <2>3, EndedAttempts
  <2>5. \A b \in Attempts : attempt'[b].pc \in {"claim", "extract", "pollute", "delete"}
           => attempt'[b].t \in Threads
    BY <2>3, EndedAttempts
  <2>6. /\ AttemptInv' /\ OwnInv' /\ RunningCapHolds'
        /\ \A s \in Threads : job'[s] = IF s = t THEN row ELSE job[s]
    BY <1>1, <2>2, <2>3, <2>4, <2>5, RowStops
  <2>7. RowsInv'
    BY <2>2, <2>6 DEF Core, RowsInv
  <2>8. OutputMatchesWatermark'
    BY <2>2, <2>3, <2>6 DEF Core, OutputMatchesWatermark
  <2>9. SelectedWasConsolidated'
    BY <2>3 DEF Core, SelectedWasConsolidated
  <2>10. QED
    BY <2>6, <2>7, <2>8, <2>9 DEF Core
<1>4. QED
  BY <1>2, <1>3

(* A consolidation that still owns the lock marks the versions it selected. *)
LEMMA MarkSucceededStep ==
    ASSUME TypeOK, Core, NEW a \in Attempts, MarkSucceeded(a)
    PROVE  Core'
<1> DEFINE sel == attempt[a].sel
           mark(t) == IF sel[t] > 0 /\ sel[t] = output[t].src THEN sel[t] ELSE 0
<1>1. CASE ~OwnsGlobal(a)
  BY <1>1, LateReport DEF MarkSucceeded
<1>2. CASE OwnsGlobal(a)
  <2>1. output' = [t \in Threads |-> [output[t] EXCEPT !.sel = mark(t)]]
    BY <1>2 DEF MarkSucceeded
  <2>2. End(a) /\ consolidated' = sel /\ UNCHANGED job
    BY <1>2 DEF MarkSucceeded
  <2>3. \A t \in Threads : sel[t] \in Versions
    BY AttemptFields DEF TypeOK
  <2>4. \A t \in Threads : mark(t) \in Versions
    BY <2>3, FieldValues
  <2>5. \A t \in Threads : mark(t) > 0 => mark(t) = sel[t] /\ mark(t) = output[t].src
    BY <2>3 DEF Versions
  <2> HIDE DEF mark, sel
  <2>6. \A t \in Threads : output'[t].src = output[t].src /\ output'[t].sel = mark(t)
    <3>1. ASSUME NEW t \in Threads
          PROVE  output'[t].src = output[t].src /\ output'[t].sel = mark(t)
      <4>1. output'[t] = [output[t] EXCEPT !.sel = mark(t)]
        BY <2>1
      <4>2. output[t] \in OutputRow /\ mark(t) \in Versions
        BY <2>4 DEF TypeOK
      <4>3. QED
        BY <4>1, <4>2, OutputFields
    <3>2. QED
      BY <3>1
  <2>7. \A t \in Threads : output[t].src \in Versions
    BY OutputFields DEF TypeOK
  <2>8. AttemptInv'
    BY <2>2, EndedAttempts DEF AttemptInv
  <2>9. OwnInv'
    <3>1. ASSUME NEW b \in Attempts, NEW s \in Threads, Owns(b, s)'
          PROVE  \/ attempt'[b].pc = "idle"
                 \/ /\ attempt'[b].pc = "extract" /\ attempt'[b].t = s
                    /\ attempt'[b].src = job'[s].input
                    /\ output'[s].src < attempt'[b].src
                    /\ job'[s].success < attempt'[b].src
      <4>1. Owns(b, s)
        BY <2>2, <3>1 DEF Owns
      <4>2. CASE b = a
        BY <2>2, <4>2, EndedAttempts, IdleFields
      <4>3. CASE b # a
        <5>1. attempt'[b] = attempt[b]
          BY <2>2, <4>3, EndedAttempts
        <5>2. QED
          BY <2>2, <2>6, <4>1, <5>1 DEF Core, OwnInv
      <4>4. QED
        BY <4>2, <4>3
    <3>2. QED
      BY <3>1 DEF OwnInv
  <2>10. OutputMatchesWatermark'
    BY <2>2, <2>6 DEF Core, OutputMatchesWatermark
  <2>11. SelectedWasConsolidated'
    BY <2>2, <2>5, <2>6, <2>7 DEF SelectedWasConsolidated, Versions
  <2>12. RowsInv' /\ RunningCapHolds'
    BY <2>2 DEF Core, RowsInv, RunningCapHolds, Running
  <2>13. QED
    BY <2>8, <2>9, <2>10, <2>11, <2>12 DEF Core
<1>3. QED
  BY <1>1, <1>2

(* An unused output is pruned: nothing stored is as good as an old version. *)
LEMMA PruneStep ==
    ASSUME TypeOK, Core, NEW t \in Threads, Prune(t)
    PROVE  Core'
<1>1. \A s \in Threads : output'[s] = IF s = t THEN NoOutput ELSE output[s]
  BY DEF Prune, Delete, TypeOK
<1>2. \A s \in Threads : consolidated'[s] = IF s = t THEN 0 ELSE consolidated[s]
  BY DEF Prune, Delete, TypeOK
<1>3. UNCHANGED <<job, attempt>> /\ output[t].src > 0
  BY DEF Prune
<1>4. NoOutput.src = 0 /\ NoOutput.sel = 0
  BY DEF NoOutput
<1>5. AttemptInv' /\ RowsInv' /\ RunningCapHolds'
  BY <1>3 DEF Core, AttemptInv, RowsInv, RunningCapHolds, Running
<1>6. OwnInv'
  <2>1. ASSUME NEW b \in Attempts, NEW s \in Threads, Owns(b, s)
        PROVE  \/ attempt[b].pc = "idle"
               \/ /\ attempt[b].pc = "extract" /\ attempt[b].t = s
                  /\ attempt[b].src = job[s].input
                  /\ output'[s].src < attempt[b].src
                  /\ job[s].success < attempt[b].src
    <3>1. attempt[b].src \in Versions /\ output[s].src \in Versions
      BY AttemptFields, OutputFields DEF TypeOK
    <3>2. \/ attempt[b].pc = "idle"
          \/ /\ attempt[b].pc = "extract" /\ attempt[b].t = s
             /\ attempt[b].src = job[s].input
             /\ output[s].src < attempt[b].src
             /\ job[s].success < attempt[b].src
      BY <2>1 DEF Core, OwnInv
    <3>3. output'[s].src = output[s].src \/ output'[s].src = 0
      BY <1>1, <1>4
    <3>4. QED
      BY <3>1, <3>2, <3>3 DEF Versions
  <2>2. QED
    BY <1>3, <2>1 DEF OwnInv, Owns
<1>7. OutputMatchesWatermark'
  BY <1>1, <1>3, <1>4 DEF Core, OutputMatchesWatermark
<1>8. SelectedWasConsolidated'
  BY <1>1, <1>2, <1>4 DEF Core, SelectedWasConsolidated
<1>9. QED
  BY <1>5, <1>6, <1>7, <1>8 DEF Core

(* With all rows gone nobody owns anything.                                 *)
LEMMA ClearStep ==
    ASSUME TypeOK, Core, Clear
    PROVE  Core'
<1>1. /\ \A t \in Threads : job'[t] = NoJob /\ output'[t] = NoOutput
      /\ UNCHANGED attempt
  BY DEF Clear
<1>2. NoJob.status = "none" /\ NoOutput.src = 0 /\ NoOutput.sel = 0
  BY DEF NoJob, NoOutput
<1>3. RowsInv' /\ OwnInv' /\ OutputMatchesWatermark' /\ SelectedWasConsolidated'
  BY <1>1, <1>2 DEF RowsInv, OwnInv, Owns, OutputMatchesWatermark, SelectedWasConsolidated
<1>4. AttemptInv'
  BY <1>1 DEF Core, AttemptInv
<1>5. RunningCapHolds'
  <2>1. \A t \in Threads : t \in Running(Threads)' => t \in Running(Threads)
    BY <1>1, <1>2 DEF Running
  <2>2. QED
    BY <2>1, CapKept DEF Core
<1>6. QED
  BY <1>3, <1>4, <1>5 DEF Core

(* Time takes leases away and gives none.                                   *)
LEMMA TickStep ==
    ASSUME TypeOK, Core, Tick
    PROVE  Core'
<1>1. /\ \A t \in Threads : job'[t] = [job[t] EXCEPT !.lease = Less(@), !.retry = Less(@)]
      /\ UNCHANGED <<output, consolidated, attempt>>
  BY DEF Tick
<1>2. \A t \in Threads :
         /\ job'[t].status = job[t].status /\ job'[t].token = job[t].token
         /\ job'[t].retries = job[t].retries /\ job'[t].input = job[t].input
         /\ job'[t].success = job[t].success /\ job'[t].lease = Less(job[t].lease)
  BY ZenonT(60), <1>1, TickedJobRow DEF TypeOK
<1>3. RowsInv'
  <2>1. ASSUME NEW t \in Threads, job[t] = NoJob
        PROVE  job'[t] = NoJob
    <3>1. job'[t] = [NoJob EXCEPT !.lease = Less(@), !.retry = Less(@)]
      BY <1>1, <2>1
    <3> DEFINE r1 == [NoJob EXCEPT !.lease = Less(@)]
    <3>2. Less(0) = 0 /\ NoJob.lease = 0 /\ NoJob.retry = 0
      BY DEF Less, NoJob
    <3>3. r1 = NoJob
      BY <3>2 DEF NoJob
    <3>4. [NoJob EXCEPT !.lease = Less(@), !.retry = Less(@)] = [r1 EXCEPT !.retry = Less(@)]
      BY DEF NoJob
    <3> HIDE DEF r1
    <3>5. [NoJob EXCEPT !.retry = Less(@)] = NoJob
      BY <3>2 DEF NoJob
    <3>6. QED
      BY <3>1, <3>3, <3>4, <3>5
  <2>2. QED
    BY <1>2, <2>1 DEF Core, RowsInv
<1>4. AttemptInv'
  BY <1>1 DEF Core, AttemptInv
<1>5. OwnInv'
  <2>1. ASSUME NEW b \in Attempts, NEW s \in Threads, Owns(b, s)'
        PROVE  \/ attempt'[b].pc = "idle"
               \/ /\ attempt'[b].pc = "extract" /\ attempt'[b].t = s
                  /\ attempt'[b].src = job'[s].input
                  /\ output'[s].src < attempt'[b].src
                  /\ job'[s].success < attempt'[b].src
    <3>1. Owns(b, s)
      BY <1>2, <2>1 DEF Owns
    <3>2. job'[s].input = job[s].input /\ job'[s].success = job[s].success
      BY <1>2
    <3>3. QED
      BY <1>1, <3>1, <3>2 DEF Core, OwnInv
  <2>2. QED
    BY <2>1 DEF OwnInv
<1>6. OutputMatchesWatermark'
  BY <1>1, <1>2 DEF Core, OutputMatchesWatermark
<1>7. SelectedWasConsolidated'
  BY <1>1 DEF Core, SelectedWasConsolidated
<1>8. RunningCapHolds'
  <2>1. \A t \in Threads : job[t].lease \in 0..Lease
    BY JobFields DEF TypeOK
  <2>2. \A t \in Threads : job'[t].lease > 0 => job[t].lease > 0
    BY <1>2, <2>1 DEF Less
  <2>3. \A t \in Threads : t \in Running(Threads)' => t \in Running(Threads)
    BY <1>2, <2>2 DEF Running
  <2>4. QED
    BY <2>3, CapKept DEF Core
<1>9. QED
  BY <1>3, <1>4, <1>5, <1>6, <1>7, <1>8 DEF Core

(***************************************************************************)
(* The invariant.                                                           *)
(***************************************************************************)

(* Every step keeps the invariant.                                          *)
LEMMA CoreStep ==
    ASSUME TypeOK, Core, [Next]_vars
    PROVE  Core'
<1>1. ASSUME NEW t \in Threads, ThreadChanges(t) PROVE Core'
  <2>1. UNCHANGED <<job, output, consolidated, attempt>>
    BY <1>1 DEF ThreadChanges
  <2>2. AttemptInv' /\ OwnInv'
    BY <2>1 DEF Core, AttemptInv, OwnInv, Owns
  <2>3. QED
    BY <2>1, <2>2, QuietKeeps
<1>2. CASE UNCHANGED vars
  <2>1. UNCHANGED <<job, output, consolidated, attempt>>
    BY <1>2 DEF vars
  <2>2. AttemptInv' /\ OwnInv'
    BY <2>1 DEF Core, AttemptInv, OwnInv, Owns
  <2>3. QED
    BY <2>1, <2>2, QuietKeeps
<1>3. ASSUME NEW a \in Attempts, NEW t \in Threads, Scan(a, t) \/ PolluteReads(a, t) \/ DeleteMemory(a, t)
      PROVE  Core'
  BY <1>3, BeginSteps, DeleteMemoryStep
<1>4. ASSUME NEW a \in Attempts, Claim(a) \/ Succeed(a) \/ SucceedNoOutput(a) \/ FailStage1(a)
      PROVE  Core'
  BY <1>4, ClaimStep, SucceedStep, SucceedNoOutputStep, FailStage1Step
<1>5. ASSUME NEW a \in Attempts,
             \/ ClaimGlobal(a) \/ Select(a) \/ Heartbeat(a) \/ AgentCompletes(a) \/ AgentFails(a)
             \/ MarkFailed(a) \/ PolluteMarks(a) \/ DeleteThread(a) \/ Crash(a)
      PROVE  Core'
  BY <1>5, QuietSteps
<1>6. ASSUME NEW a \in Attempts, MarkSucceeded(a) PROVE Core'
  BY <1>6, MarkSucceededStep
<1>7. ASSUME NEW t \in Threads, Prune(t) PROVE Core'
  BY <1>7, PruneStep
<1>8. ASSUME Clear \/ Tick PROVE Core'
  BY <1>8, ClearStep, TickStep
<1>9. QED
  BY <1>1, <1>2, <1>3, <1>4, <1>5, <1>6, <1>7, <1>8 DEF Next

(* The invariant holds at the start: nothing is claimed, nothing stored.    *)
LEMMA InitInv ==
    ASSUME Init
    PROVE  IInv
<1>1. TypeOK
  <2>1. 1 \in Versions
    BY DEF Versions
  <2>2. QED
    BY <2>1, DefaultTypes DEF Init, TypeOK
<1>2. /\ \A t \in Threads : job[t] = NoJob /\ output[t] = NoOutput
      /\ \A a \in Attempts : attempt[a] = Idle
  BY DEF Init
<1>3. NoJob.status = "none" /\ NoOutput.src = 0 /\ NoOutput.sel = 0
  BY DEF NoJob, NoOutput
<1>4. RowsInv /\ OwnInv /\ OutputMatchesWatermark /\ SelectedWasConsolidated
  BY <1>2, <1>3 DEF RowsInv, OwnInv, Owns, OutputMatchesWatermark, SelectedWasConsolidated
<1>5. AttemptInv
  BY <1>2, IdleFields DEF AttemptInv
<1>6. RunningCapHolds
  <2>1. Running(Threads) = {}
    BY <1>2, <1>3 DEF Running
  <2>2. QED
    BY <2>1, FS_EmptySet DEF RunningCapHolds
<1>7. QED
  BY <1>1, <1>4, <1>5, <1>6 DEF IInv

(* The inductive invariant is an invariant of the job table.                *)
THEOREM Safety == Spec => []IInv
<1>1. Init => IInv
  BY InitInv
<1>2. IInv /\ [Next]_vars => IInv'
  <2>1. SUFFICES ASSUME IInv, [Next]_vars PROVE IInv'
    OBVIOUS
  <2>2. TypeOK'
    BY <2>1, TypeStep DEF IInv
  <2>3. Core'
    BY <2>1, CoreStep DEF IInv, Core
  <2>4. QED
    BY <2>2, <2>3 DEF IInv, Core
<1>3. QED
  BY <1>1, <1>2, PTL DEF Spec

(* Rows and attempts keep their types (the tables of memories.rs).          *)
THEOREM TypeCorrect == Spec => []TypeOK
<1>1. IInv => TypeOK
  BY DEF IInv
<1>2. QED
  BY <1>1, Safety, PTL

(* try_claim_stage1_job never lets more than max_running_jobs jobs run      *)
(* under a valid lease.                                                     *)
THEOREM CapCorrect == Spec => []RunningCapHolds
<1>1. IInv => RunningCapHolds
  BY DEF IInv
<1>2. QED
  BY <1>1, Safety, PTL

(* A stored output is the version the job row vouches for, whoever reports  *)
(* late (mark_stage1_job_succeeded).                                        *)
THEOREM OutputCorrect == Spec => []OutputMatchesWatermark
<1>1. IInv => OutputMatchesWatermark
  BY DEF IInv
<1>2. QED
  BY <1>1, Safety, PTL

(* A selected output is marked with the version that was consolidated       *)
(* (mark_global_phase2_job_succeeded).                                      *)
THEOREM SelectionCorrect == Spec => []SelectedWasConsolidated
<1>1. IInv => SelectedWasConsolidated
  BY DEF IInv
<1>2. QED
  BY <1>1, Safety, PTL

(***************************************************************************)
(* What is known of a thread never goes back.                               *)
(***************************************************************************)

Advances(t) ==
    /\ output[t].src > 0 /\ output'[t].src > 0 => output'[t].src >= output[t].src
    /\ job'[t].status # "none" => job'[t].success >= job[t].success

(* The versions of a thread's rows are numbers.                             *)
LEMMA VersionsAreNumbers ==
    ASSUME TypeOK, NEW t \in Threads
    PROVE  output[t].src \in Int /\ job[t].success \in Int /\ job[t].input \in Int
<1>1. output[t].src \in Versions /\ job[t].success \in Versions /\ job[t].input \in Versions
  BY OutputFields, JobFields DEF TypeOK
<1>2. QED
  BY <1>1 DEF Versions

(* A row that is left alone or deleted does not go back.                    *)
LEMMA KeptOrGone ==
    ASSUME TypeOK, NEW t \in Threads,
           output'[t].src = output[t].src \/ output'[t].src = 0,
           job'[t].success = job[t].success \/ job'[t].status = "none"
    PROVE  Advances(t)
  BY VersionsAreNumbers DEF Advances

(* The owner that finishes a row vouches for a newer version than before.   *)
LEMMA FinishedAdvances ==
    ASSUME TypeOK, Core, NEW a \in Attempts, attempt[a].pc = "extract", attempt[a].t \in Threads,
           Owns(a, attempt[a].t),
           job' = [job EXCEPT ![attempt[a].t] = Done(@)],
           \A s \in Threads : \/ output'[s].src = output[s].src \/ output'[s].src = 0
                              \/ s = attempt[a].t /\ output'[s].src = attempt[a].src,
           NEW t \in Threads
    PROVE  Advances(t)
<1> DEFINE u == attempt[a].t
<1>1. /\ attempt[a].src = job[u].input
      /\ output[u].src < attempt[a].src /\ job[u].success < attempt[a].src
  BY OwnerIsNewer
<1>2. \A s \in Threads : job'[s] = IF s = u THEN Done(job[u]) ELSE job[s]
  BY DEF TypeOK
<1>3. Done(job[u]).success = job[u].input
  BY DoneRow DEF TypeOK
<1> HIDE DEF u
<1>4. CASE t # u
  <2>1. job'[t] = job[t] /\ (output'[t].src = output[t].src \/ output'[t].src = 0)
    BY <1>2, <1>4 DEF u
  <2>2. QED
    BY <2>1, KeptOrGone
<1>5. CASE t = u
  <2>1. job'[t].success = attempt[a].src
    BY <1>1, <1>2, <1>3, <1>5
  <2>2. output'[t].src = output[t].src \/ output'[t].src = 0 \/ output'[t].src = attempt[a].src
    OBVIOUS
  <2>3. output[t].src \in Int /\ job[t].success \in Int /\ job[t].input \in Int
    BY VersionsAreNumbers
  <2>4. QED
    BY <1>1, <1>5, <2>1, <2>2, <2>3 DEF Advances
<1>6. QED
  BY <1>4, <1>5

(* No step takes a thread's rows back.                                      *)
LEMMA AdvanceStep ==
    ASSUME TypeOK, Core, [Next]_vars, NEW t \in Threads
    PROVE  Advances(t)
<1> USE KeptOrGone
<1>1. ASSUME UNCHANGED <<job, output>> PROVE Advances(t)
  BY <1>1
<1>2. NoOutput.src = 0 /\ NoJob.status = "none"
  BY DEF NoOutput, NoJob
<1>3. ASSUME NEW u \in Threads, output' = [output EXCEPT ![u] = NoOutput], NEW s \in Threads
      PROVE  output'[s].src = output[s].src \/ output'[s].src = 0
  BY <1>2, <1>3 DEF TypeOK
<1>4. ASSUME NEW a \in Attempts, NEW u \in Threads, DeleteMemory(a, u) PROVE Advances(t)
  <2>1. output'[t].src = output[t].src \/ output'[t].src = 0
    BY <1>3, <1>4 DEF DeleteMemory, Delete
  <2>2. job'[t].success = job[t].success \/ job'[t].status = "none"
    BY <1>2, <1>4 DEF DeleteMemory, TypeOK
  <2>3. QED
    BY <2>1, <2>2
<1>5. ASSUME NEW a \in Attempts, Claim(a) PROVE Advances(t)
  <2>1. UNCHANGED output
    BY <1>5 DEF Claim
  <2>2. job'[t].success = job[t].success
    BY <1>5 DEF Claim, TypeOK
  <2>3. QED
    BY <2>1, <2>2
<1>6. ASSUME NEW a \in Attempts, Succeed(a) PROVE Advances(t)
  <2> DEFINE u == attempt[a].t
  <2>1. u \in Threads /\ attempt[a].pc = "extract"
    BY <1>6 DEF Succeed, Core, AttemptInv
  <2>2. CASE Owns(a, u)
    <3>1. job' = [job EXCEPT ![u] = Done(@)]
      BY <1>6, <2>2 DEF Succeed
    <3>2. \A s \in Threads : \/ output'[s].src = output[s].src \/ output'[s].src = 0
                             \/ s = u /\ output'[s].src = attempt[a].src
      <4>1. output' = [output EXCEPT ![u].src = IF attempt[a].src >= @ THEN attempt[a].src ELSE @]
        BY <1>6, <2>2 DEF Succeed
      <4>2. \A s \in Threads : s # u => output'[s] = output[s]
        BY <4>1 DEF TypeOK
      <4>3. output'[u].src = attempt[a].src \/ output'[u].src = output[u].src
        BY <2>1, <4>1 DEF TypeOK, OutputRow
      <4>4. QED
        BY <4>2, <4>3
    <3>3. QED
      BY <2>1, <2>2, <3>1, <3>2, FinishedAdvances
  <2>3. CASE ~Owns(a, u)
    BY <1>1, <1>6, <2>3 DEF Succeed
  <2>4. QED
    BY <2>2, <2>3
<1>7. ASSUME NEW a \in Attempts, SucceedNoOutput(a) PROVE Advances(t)
  <2> DEFINE u == attempt[a].t
  <2>1. u \in Threads /\ attempt[a].pc = "extract"
    BY <1>7 DEF SucceedNoOutput, Core, AttemptInv
  <2>2. CASE Owns(a, u)
    <3>1. job' = [job EXCEPT ![u] = Done(@)] /\ output' = [output EXCEPT ![u] = NoOutput]
      BY <1>7, <2>2 DEF SucceedNoOutput, Delete
    <3>2. \A s \in Threads : output'[s].src = output[s].src \/ output'[s].src = 0
      BY <1>3, <2>1, <3>1
    <3>3. QED
      BY <2>1, <2>2, <3>1, <3>2, FinishedAdvances
  <2>3. CASE ~Owns(a, u)
    BY <1>1, <1>7, <2>3 DEF SucceedNoOutput
  <2>4. QED
    BY <2>2, <2>3
<1>8. ASSUME NEW a \in Attempts, FailStage1(a) PROVE Advances(t)
  <2> DEFINE u == attempt[a].t
  <2>1. CASE Owns(a, u)
    <3>1. u \in Threads
      BY <1>8 DEF FailStage1, Core, AttemptInv
    <3>2. job[u].retries >= 1
      BY <2>1, <3>1 DEF Owns, Core, RowsInv
    <3>3. Errored(job[u]).success = job[u].success
      BY <3>1, <3>2, ErroredRow DEF TypeOK
    <3>4. job' = [job EXCEPT ![u] = Errored(@)] /\ UNCHANGED output
      BY <1>8, <2>1 DEF FailStage1
    <3> HIDE DEF u
    <3>5. job'[t].success = job[t].success
      BY <3>1, <3>3, <3>4 DEF TypeOK
    <3>6. QED
      BY <3>4, <3>5
  <2>2. CASE ~Owns(a, u)
    BY <1>1, <1>8, <2>2 DEF FailStage1
  <2>3. QED
    BY <2>1, <2>2
<1>9. ASSUME NEW a \in Attempts, MarkSucceeded(a) PROVE Advances(t)
  <2>1. CASE OwnsGlobal(a)
    <3>1. output'[t].src = output[t].src
      BY <1>9, <2>1 DEF MarkSucceeded, TypeOK, OutputRow
    <3>2. UNCHANGED job
      BY <1>9 DEF MarkSucceeded
    <3>3. QED
      BY <3>1, <3>2
  <2>2. CASE ~OwnsGlobal(a)
    BY <1>1, <1>9, <2>2 DEF MarkSucceeded
  <2>3. QED
    BY <2>1, <2>2
<1>10. ASSUME NEW u \in Threads, Prune(u) PROVE Advances(t)
  <2>1. output'[t].src = output[t].src \/ output'[t].src = 0
    BY <1>3, <1>10 DEF Prune, Delete
  <2>2. QED
    BY <1>10, <2>1 DEF Prune
<1>11. ASSUME Clear PROVE Advances(t)
  BY <1>2, <1>11 DEF Clear
<1>12. ASSUME Tick PROVE Advances(t)
  <2>1. job'[t] = [job[t] EXCEPT !.lease = Less(@), !.retry = Less(@)] /\ UNCHANGED output
    BY <1>12 DEF Tick
  <2>2. job'[t].success = job[t].success
    BY <2>1, TickedJobRow DEF TypeOK
  <2>3. QED
    BY <2>1, <2>2
<1>13. ASSUME NEW a \in Attempts, NEW u \in Threads, Scan(a, u) \/ PolluteReads(a, u)
       PROVE  Advances(t)
  BY <1>1, <1>13 DEF Scan, PolluteReads
<1>14. ASSUME NEW a \in Attempts,
              \/ ClaimGlobal(a) \/ Select(a) \/ Heartbeat(a) \/ AgentCompletes(a) \/ AgentFails(a)
              \/ MarkFailed(a) \/ PolluteMarks(a) \/ DeleteThread(a) \/ Crash(a)
       PROVE  Advances(t)
  BY <1>1, <1>14 DEF ClaimGlobal, Select, Heartbeat, AgentCompletes, AgentFails,
                     MarkFailed, PolluteMarks, DeleteThread, Crash
<1>15. ASSUME NEW u \in Threads, ThreadChanges(u) PROVE Advances(t)
  BY <1>1, <1>15 DEF ThreadChanges
<1>16. CASE UNCHANGED vars
  BY <1>1, <1>16 DEF vars
<1>17. QED
  BY <1>4, <1>5, <1>6, <1>7, <1>8, <1>9, <1>10, <1>11, <1>12, <1>13, <1>14, <1>15, <1>16 DEF Next

(* A late or repeated report never replaces a memory by an older one, nor   *)
(* moves last_success_watermark back.                                       *)
THEOREM AdvanceCorrect == Spec => MemoryAdvances
<1>1. IInv /\ [Next]_vars => [\A t \in Threads : Advances(t)]_vars
  BY AdvanceStep DEF IInv, Core
<1>2. (\A t \in Threads : Advances(t)) <=>
        \A t \in Threads :
          /\ output[t].src > 0 /\ output'[t].src > 0 => output'[t].src >= output[t].src
          /\ job'[t].status # "none" => job'[t].success >= job[t].success
  BY DEF Advances
<1>3. IInv /\ [Next]_vars =>
        [\A t \in Threads :
          /\ output[t].src > 0 /\ output'[t].src > 0 => output'[t].src >= output[t].src
          /\ job'[t].status # "none" => job'[t].success >= job[t].success]_vars
  BY <1>1, <1>2
<1>4. QED
  BY <1>3, Safety, PTL DEF Spec, MemoryAdvances

=============================================================================
