--------------------------- MODULE TurnLifecycle ---------------------------
(***************************************************************************)
(* The turn lifecycle of a codex session (core/src/tasks/mod.rs,           *)
(* core/src/session/inject.rs, core/src/session/input_queue.rs).           *)
(*                                                                         *)
(* A session has one slot, active_turn, that holds the running task and an *)
(* Arc to the turn's TurnState (its pending input and its mailbox phase).  *)
(* Several threads of control share it without ever holding its lock       *)
(* across an await: the submission loop, every running task (which         *)
(* finishes itself and may then start an idle continuation), and the task  *)
(* the guardian spawns to abort a turn.  Steering and injecting happen     *)
(* under the lock, so each is one step.  Every other step of this module   *)
(* is the code between two awaits at which another thread can get in.      *)
(*                                                                         *)
(* Input is a set of items; the order of a queue is abstracted.  Killing a *)
(* task (handle.abort(), or dropping its AbortOnDropHandle) takes effect   *)
(* at an await, which is where every step of a task ends.                  *)
(***************************************************************************)
EXTENDS Naturals, FiniteSets

CONSTANTS
  Tasks,          \* turn ids (sub_id), each used for one task
  States,         \* identities of TurnState allocations
  UserItems,      \* inputs sent by Op::UserInput or turn/steer
  InjectItems,    \* items given to inject_no_new_turn
  Mails,          \* inter-agent communications
  TriggerMails,   \* those with trigger_turn
  Loop,           \* the submission loop
  Guard,          \* the guardian's abort task
  Extensions,     \* optional features: "goal" idle continuation, "guardian"
  OtherKinds,     \* task kinds the client starts besides "regular"
  NoTask, NoState

Procs == Tasks \cup {Loop, Guard}
Items == UserItems \cup InjectItems \cup Mails
Kinds == {"regular", "shell", "compact"}

ASSUME DistinctActors == Loop \notin Tasks /\ Guard \notin Tasks /\ Loop # Guard
ASSUME NoTaskIsNone == NoTask \notin Tasks
ASSUME NoStateIsNone == NoState \notin States
ASSUME TriggersAreMails == TriggerMails \subseteq Mails
ASSUME OtherKindsAreKinds == OtherKinds \subseteq {"shell", "compact"}

VARIABLES
  activeState,  \* the turn_state of the slot, NoState when active_turn is None
  activeTask,   \* the task of the slot, NoTask when there is none
  pending,      \* TurnState.pending_input of each allocation
  phase,        \* mailbox_delivery_phase of the slot's turn state
  mailbox,      \* InputQueue.mailbox_pending_mails
  pc,           \* where each thread of control is
  ref,          \* the TurnState Arc a thread of control holds
  held,         \* items a thread of control took and has not stored yet
  starting,     \* the task a thread of control is about to install
  victim,       \* the task a thread of control is aborting
  kind,         \* TaskKind of each task
  input,        \* the input a task was started with
  cancelled,    \* tasks whose cancellation token is cancelled
  outcome,      \* terminal event sent for a turn
  started,      \* turns that sent TurnStarted
  sent,         \* items the session has accepted
  recorded,     \* items that reached the conversation history
  discarded,    \* items dropped because their turn was aborted
  overwritten,  \* tasks killed because another was installed over them
  shutdown      \* whether Op::Shutdown was received

slot == <<activeState, activeTask>>
queues == <<pending, phase, mailbox>>
locals == <<ref, held, starting, victim>>
turn == <<kind, input, cancelled, outcome, started, overwritten>>
fate == <<sent, recorded, discarded>>
vars == <<slot, queues, pc, locals, turn, fate, shutdown>>

RunPCs == {"begin", "drain", "work", "outer", "flush"}
FinishPCs == {"finish", "record", "event", "clear", "idle"}
StartPCs == {"pend", "try", "check", "collect", "open", "install"}
AbortPCs == {"abort", "waiting", "report", "purge"}
PCs == RunPCs \cup FinishPCs \cup StartPCs \cup AbortPCs
         \cup {"unused", "new", "ready", "gone", "closed"}

(***************************************************************************)
(* A session starts with an empty slot and an empty mailbox.               *)
(***************************************************************************)
Init ==
  /\ activeState = NoState
  /\ activeTask = NoTask
  /\ pending = [s \in States |-> {}]
  /\ phase = "CurrentTurn"
  /\ mailbox = {}
  /\ pc = [p \in Procs |-> IF p \in Tasks THEN "unused" ELSE "ready"]
  /\ ref = [p \in Procs |-> NoState]
  /\ held = [p \in Procs |-> {}]
  /\ starting = [p \in Procs |-> NoTask]
  /\ victim = [p \in Procs |-> NoTask]
  /\ kind = [t \in Tasks |-> "regular"]
  /\ input = [t \in Tasks |-> {}]
  /\ cancelled = {}
  /\ outcome = [t \in Tasks |-> "none"]
  /\ started = {}
  /\ sent = {}
  /\ recorded = {}
  /\ discarded = {}
  /\ overwritten = {}
  /\ shutdown = "no"

-----------------------------------------------------------------------------
(***************************************************************************)
(* Helpers.                                                                *)
(***************************************************************************)

\* Where a thread of control rests when its call has returned.
Rest(p) == IF p \in Tasks THEN "gone"
           ELSE IF p = Loop /\ shutdown = "yes" THEN "closed" ELSE "ready"

Goto(p, l) == pc' = [pc EXCEPT ![p] = l]

\* active_turn = None
EmptySlot == /\ activeState' = NoState
             /\ activeTask' = NoTask
             /\ phase' = "CurrentTurn"

\* An allocation nobody points to: what ActiveTurn::default() returns.
Unreferenced(s) == s # activeState /\ \A p \in Procs : ref[p] # s

\* ActiveTurn::default() put into the slot, its queue holding the given items.
Reserve(s, items) ==
  /\ Unreferenced(s)
  /\ activeState' = s
  /\ pending' = [pending EXCEPT ![s] = items]
  /\ phase' = "CurrentTurn"

AcceptsMailbox == activeState = NoState \/ phase = "CurrentTurn"

PendingOfTurn == IF activeState = NoState THEN {} ELSE pending[activeState]

\* InputQueue::get_pending_input: what it returns ...
PendingInput == PendingOfTurn \cup (IF AcceptsMailbox THEN mailbox ELSE {})

\* ... and what it removes.
DrainPendingInput ==
  /\ pending' = IF activeState = NoState THEN pending
                ELSE [pending EXCEPT ![activeState] = {}]
  /\ mailbox' = IF AcceptsMailbox THEN {} ELSE mailbox
  /\ UNCHANGED phase

\* InputQueue::has_pending_input
HasPendingInput == PendingOfTurn # {} \/ (AcceptsMailbox /\ mailbox # {})

HasTriggerMail == mailbox \cap TriggerMails # {}

Steerable == activeTask # NoTask /\ kind[activeTask] # "compact"

\* A turn sends one terminal event; a second one is remembered as "twice".
Terminal(t, event) ==
  outcome' = [outcome EXCEPT ![t] = IF @ = "none" THEN event ELSE "twice"]

-----------------------------------------------------------------------------
(***************************************************************************)
(* What clients do.                                                        *)
(***************************************************************************)
Unused == {t \in Tasks : pc[t] = "unused"}

\* Bound: a turn that is not demanded by an item leaves enough turn ids for
\* the items that are still to come.
Spare == Cardinality(Unused) >
           Cardinality((UserItems \ sent) \cup (TriggerMails \ (recorded \cup discarded)))

\* Input the running turn takes, from Op::UserInput or from turn/steer: both
\* end in steer_input, which holds the slot's lock.  Steering reopens the
\* mailbox for the turn.
Steer(i) ==
  /\ i \in UserItems \ sent
  /\ Steerable
  /\ sent' = sent \cup {i}
  /\ pending' = [pending EXCEPT ![activeState] = @ \cup {i}]
  /\ phase' = "CurrentTurn"
  /\ UNCHANGED <<slot, mailbox, pc, locals, turn, recorded, discarded, shutdown>>

\* A caller hands a fresh turn to spawn_task, which first aborts what runs.
Spawn(t, k, items) ==
  /\ pc[Loop] = "ready"
  /\ pc[t] = "unused"
  /\ kind' = [kind EXCEPT ![t] = k]
  /\ input' = [input EXCEPT ![t] = items]
  /\ starting' = [starting EXCEPT ![Loop] = t]
  /\ pc' = [pc EXCEPT ![Loop] = "abort", ![t] = "new"]
  /\ UNCHANGED <<slot, queues, ref, held, victim, cancelled, outcome, started,
                 overwritten, recorded, discarded, shutdown>>

\* Op::UserInput when steer_input answers NoActiveTurn.
UserInput(i, t) ==
  /\ i \in UserItems \ sent
  /\ activeTask = NoTask
  /\ sent' = sent \cup {i}
  /\ Spawn(t, "regular", {i})

\* Op::Compact and Op::Review replace what runs; Op::RunUserShellCommand
\* starts a task only when none runs.
OtherTask(t, k) ==
  /\ k \in OtherKinds
  /\ k = "shell" => activeTask = NoTask
  /\ Spare
  /\ Spawn(t, k, {})
  /\ UNCHANGED sent

\* Op::InterAgentCommunication
Communicate(m) ==
  /\ pc[Loop] = "ready"
  /\ m \in Mails \ sent
  /\ sent' = sent \cup {m}
  /\ mailbox' = mailbox \cup {m}
  /\ IF m \in TriggerMails THEN Goto(Loop, "pend") ELSE UNCHANGED pc
  /\ UNCHANGED <<slot, pending, phase, locals, turn, recorded, discarded, shutdown>>

\* Op::Interrupt
Interrupt ==
  /\ pc[Loop] = "ready"
  /\ Goto(Loop, "abort")
  /\ UNCHANGED <<slot, queues, locals, turn, fate, shutdown>>

\* Op::Shutdown
Shutdown ==
  /\ pc[Loop] = "ready"
  /\ shutdown' = "yes"
  /\ Goto(Loop, "abort")
  /\ UNCHANGED <<slot, queues, locals, turn, fate>>

\* inject_no_new_turn: into the slot's queue, or straight into the history.
Inject(i) ==
  /\ i \in InjectItems \ sent
  /\ sent' = sent \cup {i}
  /\ IF activeState # NoState
     THEN /\ pending' = [pending EXCEPT ![activeState] = @ \cup {i}]
          /\ UNCHANGED recorded
     ELSE /\ recorded' = recorded \cup {i}
          /\ UNCHANGED pending
  /\ UNCHANGED <<slot, phase, mailbox, pc, locals, turn, discarded, shutdown>>

\* The guardian denied a turn too often and spawns a task to abort it.
GuardianTrips(t) ==
  /\ "guardian" \in Extensions
  /\ pc[Guard] = "ready"
  /\ pc[t] = "work"
  /\ activeTask = t
  /\ victim' = [victim EXCEPT ![Guard] = t]
  /\ Goto(Guard, "abort")
  /\ UNCHANGED <<slot, queues, ref, held, starting, turn, fate, shutdown>>

-----------------------------------------------------------------------------
(***************************************************************************)
(* abort_all_tasks (the loop) and abort_turn_if_active (the guardian).     *)
(***************************************************************************)
\* Mutant: the case of an empty slot is forgotten.
AbortsAlways(p) == TRUE

Aborts(p) == activeTask # NoTask /\ (p = Loop \/ activeTask = victim[p])

\* The slot is taken and the task's token cancelled.  (The token of a task
\* in the slot is never cancelled already.)
AbortTakes(p) ==
  /\ pc[p] = "abort"
  /\ Aborts(p)
  /\ victim' = [victim EXCEPT ![p] = activeTask]
  /\ ref' = [ref EXCEPT ![p] = activeState]
  /\ cancelled' = cancelled \cup {activeTask}
  /\ EmptySlot
  /\ Goto(p, "waiting")
  /\ UNCHANGED <<pending, mailbox, held, starting, kind, input, outcome, started,
                 overwritten, fate, shutdown>>

\* Nothing to abort; abort_all_tasks has emptied the slot all the same.
AbortFindsNone(p) ==
  /\ pc[p] = "abort"
  /\ ~Aborts(p)
  /\ IF p = Loop THEN EmptySlot ELSE UNCHANGED <<slot, phase>>
  /\ victim' = [victim EXCEPT ![p] = NoTask]
  /\ Goto(p, IF starting[p] # NoTask THEN "collect" ELSE Rest(p))
  /\ UNCHANGED <<pending, mailbox, ref, held, starting, turn, fate, shutdown>>

\* Mutant: a task that outlives the grace period is left running.
AbortWithoutKill(p) ==
  /\ pc[p] = "waiting"
  /\ Goto(p, "report")
  /\ UNCHANGED <<slot, queues, locals, turn, fate, shutdown>>

\* The task is done or the grace period of 100 ms is over: it is killed.
AbortKills(p) ==
  /\ pc[p] = "waiting"
  /\ LET t == victim[p]
     IN /\ pc' = [pc EXCEPT ![p] = "report", ![t] = "gone"]
        /\ discarded' = discarded \cup input[t] \cup held[t]
        /\ input' = [input EXCEPT ![t] = {}]
        /\ held' = [held EXCEPT ![t] = {}]
        /\ ref' = [ref EXCEPT ![t] = NoState]
        /\ starting' = [starting EXCEPT ![t] = NoTask]
  /\ UNCHANGED <<slot, queues, victim, kind, cancelled, outcome, started,
                 overwritten, sent, recorded, shutdown>>

\* Mutant: an abort sends no terminal event.
AbortSilently(p) ==
  /\ pc[p] = "report"
  /\ Goto(p, "purge")
  /\ UNCHANGED <<slot, queues, locals, turn, fate, shutdown>>

AbortReports(p) ==
  /\ pc[p] = "report"
  /\ Terminal(victim[p], "aborted")
  /\ Goto(p, "purge")
  /\ UNCHANGED <<slot, queues, locals, kind, input, cancelled, started,
                 overwritten, fate, shutdown>>

\* clear_pending, and for an interrupt a turn for the mail that waits.
AbortPurges(p) ==
  /\ pc[p] = "purge"
  /\ discarded' = discarded \cup pending[ref[p]]
  /\ pending' = [pending EXCEPT ![ref[p]] = {}]
  /\ ref' = [ref EXCEPT ![p] = NoState]
  /\ victim' = [victim EXCEPT ![p] = NoTask]
  /\ Goto(p, IF starting[p] # NoTask THEN "collect" ELSE "pend")
  /\ UNCHANGED <<slot, phase, mailbox, held, starting, turn, sent, recorded,
                 shutdown>>

-----------------------------------------------------------------------------
(***************************************************************************)
(* maybe_start_turn_for_pending_work, try_start_turn_if_idle, start_task.  *)
(***************************************************************************)

\* A fresh turn id for a turn the session starts by itself.
NewTurn(p, t) ==
  /\ pc[t] = "unused"
  /\ starting' = [starting EXCEPT ![p] = t]
  /\ pc' = [pc EXCEPT ![p] = "collect", ![t] = "new"]

\* The slot is reserved for a turn that trigger mail demands.
StartForMail(p, s, t) ==
  /\ pc[p] = "pend"
  /\ HasTriggerMail
  /\ activeState = NoState
  /\ Reserve(s, {})
  /\ NewTurn(p, t)
  /\ UNCHANGED <<activeTask, mailbox, ref, held, victim, turn, fate, shutdown>>

NoStartForMail(p) ==
  /\ pc[p] = "pend"
  /\ ~HasTriggerMail \/ activeState # NoState
  /\ Goto(p, Rest(p))
  /\ UNCHANGED <<slot, queues, locals, turn, fate, shutdown>>

\* An idle continuation reserves the slot ...
TryReserves(p, s) ==
  /\ pc[p] = "try"
  /\ ~HasTriggerMail
  /\ activeState = NoState
  /\ Reserve(s, {})
  /\ ref' = [ref EXCEPT ![p] = s]
  /\ Goto(p, "check")
  /\ UNCHANGED <<activeTask, mailbox, held, starting, victim, turn, fate, shutdown>>

TryRejected(p) ==
  /\ pc[p] = "try"
  /\ HasTriggerMail \/ activeState # NoState
  /\ Goto(p, "gone")
  /\ UNCHANGED <<slot, queues, locals, turn, fate, shutdown>>

\* Mutant: the slot is emptied without looking whose it is.
AssumedReserved(p) == TRUE

StillReserved(p) == activeTask = NoTask /\ activeState = ref[p]

\* ... and gives it up for trigger mail that arrived in the meantime, or
\* because the session is in Plan mode (clear_reserved_idle_turn) ...
TryYields(p) ==
  /\ pc[p] = "check"
  /\ IF StillReserved(p) THEN EmptySlot ELSE UNCHANGED <<slot, phase>>
  /\ ref' = [ref EXCEPT ![p] = NoState]
  /\ Goto(p, "pend")
  /\ UNCHANGED <<pending, mailbox, held, starting, victim, turn, fate, shutdown>>

\* ... or starts a turn if the reservation still stands.
TryStarts(p, t) ==
  /\ pc[p] = "check"
  /\ ~HasTriggerMail
  /\ StillReserved(p)
  /\ Spare
  /\ ref' = [ref EXCEPT ![p] = NoState]
  /\ NewTurn(p, t)
  /\ UNCHANGED <<slot, queues, held, victim, turn, fate, shutdown>>

TryBusy(p) ==
  /\ pc[p] = "check"
  /\ ~HasTriggerMail
  /\ ~StillReserved(p)
  /\ ref' = [ref EXCEPT ![p] = NoState]
  /\ Goto(p, "gone")
  /\ UNCHANGED <<slot, queues, held, starting, victim, turn, fate, shutdown>>

\* start_task takes the input that waits ...
Collect(p) ==
  /\ pc[p] = "collect"
  /\ held' = [held EXCEPT ![p] = PendingInput]
  /\ DrainPendingInput
  /\ Goto(p, "open")
  /\ UNCHANGED <<slot, ref, starting, victim, turn, fate, shutdown>>

\* ... gives it to the turn in the slot, or to a new one ...
Open(p, s) ==
  /\ pc[p] = "open"
  /\ IF activeState = NoState
     THEN Reserve(s, held[p])
     ELSE /\ s = activeState
          /\ pending' = [pending EXCEPT ![s] = @ \cup held[p]]
          /\ UNCHANGED <<activeState, phase>>
  /\ held' = [held EXCEPT ![p] = {}]
  /\ Goto(p, "install")
  /\ UNCHANGED <<activeTask, mailbox, ref, starting, victim, turn, fate, shutdown>>

\* ... and puts the spawned task into the slot.  A task that is there already
\* is dropped, which aborts it (its AbortOnDropHandle).
Install(p, s) ==
  /\ pc[p] = "install"
  /\ IF activeState = NoState
     THEN Reserve(s, {})
     ELSE s = activeState /\ UNCHANGED <<activeState, pending, phase>>
  /\ activeTask' = starting[p]
  /\ starting' = [starting EXCEPT ![p] = NoTask]
  /\ IF activeTask = NoTask
     THEN /\ pc' = [pc EXCEPT ![p] = Rest(p), ![starting[p]] = "begin"]
          /\ UNCHANGED <<held, input, overwritten>>
     ELSE /\ pc' = [pc EXCEPT ![p] = Rest(p), ![starting[p]] = "begin",
                              ![activeTask] = "gone"]
          /\ held' = [held EXCEPT ![activeTask] = {}]
          /\ input' = [input EXCEPT ![activeTask] = {}]
          /\ overwritten' = overwritten \cup {activeTask}
  /\ UNCHANGED <<mailbox, ref, victim, kind, cancelled, outcome, started, fate, shutdown>>

-----------------------------------------------------------------------------
(***************************************************************************)
(* A running task (RegularTask::run and run_turn).                         *)
(***************************************************************************)

\* TurnStarted, then the input the turn was started with is recorded.
Begin(t) ==
  /\ pc[t] = "begin"
  /\ started' = started \cup {t}
  /\ recorded' = recorded \cup input[t]
  /\ input' = [input EXCEPT ![t] = {}]
  /\ Goto(t, IF kind[t] = "regular" /\ input[t] = {} THEN "drain" ELSE "work")
  /\ UNCHANGED <<slot, queues, locals, kind, cancelled, outcome, overwritten,
                 sent, discarded, shutdown>>

\* Pending input is moved into the history before the next request.
Drain(t) ==
  /\ pc[t] = "drain"
  /\ recorded' = recorded \cup PendingInput
  /\ DrainPendingInput
  /\ Goto(t, "work")
  /\ UNCHANGED <<slot, locals, turn, sent, discarded, shutdown>>

\* A visible answer was recorded: later mail waits for the next turn.
Defer(t) ==
  /\ pc[t] = "work"
  /\ activeTask = t
  /\ pending[activeState] = {}
  /\ phase' = "NextTurn"
  /\ UNCHANGED <<slot, pending, mailbox, pc, locals, turn, fate, shutdown>>

\* A tool call reopens the mailbox for this turn.
Reopen(t) ==
  /\ pc[t] = "work"
  /\ activeTask = t
  /\ phase' = "CurrentTurn"
  /\ UNCHANGED <<slot, pending, mailbox, pc, locals, turn, fate, shutdown>>

\* The model asks for a follow-up request.
FollowUp(t) ==
  /\ pc[t] = "work"
  /\ kind[t] = "regular"
  /\ Goto(t, "drain")
  /\ UNCHANGED <<slot, queues, locals, turn, fate, shutdown>>

\* run_turn returns; a compaction, a review or a shell command is over.
WorkEnds(t) ==
  /\ pc[t] = "work"
  /\ Goto(t, IF kind[t] = "regular" THEN "outer" ELSE "flush")
  /\ UNCHANGED <<slot, queues, locals, turn, fate, shutdown>>

\* The turn goes on as long as there is input for it.
OuterLoop(t) ==
  /\ pc[t] = "outer"
  /\ Goto(t, IF HasPendingInput THEN "drain" ELSE "flush")
  /\ UNCHANGED <<slot, queues, locals, turn, fate, shutdown>>

\* A cancelled task leaves its loop.
ObserveCancel(t) ==
  /\ t \in cancelled
  /\ pc[t] \in {"drain", "work", "outer"}
  /\ Goto(t, "flush")
  /\ UNCHANGED <<slot, queues, locals, turn, fate, shutdown>>

\* The rollout is flushed and the token read once more.
Flush(t) ==
  /\ pc[t] = "flush"
  /\ Goto(t, IF t \in cancelled THEN "gone" ELSE "finish")
  /\ UNCHANGED <<slot, queues, locals, turn, fate, shutdown>>

-----------------------------------------------------------------------------
(***************************************************************************)
(* on_task_finished.                                                       *)
(***************************************************************************)

\* Mutant: the finished task stays in the slot.
FinishKeepsTask(t) ==
  /\ pc[t] = "finish"
  /\ activeTask # NoTask
  /\ ref' = [ref EXCEPT ![t] = activeState]
  /\ Goto(t, "record")
  /\ UNCHANGED <<slot, queues, held, starting, victim, turn, fate, shutdown>>

\* Whatever task the slot holds is taken and its handle detached.
FinishTakes(t) ==
  /\ pc[t] = "finish"
  /\ activeTask # NoTask
  /\ activeTask' = NoTask
  /\ ref' = [ref EXCEPT ![t] = activeState]
  /\ Goto(t, "record")
  /\ UNCHANGED <<activeState, queues, held, starting, victim, turn, fate, shutdown>>

\* Mutant: a task whose slot was taken reports its end all the same.
FinishWithoutTask(t) ==
  /\ pc[t] = "finish"
  /\ activeTask = NoTask
  /\ Goto(t, "event")
  /\ UNCHANGED <<slot, queues, locals, turn, fate, shutdown>>

FinishFindsNone(t) ==
  /\ pc[t] = "finish"
  /\ activeTask = NoTask
  /\ Goto(t, "gone")
  /\ UNCHANGED <<slot, queues, locals, turn, fate, shutdown>>

\* Mutant: the input that waits is dropped.
FinishDropsPending(t) ==
  /\ pc[t] = "record"
  /\ pending' = [pending EXCEPT ![ref[t]] = {}]
  /\ Goto(t, "event")
  /\ UNCHANGED <<slot, phase, mailbox, locals, turn, fate, shutdown>>

\* Input that came too late for the model is recorded.
FinishRecords(t) ==
  /\ pc[t] = "record"
  /\ recorded' = recorded \cup pending[ref[t]]
  /\ pending' = [pending EXCEPT ![ref[t]] = {}]
  /\ Goto(t, "event")
  /\ UNCHANGED <<slot, phase, mailbox, locals, turn, sent, discarded, shutdown>>

\* TurnComplete, or TurnAborted when the task itself returned TurnAborted.
FinishReports(t) ==
  /\ pc[t] = "event"
  /\ \E event \in {"complete", "aborted"} : Terminal(t, event)
  /\ Goto(t, "clear")
  /\ UNCHANGED <<slot, queues, locals, kind, input, cancelled, started,
                 overwritten, fate, shutdown>>

\* The slot is emptied only if it still holds this turn and no task.
FinishClears(t) ==
  /\ pc[t] = "clear"
  /\ IF StillReserved(t) THEN EmptySlot ELSE UNCHANGED <<slot, phase>>
  /\ ref' = [ref EXCEPT ![t] = NoState]
  /\ Goto(t, IF StillReserved(t) THEN "idle" ELSE "gone")
  /\ UNCHANGED <<pending, mailbox, held, starting, victim, turn, fate, shutdown>>

\* emit_thread_idle_lifecycle_if_idle: an idle thread may continue its goal.
IdleContinues(t) ==
  /\ pc[t] = "idle"
  /\ "goal" \in Extensions
  /\ activeState = NoState
  /\ ~HasTriggerMail
  /\ Goto(t, "try")
  /\ UNCHANGED <<slot, queues, locals, turn, fate, shutdown>>

IdleEnds(t) ==
  /\ pc[t] = "idle"
  /\ Goto(t, "gone")
  /\ UNCHANGED <<slot, queues, locals, turn, fate, shutdown>>

-----------------------------------------------------------------------------
ClientStep ==
  \/ \E i \in UserItems : Steer(i)
  \/ \E i \in UserItems, t \in Tasks : UserInput(i, t)
  \/ \E t \in Tasks, k \in OtherKinds : OtherTask(t, k)
  \/ \E m \in Mails : Communicate(m)
  \/ Interrupt
  \/ Shutdown
  \/ \E i \in InjectItems : Inject(i)
  \/ \E t \in Tasks : GuardianTrips(t)

AbortStep(p) ==
  \/ AbortTakes(p)
  \/ AbortFindsNone(p)
  \/ AbortKills(p)
  \/ AbortReports(p)
  \/ AbortPurges(p)

StartStep(p) ==
  \/ \E s \in States, t \in Tasks : StartForMail(p, s, t)
  \/ NoStartForMail(p)
  \/ Collect(p)
  \/ \E s \in States : Open(p, s) \/ Install(p, s)

TryStep(t) ==
  \/ \E s \in States : TryReserves(t, s)
  \/ TryRejected(t)
  \/ TryYields(t)
  \/ \E u \in Tasks : TryStarts(t, u)
  \/ TryBusy(t)

RunStep(t) ==
  \/ Begin(t)
  \/ Drain(t)
  \/ Defer(t)
  \/ Reopen(t)
  \/ FollowUp(t)
  \/ WorkEnds(t)
  \/ OuterLoop(t)
  \/ ObserveCancel(t)
  \/ Flush(t)

FinishStep(t) ==
  \/ FinishTakes(t)
  \/ FinishFindsNone(t)
  \/ FinishRecords(t)
  \/ FinishReports(t)
  \/ FinishClears(t)
  \/ IdleContinues(t)
  \/ IdleEnds(t)

Next ==
  \/ ClientStep
  \/ \E p \in {Loop, Guard} : AbortStep(p)
  \/ \E p \in Procs : StartStep(p)
  \/ \E t \in Tasks : TryStep(t) \/ RunStep(t) \/ FinishStep(t)

(***************************************************************************)
(* Tokio polls every task that can make progress, and a model that keeps   *)
(* asking for follow-ups or re-tagging its answer eventually stops.        *)
(* Clients owe nothing.                                                    *)
(***************************************************************************)
Fairness ==
  /\ \A p \in {Loop, Guard} : WF_vars(AbortStep(p))
  /\ \A p \in Procs : WF_vars(StartStep(p))
  /\ \A t \in Tasks : /\ WF_vars(TryStep(t))
                      /\ WF_vars(Begin(t) \/ Drain(t) \/ OuterLoop(t) \/ Flush(t))
                      /\ SF_vars(WorkEnds(t))
                      /\ WF_vars(FinishStep(t))

Spec == Init /\ [][Next]_vars /\ Fairness

-----------------------------------------------------------------------------
TypeOK ==
  /\ activeState \in States \cup {NoState}
  /\ activeTask \in Tasks \cup {NoTask}
  /\ pending \in [States -> SUBSET Items]
  /\ phase \in {"CurrentTurn", "NextTurn"}
  /\ mailbox \subseteq Mails
  /\ pc \in [Procs -> PCs]
  /\ ref \in [Procs -> States \cup {NoState}]
  /\ held \in [Procs -> SUBSET Items]
  /\ starting \in [Procs -> Tasks \cup {NoTask}]
  /\ victim \in [Procs -> Tasks \cup {NoTask}]
  /\ kind \in [Tasks -> Kinds]
  /\ input \in [Tasks -> SUBSET Items]
  /\ cancelled \subseteq Tasks
  /\ outcome \in [Tasks -> {"none", "complete", "aborted", "twice"}]
  /\ started \subseteq Tasks
  /\ sent \subseteq Items
  /\ recorded \subseteq Items
  /\ discarded \subseteq Items
  /\ overwritten \subseteq Tasks
  /\ shutdown \in {"no", "yes"}

\* The task in the slot is alive and not cancelled and has a turn state: the
\* slot never keeps the session busy with a task that is over.
SlotTaskIsAlive ==
  activeTask # NoTask =>
    /\ pc[activeTask] \in RunPCs \cup {"finish"}
    /\ activeTask \notin cancelled
    /\ activeState # NoState

\* A session runs at most one task at a time (docs/protocol_v1.md): the abort
\* that precedes a start is over before the next task begins.
OneTaskRunning ==
  \A t, u \in Tasks : pc[t] \in RunPCs /\ pc[u] \in RunPCs => t = u

\* A running task that nobody cancelled is the one in the slot, so that it
\* can be steered and interrupted.
RunningTaskIsInSlot ==
  \A t \in Tasks : pc[t] \in RunPCs \cup {"finish"} /\ t \notin cancelled => activeTask = t

\* A turn has at most one terminal event: the TurnComplete of the task's own
\* end and the TurnAborted of an abort never both happen.
OneTerminalEvent == \A t \in Tasks : outcome[t] # "twice"

\* start_task never finds a running task in the slot it installs into: what
\* its debug_assert says.
NoTaskOverwritten == overwritten = {}

\* A slot without a task belongs to somebody who will fill or empty it: a
\* finishing task, a reservation or a start under way.
ReservedSlotHasOwner ==
  activeState # NoState /\ activeTask = NoTask =>
    \E p \in Procs : \/ pc[p] \in {"record", "event", "clear", "check"} /\ ref[p] = activeState
                     \/ pc[p] \in {"collect", "open", "install"}

\* Where an item that was accepted can still be found.
Found(i) ==
  \/ i \in mailbox \cup recorded \cup discarded
  \/ activeState # NoState /\ i \in pending[activeState]
  \/ \E p \in Procs : i \in held[p] \/ (ref[p] # NoState /\ i \in pending[ref[p]])
  \/ \E t \in Tasks : i \in input[t]

\* Input the session accepted is waiting, recorded, or was dropped by an
\* abort of its turn: no interleaving of steering, mail, the end of a turn
\* and the start of the next one loses it.
NoInputLost == \A i \in sent : Found(i)

\* The task in the slot leaves it: a session never stays busy for ever.
SlotIsReleased == \A t \in Tasks : activeTask = t ~> activeTask # t

\* Every turn that announced itself is concluded with a terminal event.
TurnsConclude == \A t \in Tasks : t \in started ~> outcome[t] # "none"
=============================================================================
