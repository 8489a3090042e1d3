# Verification of codex: turns, agents, exec sessions, streams and what is kept on disk

This directory holds TLA+ models of the concurrent core of the repository: the
lifecycle of a turn and the control of sub-agents in `codex-rs/core`, the
session, process and recovery layers of `codex-rs/exec-server`, the request
queues of `codex-rs/app-server`, the rollout file with its recorder and its
compression, and the job table of the memory pipeline. TLC checks them on small instances and TLAPS
proves the main safety properties for every instance. `PROJECT.json` lists the
components, the runs, which source lines each definition models, the hazards
the properties are aimed at, the disagreements between code and documentation
that the runs show, and the theorems.

    tlc -workers 2 -config MCTurnLifecycle.cfg MCTurnLifecycle     # one run
    tlapm TurnLifecycleProofs.tla                                  # one proof

## 1. The system

codex is a coding agent. A front end (terminal, IDE through the app-server,
SDK) sends submissions to a *session*; the session runs *tasks*, of which a
regular one calls a model and executes the tools it asks for, locally or on a
remote *exec-server*.

| component | state it keeps | operations | hard behaviour | correct when |
|---|---|---|---|---|
| turn lifecycle (`core/src/tasks`, `session/inject.rs`) | `active_turn`, the slot with the running task and its `TurnState` | spawn, start, abort, finish, steer, inject, start for pending work, start if idle | every operation releases the lock of the slot at its awaits; the submission loop, the finishing task, extensions and the guardian interleave | one task runs; it can be reached through the slot; it reports its end once; the slot is not kept by nobody |
| input queue (`session/input_queue.rs`) | pending input per turn, mailbox, delivery phase | push, drain, defer, accept | input arrives while a turn ends | accepted input is processed, recorded or visibly discarded |
| exec-server sessions (`server/session_registry.rs`, `handler.rs`, `processor.rs`) | registry of sessions with attachment and expiry, one handler per connection | attach, resume, detach, expire, shut down | clients reconnect while expiry tasks of earlier detaches sleep | one owner; resumable for the TTL; reaped after it |
| exec-server processes (`local_process.rs`) | process table, retained output, sequence numbers, notification sender | start, read, write, signal, output, exit, close, retire | events are numbered under a lock and notified after it | each event numbered once; closed once, after exit and end of streams |
| exec-server client (`client.rs`, `client_recovery.rs`) | reorder buffer per process, routes, connection status | notification, resume, recovery read, install, fail | notifications are reordered and lost; recovery races with live ones | subscribers see the server's order, one terminal event, no endless gap |
| app-server | queue per key, gate per connection, pending server requests, thread listeners | enqueue, drain, close, send, reply | queues drained by spawned tasks while connections go | order per key, no request lost or run after the gate closed |
| multi-agent control (`core/src/agent`) | registry of agents, residency list, execution count | spawn, message, interrupt, close, resume, reload, unload | check-then-act around awaits by the calls of all agents of a session | limits hold, every count and slot belongs to an agent or a call, nobody waits for a thread that will not end |
| rollout recorder and thread store (`rollout`, `thread-store`) | the thread's file, the writer's queue and handle, the worker's job | record, persist, flush, shut down, resume, compress, read | writes that fail partway, crashes, a worker that renames and unlinks beside the writer | nothing is skipped, doubled or reordered; what was acknowledged is read back |
| memory jobs (`state/src/runtime/memories.rs`, `memories/write`) | job rows with tokens and leases, outputs, the global job | claim, heartbeat, succeed, fail, select, mark, pollute, delete, prune, clear | leases run out under an owner that comes back; several processes | a stale worker changes nothing; the cap holds; what is marked as used was used |
| message history (`message-history`) | one file | append, trim, read | a crash while it is written back | not modelled |
| guardian, tools, context manager, MCP, code mode, sandboxes, login, TUI, configuration, telemetry | | | | see `components` in `PROJECT.json` |

Components interact as follows. A session's tools run processes through
`ExecBackend`: locally through `LocalProcess`, remotely through
`ExecServerClient`, whose RPCs are served by a connection's
`ExecServerHandler`, which holds a `SessionHandle` of the shared
`SessionRegistry`. A session outlives its connection, so that the client can
resume it. Process events travel back as notifications through the sender that
the session's last `attach` installed. Sessions of different agents talk
through the mailboxes of `InputQueue`, and extensions and the guardian act on
a session's slot from tasks of their own.

## 2. Modules

| module | models | lines of code behind it |
|---|---|---|
| `TurnLifecycle` | the slot, the input queue and everybody who acts on them | `tasks/mod.rs`, `tasks/regular.rs`, `tasks/lifecycle.rs`, `session/inject.rs`, `session/input_queue.rs`, parts of `session/mod.rs`, `handlers.rs`, `turn.rs`, `guardian/review.rs` |
| `TurnLifecycleProofs` | theorems | |
| `ExecSessions` | the session registry, connection handlers and loops, expiry tasks | `session_registry.rs`, `handler.rs`, `processor.rs` |
| `ExecSessionsProofs` | theorems | |
| `ExecStream` | the events of one remote process from the server's tasks to the client's subscribers, with disconnects and recovery | `local_process.rs`, `client.rs`, `client_recovery.rs` |
| `ProcessEvents` | abstract: what a subscriber is promised | `process.rs` |
| `RecoveryWalk` | `recover_events` written as its loop, a reference for `ExecStream` | `client_recovery.rs`, `client.rs` |
| `RequestSerialization` | the app-server's queues per key, their drain tasks, the connection gates, clean-up and the end of the processor | `request_serialization.rs`, `connection_rpc_gate.rs`, parts of `message_processor.rs`, `lib.rs` |
| `RequestSerializationProofs` | theorems | |
| `AgentControl` | the registry, the residency list, the execution limit and the tool calls that act on them | `agent/registry.rs`, `agent/control/*.rs`, the `multi_agents` tool handlers, parts of `thread_manager.rs` |
| `RolloutFile` | the file of one thread, the recorder and the compression worker | `rollout/src/recorder.rs`, `compression.rs`, `thread-store/src/local/live_writer.rs` |
| `MemoryJobs` | the job table, the outputs, and the processes that work on them | `state/src/runtime/memories.rs`, `memories/write` |
| `MemoryJobsProofs`, `ExecStreamProofs`, `AgentControlProofs`, `RolloutFileProofs` | theorems | |
| `MC*` | instances for TLC: symmetry sets | |

### TurnLifecycle

The variables `activeState` and `activeTask` are the two parts of
`Session::active_turn`. Each thread of control (`Loop`, the submission loop;
each task; `Guard`, the task spawned by the guardian) has a program counter, and
an action is the code between two points at which the thread awaits and another
one can take the lock. `AbortTakes`, `AbortKills`, `AbortReports` and
`AbortPurges` are one `abort_all_tasks`: the slot is taken, the task is given
100 ms to end and is killed, `TurnAborted` is sent, the pending input is
dropped, and, for an interrupt, a turn may start for waiting mail. `Collect`,
`Open` and `Install` are `start_task`; `FinishTakes` to `FinishClears` are
`on_task_finished`; `Try*` are `try_start_turn_if_idle`. The task body is what
matters to the slot: it drains its input, may defer or reopen the mailbox, asks
for follow-ups, looks for pending input a last time, and ends. `Extensions` says which optional
actors take part: `"goal"` (an extension that continues an idle thread) and
`"guardian"`. Abstracted: the order of items in a queue, the model, metrics,
rollout flushes, hooks.

### ExecSessions

An entry has `current` (the connection it is attached to), `detached` and
`expires`; the registry is a set of session ids. A clock `now` advances by
ticks; `timers` are the sleeping `expire_if_detached` tasks, one for every
detach, none of which is ever cancelled. An `attach` that meets an expired entry removes it
and awaits the shutdown of its processes (`"expiring"`); a disconnect drops that
await, and the session is put in `orphaned`. `server` is the transport, or
`"down"` after the registry's shutdown, which only the stdio transport calls.

### ExecStream

`log` is the server's sequence of event kinds; the number of an event is its
place. Stream tasks and the exit watcher append to it (`StreamChunk`,
`ChildExits`, `MaybeEmitClosed`), later clone the notification sender
(`CloneSender`) and later still send (`Notify`): this is where events overtake
each other and are sent to connections that have been replaced. A disconnect
loses a suffix of what was sent. The client's `Notification` is
`handle_server_notification` with `publish_ordered_event`. Recovery follows
`recover`: `RequestRecovery`, `Resume`, `AskRead`, `AnswerRead`,
`RecoverEvents`, `GiveUp`, `CandidateLost`, `Install`, `RecoveryFails`, with the
reader of the new connection already at work. `recover_events` is stated in
closed form (which prefix becomes publishable, which event is taken to be the exit,
what remains missing); `RecoveryWalk` has the loop itself and a run compares the
two on every reply that is applied. Abstracted: payloads, byte limits (a chunk
is one byte), times.

`ProcessEvents` has three variables, the process's log, what the subscriber has
been given, and how the stream stands; `ExecStream` implements it with
`seen <- SubSeq(published, 1, last)`.

### RequestSerialization

Requests are numbered as they arrive; `queue` and `present` are the map of
`RequestSerializationQueues`, and a drain task is named by the request that
spawned it. `DrainPops` and `DrainEnds` are the two outcomes of one turn of the
loop in `drain` under the lock, `DrainJoins` is the return of `join_all`.
`Run` is the check of the gate and the taking of a token, in one critical
section. The clean-up of a closed connection ends by `CleanUp` when the gate has
drained, or by `CleanUpAnyway` when `CONNECTION_RPC_DRAIN_TIMEOUT` has passed.
Abstracted: which key and access a method has (any), and what a handler does (it
may never return). The forced end of the processor, which waits for nothing, is
left out.

### AgentControl

A tool call (`spawn`, `message`, `send_input`, `followup`, `interrupt`,
`close`, `resume`) is a small program with a program counter; an action is what
it does between two awaits. `agent_tree` and `total_count` are `AgentRegistry`,
`residents` and `pending_slots` are `V2Residency`. What drops when a call fails
or ends (`SpawnReservation`, the residency slot) is a field of the call, `resv`,
`held` and `slot`, given back by `Fail` and `Finish`. Threads are what the thread
manager holds under an id: `loop` is the state of the submission loop, `queue`
its submissions, and `gen` tells two threads apart that lived under the same id.
`version` is chosen at the start: a v1 session counts agents, a v2 session has
paths, loads and unloads. Abstracted: nicknames, roles, the content of messages,
how a history is forked.

### RolloutFile

A file is a sequence of items, line ends and torn pieces. `Receive`,
`Materialize`, `Open`, `WriteLine`, `WriteFails` and `WriteDone` are the writer
task with its deferred creation, its queue of pending items and its one retry
with a fresh handle; `Ended` is a recorder whose channel was dropped; `Crash`
loses what was in memory. `GetsCold` to `RemovePlain` are the compression
worker, which may die at any step. `Loaded` is `load_rollout_items`: the places of
the lines that parse, the others are skipped; `Read` is what they hold. `torn` and `unlinked` record that a write left part of
a line behind, or that the worker removed a file in use: the two ways in which
an acknowledged item becomes unreadable (see the findings and the weaknesses).

### MemoryJobs

One action is one transaction, or one statement outside of any. Times are kept
as what is left of them (`lease`, `retry`, `cooldown` count down to 0), so the
model has no clock and no bound on time. `attempt` is what a claimer is doing,
under a token of its own; `Crash` leaves its row as it is, to be taken over when
the lease has run out, and an attempt whose row was taken over may still report
(`Succeed`, `FailStage1`, `MarkSucceeded` with a token that no longer matches).
`consolidated` is a history variable: the versions that the last successful
consolidation used. Abstracted: which outputs are selected (any), the agent's
work, the workspace files.

## 3. Runs

| run | instance | shows |
|---|---|---|
| `exec_sessions` | 3 connections, 1 session, both transports, TTL 2, time 5 | ownership, registration, routing of notifications, the resume window; detached sessions are resumed or reaped; the processes of removed sessions stop |
| `turn_lifecycle` | 2 tasks, 2 inputs, 1 trigger mail, shell and compact tasks, no extensions | one task at a time, reachable, one terminal event, no lost input; turns conclude and the slot is released |
| `turn_extensions` | 3 tasks, input, injected item, trigger mail, goal and guardian | the slot never holds a dead task |
| `exec_stream` | 2 streams, 2 chunks, 2 connections, nothing evicted | order, one terminal event, routes, implementation of `ProcessEvents` |
| `recovery_walk` | 1 stream, 2 chunks of which 1 is retained, buffer of 1 | recovery equals its loop, the buffer's limit, no endless gap, the stream ends |
| `request_serialization` | 4 requests, 1 key, 1 connection, requests without a key | order per key, one drain task per queue, no handler after the clean-up, nobody forgotten, closed connections are cleaned up |
| `agent_control` | the root and 1 agent at first, 3 sub-agent ids, 3 paths, capacity 2, 3 calls, both versions | the count covers every agent and every spawn in flight; slots and paths belong to calls; nobody waits for a thread that will not end |
| `memory_jobs` | 2 threads of 2 versions, 2 attempts, 1 running job, lease and cooldown 1, 1 retry | the cap, outputs match their rows, marked versions were consolidated, nothing goes back |
| `rollout_file` | 2 items, channel of 2, 2 faults, compression on | items are conserved and loaded in order, acknowledged ones kept, the visible history only grows |
| `turn_overwrite`, `exec_stream_evicted`, `rollout_torn` | the smallest that shows it | findings, below |

*Why the bounds are enough to meet the hard cases.* Three connections let a session be detached, resumed and detached
again while the first expiry task sleeps, and a TTL of two ticks separates
"before", "at" and "after" the deadline. Two tasks are a victim and its
successor, and three add a continuation or a turn for mail; task ids are used once, and the guard
`Spare` lets a turn that no item demands start only if enough ids are left for
the items still to come. Two
connections are one loss and one recovery; two chunks are one that is lost and
one that arrives, and with one retained, one that is evicted. `MaxOut`,
`MaxConns` and `MaxTime` only bound the environment. One session and one key are
enough for TLC because sessions and keys do not share state that the properties
read, and the invariants are proved for any number of them. Four requests are
one that spawns the drain task, two shared reads and an exclusive request
behind them, or a queue that is emptied and made anew. Three calls are two that
race for a slot, a path or a count and a third that closes, resumes or unloads
what they are about; with capacity 2, the second agent spawned by them makes one
unload another. Two attempts are an owner that stalls and the one that takes its
row over, in stage 1 and in phase 2; two threads with one running job make the
cap matter. The retry delay of the run is 0: with one retry a failed row is held
back by its retries already, so only the back-off of the global job is not
exercised by TLC (the proofs cover any delay). Two items and two faults are a
line that is torn, its retry, and a retry that fails as well.

*Deadlock.* `ExecStream` is checked for deadlock: its only stop is `Done`, when
every server task has ended; so is `MemoryJobs`, which never stops. The other models stop legitimately when ids,
requests or time run out, so their configurations switch the check off.

*Fairness.* Tokio polls every task that can run, a timer fires, and an awaited
lock is granted: weak fairness of each thread's own steps. Nothing is assumed of
clients, of the child process, of the network or of a connection's coming back.
`TurnLifecycle` assumes strong fairness of `WorkEnds`: a model that keeps asking
for follow-ups eventually gives its answer. That is an assumption on the model
service, and without it a turn may legitimately last for ever. `ExecStream` has
one weak fairness condition, `Progress`: while a server task, a reader, a detach
or recovery can go on, one of them does. It is weaker than fairness of each,
and enough; that recovery ends at all, in an installed connection or in a
failure, is what `SESSION_RECOVERY_TIMEOUT` guarantees. In `RequestSerialization` handlers are not assumed to return: drain
tasks and the gate have weak fairness, `Finish` has none. `AgentControl`,
`MemoryJobs` and `RolloutFile` are specified without fairness and have safety
properties only; `WaitersWillWake` is the safety half of "a wait ends".

*Mutants.* For every property of every passing run `PROJECT.json` names a
mutated operator (a dropped guard, an off-by-one, a missing reset), defined
in the module just before the operator it replaces, that breaks it.

### Findings

1. `turn_overwrite`: the `debug_assert!(turn.task.is_none())` of `start_task`
   fails when an idle continuation reserves the slot between the abort and the
   start of `spawn_task`; the first task is dropped without a terminal event.
2. `exec_stream_evicted`: after an eviction, `recover_events` publishes an
   `Exited` in the place of the lost output.
3. `rollout_torn`: a write that fails partway leaves part of a line in the file;
   the retry appends the whole item to that line, `flush` returns Ok, and no
   reader can parse the line.

### Known weaknesses

Modelling showed the following as well. They are behaviours of the model (the
properties are stated so as to hold beside them) and of the code at the lines
named, without a run of their own.

- `core/src/tasks/mod.rs:541`: while an abort by the guardian waits for its task
  to end, the slot is already empty and another task can start; "`Session` has at
  most one `Task` running at a time" (`docs/protocol_v1.md:25`) does not hold then.
  `OneTaskRunning` is checked and proved without extensions.
- `core/src/session/inject.rs:148`: an item injected between a turn's last look
  at its pending input and the emptying of the slot is neither processed nor
  recorded. `NoInputLost` speaks of a session without injected items, and
  `OnlyInjectedItemsGetLost` proves that there is no other such window.
- `core/src/tasks/mod.rs:796`: trigger mail that arrives while a turn ends may
  stay in the mailbox of an idle session until something else starts a turn.
- `core/src/agent/control/execution.rs:95` and `:99`: the check of the capacity
  and the guard that counts the turn are two steps, so turns that start together
  overshoot the limit (`core/src/config/mod.rs:267`).
- Residency: a message accepted by an agent behind the shutdown of its eviction
  is lost with the thread. A removal goes by thread id, and may remove a newer
  thread under the same id.
- Registry: a resume that overlaps with another resume or with a close of the
  same agent leaves a count behind, so the limit is reached too early (never too
  late, which is `AgentLimitHolds`).
- `rollout/src/compression.rs`: with `Feature::LocalThreadStoreCompression` (off
  by default, `features/src/lib.rs:932`) the file of a session that was idle for
  a week is removed under the recorder's open handle; later writes go to a file
  without a name and are acknowledged. `AckedAreKept` excludes it by `unlinked`.
- `state/src/runtime/memories.rs:588`: `mark_thread_memory_mode_polluted` reads
  the selection before it marks the thread; a consolidation that ends in between
  keeps the thread's memory, and no new one is enqueued.

## 4. Proofs

TLAPS proves the following for any sets of connections, sessions, tasks,
states, items, requests, keys, threads, calls, paths and attempts and any values
of the limits and bounds, from the named assumptions on the constants only (the
ids that stand for "none" are not ids, the TTL is positive, the actors are
distinct, there are finitely many calls, limits are natural numbers). Where a
theorem has a hypothesis of its own, it is given below with its reason. All the
invariants that the passing runs check are proved.

**ExecSessionsProofs.** `IInv` is inductive: `TypeOK`, the attachment part, the
retention part and the checked invariants. `RunningConnectionOwnsItsSession` is
not inductive alone: a detach must be known to come from the connection that
holds the session's handle (`OwnerHoldsHandle`), and only a handler that has
asked to initialize can hold one. `ResumableWithinTTL` needs that a deadline
exists exactly while the entry is detached. Theorems: `TypeCorrect`,
`ExclusiveOwner`, `AttachedStaysRegistered`, `NotificationsFollow`,
`Resumable`, `NoForgottenSession`.

**TurnLifecycleProofs.** Two layers. `GInv` holds with any extensions: types,
a live task in the slot, and what each thread of control holds at each of its
steps (a start under way has a fresh turn of its own, an abort has cancelled its
victim, a finishing task knows its turn state). It gives `Alive`. `LInv` holds
when `Extensions = {}`, where the loop is the only one that starts and aborts:
`RunningIsKnown` (a running task is in the slot, or is the loop's victim) and
`SlotStaysEmpty` (nobody fills the slot between the loop's abort and its start)
are what make `OneTaskRunning` inductive; `Reports` ties a terminal event to the
one who takes the task out of the slot. It gives `Exclusive`, `Reachable`,
`ReportedOnce`, `AssertionHolds` and `Owned`. The hypothesis is needed:
with an extension, `turn_overwrite` violates the assertion, and the guardian's
abort overlaps with another task. `AssertionHolds` (of `NoTaskOverwritten`, which
`turn_overwrite` violates) and `Owned` are proved only; no passing run repeats
them. `KInv` follows the input: a turn state outside the slot is held by the task
that finishes its turn or by the loop that aborts it (`StatesAreHeld`), the state
of a finishing turn takes no input but injected items (`FinishedTurnsAreQuiet`),
and items in nobody's queue are in the hands of the loop or of a turn that has not
recorded them yet (`ItemsInHand`). It gives `OnlyInjectedItemsGetLost` and, if there are
no injected items, `InputIsKept`; with them the property is false
(`inject.rs:148`), and with extensions it is not claimed.

**RequestSerializationProofs.** `QInv` is inductive. `OrderPerKey` speaks of
requests that have begun; what makes it inductive is where the others are:
`Queues` (a queue holds exactly the waiting requests of its key, by arrival),
`Batches` (every request of a key in flight is in the batch that a drain task
joins, alone or among shared reads), `Ordered` (what left a queue arrived before
what is in it, and what ended outside a batch arrived before the batch) and
`OneDrainPerQueue` (so that there is one such batch per key). `Gates` adds that
a drained gate stays drained: it is closed, and a closed gate hands out no
token. Theorems: `Serialized`, `NoOrphanQueue`, `CleanedUpIsQuiet`.

**MemoryJobsProofs.** `IInv` is inductive. The properties are about what is
stored; what makes them inductive is `OwnInv`, about who may store it: the owner
of a running row is dead, or is extracting the very version the row was claimed
for, and neither the output nor the row's last success is as new. So the report
of an owner sets both to the same, newer version, and the report of anybody else
changes nothing. `RowsInv` (a row that does not exist has its default values; a
running job has a retry left) is needed for a failure to leave a retry count
that is not negative. The cap follows from counting: a step that is no claim
makes no job run that did not, and a claim makes one, below the cap; time only
takes leases away. Theorems: `TypeCorrect`, `CapCorrect`, `OutputCorrect`,
`SelectionCorrect`, and the action property `AdvanceCorrect`.

**ExecStreamProofs.** `SInv` is the server: what a task is about to notify is in
the log, a task that is over can only close, and `closed` is the last event.
`PInv` and `CInv` are the client: what is published ends at `last` or in one
terminal event, and what is pending, on the wire or in a recovery's answer are
events the server may have logged under that number. They give `EndsOnce`,
`RoutedToTheEnd` and, with the size of the buffer, `BufferIsBounded`, with no
hypothesis. `TInv` says that the pending events are what the log has under their
numbers and that a recovery's answer has all the output not yet published; then
the hole that `recover_events` takes for the exit is the exit. That is what breaks
after an eviction, so `Ordered` and `Refinement` have the
hypothesis `Retained >= MaxOut`, nothing is evicted. It is needed:
`exec_stream_evicted` violates the order without it. `Refinement` shows each step
of `ExecStream` to be a step of `ProcessEvents` or a stutter under
`seen <- SubSeq(published, 1, last)`. `NoGap` needs `LinkInv`
(which connection is the newest, and that it is the server's sender while it is
up) and `GapInv` (since the recovery's read was asked on it, every event is in the
answer or arrives on it); it holds with any retention.

**AgentControlProofs.** `ControlInv` has five parts. `Shapes` says what a call
holds and knows at each of its points; it speaks of one call at a time. `SlotInv`
counts the slots. `TreeInv` is about the registry: a thread is registered once, a
reserved path is held by one call, and (`FreshInv`) in a v2 session the thread a
spawn is about to register is one that it created itself. `CountInv` is
`AgentLimitHolds` with the finiteness it needs. Instead of forty actions by four
invariants, `RegistryStep` proves once that what a step does to the registry is
one of eight things (it stays, a reservation is counted or given up, the root is
noted, a path is taken, a thread created, registered or released), and each
invariant is shown for the eight. `WaitInv` adds to `WaitersWillWake` that the
generation a call waits for is not a later one; a thread that was told to shut
down stays told, or ends, or is replaced by a newer generation. Theorems:
`WellTyped`, `LimitHolds`, `Held`, `Wake`.

**RolloutFileProofs.** `RolloutInv` has five layers. `Shapes`: the recorder at each
of its points. `MemoryInv`: pending items and channel are in the order of
recording, a barrier stands behind what it covers, and in memory, written and lost
are disjoint and together all of the recorded items; so an `Ok` given when nothing
is pending covers only written items. `FileInv`: the worker's copies are beginnings
of the plain file, the compressed file is its copy from the second check on, and a
recorder about to open the file does not find only a compressed one, unless a file
in use was removed. `DataInv`: items stand in the file in order, an item stands
twice only on one line, and what is in memory is newer than what the file holds,
except for an unfinished last line, and that is why the retry of a torn write never
makes a reader see an item twice. `CleanInv`: until a write is torn or a file in
use removed every line parses, the first is the session meta, and every written
item is in the visible file. Theorems: `WellTyped`, `NothingSkipped`,
`InOrderLoaded`, `Kept`, and the action property `Growing`. The two conditions of
`AckedAreKept` are in the property itself (see the weaknesses and `rollout_torn`,
which shows that the first one is needed).

**Only model-checked.** All liveness properties and fairness (outside this
prover's reach), and `RecoveryFollowsTheWalk`: the fold in `RecoveryWalk` is a
recursive definition, and what it computes for every input would need an induction
over data for which the provers cannot instantiate the library's theorems. (Where
an extremum is all that is needed, the well-foundedness of the naturals serves:
`SmallestExists`, `LargestExists`.)

## 5. What is not modelled

Within the modelled parts: the order of items within a queue, approvals and
other pending callbacks of a turn, the content of the history; the start of a
process and its `Starting` entry, stdin write ids, signals and the waiting of
`exec_read`; HTTP body streams; replay and lag of the local event log; the
back-off times of recovery; the descendants of an agent on close and resume, the
completion watcher, persisted spawn edges; listing, searching and archiving of
threads, metadata appended to unloaded threads; the other tables of the state
database, the ranking of outputs and the workspace of the consolidation agent.
The repository is large (most of its lines are the terminal interface,
configuration, protocol types and tests); the models cover the parts in which
several actors share state. Other components are listed in `PROJECT.json` with
the reason; those that are I/O, rendering, cryptography, pure configuration or
other people's protocols will stay out.

## 6. Plan

Done: `TurnLifecycle`, `ExecSessions`, `ExecStream` with `ProcessEvents` and
`RecoveryWalk`, `RequestSerialization`, `AgentControl`, `RolloutFile` and
`MemoryJobs`; the invariants of all of them are proved. To come, in this order:

1. `RequestSerialization` against an abstract specification: one lock per key,
   granted in order; the simulation follows from `QInv`.
2. `ProcessTable`: starting entries, cancelled starts, stdin write ids, and its
   composition with `ExecSessions` (shutdown while a start is under way).
3. Message history: appending, trimming in place, crashes.
4. Server requests and thread listeners of the app-server, remote control.

Theorems worth proving next: the abstract specification of the first item; that
`RolloutFile` implements an append-only log of which a reader sees a prefix; what
can be said of `PublishedInOrder` when output is evicted.
