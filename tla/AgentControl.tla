---------------------------- MODULE AgentControl ----------------------------
(***************************************************************************)
(* The control plane of sub-agents (codex-rs/core/src/agent): one          *)
(* AgentControl is shared by every agent of a user session, and the tool   *)
(* calls of all of them run against it concurrently.  It keeps             *)
(*                                                                         *)
(*  - the registry (registry.rs): the tree of paths and thread ids, and    *)
(*    the count of spawned agents that the limit is taken from;            *)
(*  - the residency of multi-agent v2 (control/residency.rs): which agents *)
(*    are loaded, in order of use, and the slots promised to agents that   *)
(*    are being created or reloaded;                                       *)
(*  - the execution limiter (control/execution.rs): the turns in progress. *)
(*                                                                         *)
(* A call is a small program; one action of the module is what it does     *)
(* between two points where another call can run.  A session is of version *)
(* "V1" or "V2": v1 limits the number of agents, v2 limits the number of   *)
(* loaded agents and unloads idle ones to make room.                       *)
(***************************************************************************)
EXTENDS Integers, FiniteSets, Sequences, SequencesExt

CONSTANTS
    Threads,    \* thread ids, the root's included
    Root,       \* the thread the user talks to
    Paths,      \* agent paths a v2 spawn may ask for
    Calls,      \* tool calls, each made once
    Capacity,   \* effective_agent_max_threads
    Spawned,    \* the agents there are at first, oldest first
    SpawnedPath \* and the paths they have if the session is of version 2

ASSUME ThreadsAssumption == Root \in Threads /\ IsFiniteSet(Threads)
ASSUME CallsAssumption == IsFiniteSet(Calls)
ASSUME CapacityAssumption == Capacity \in Nat
ASSUME SpawnedAssumption ==
    /\ Spawned \in Seq(Threads \ {Root})
    /\ \A i, j \in DOMAIN Spawned : Spawned[i] = Spawned[j] => i = j
    /\ Len(Spawned) <= Capacity
    /\ SpawnedPath \in Seq(Paths) /\ Len(SpawnedPath) = Len(Spawned)
    /\ \A i, j \in DOMAIN Spawned : SpawnedPath[i] = SpawnedPath[j] => i = j

RootPath == "/root"
NoPath == "no path"
Vacant == "vacant"
Reserved == "reserved"     \* AgentMetadata whose agent_id is None
NoThread == "no thread"

ASSUME NamesAssumption ==
    /\ Paths \cap {RootPath, NoPath} = {}
    /\ Threads \cap {Vacant, Reserved, NoThread, RootPath, NoPath} = {}
    /\ Threads \cap Paths = {}

VARIABLES
    version,        \* multi_agent_version of the session
    agent_tree,     \* key -> the thread registered under it, Reserved or Vacant
    total_count,    \* AgentRegistry.total_count
    residents,      \* V2Residency: loaded agents, least recently used first
    pending_slots,  \* V2Residency: slots handed out and not committed
    loop,           \* state of the thread the manager holds under an id
    gen,            \* how many threads were ever created under an id
    queue,          \* submissions the thread has not handled yet
    mail,           \* threads with pending mailbox items
    call            \* the calls

registry == <<agent_tree, total_count>>
residency == <<residents, pending_slots>>
manager == <<loop, gen, queue, mail>>
vars == <<version, registry, residency, manager, call>>

\* An agent without a path is registered under "thread:<id>".
Keys == Paths \cup {RootPath} \cup Threads
SubAgents == Threads \ {Root}

Ops == {"spawn", "send_input", "followup", "message", "interrupt", "close", "resume"}
Pcs == {"check", "slot", "pop", "inspect", "stop", "await", "unload", "reserve",
        "prepare", "create", "lookup", "load", "insert", "recheck", "commit",
        "capacity", "send", "shutdown", "wait", "remove", "forget", "release"}

\* What a call holds: a residency slot, a spawn reservation and the path reserved
\* with it; and the thread it is unloading.
Idle == [op |-> "none", pc |-> "idle", t |-> NoThread, path |-> NoPath, slot |-> 0,
         resv |-> 0, held |-> 0, cand |-> NoThread, scan |-> 0, g |-> 0]
Done == [Idle EXCEPT !.pc = "done"]

TypeOK ==
    /\ version \in {"V1", "V2"}
    /\ agent_tree \in [Keys -> Threads \cup {Vacant, Reserved}]
    /\ total_count \in Nat
    /\ residents \in Seq(Threads) /\ IsInjective(residents)
    /\ pending_slots \in Nat
    /\ loop \in [Threads -> {"absent", "new", "idle", "busy", "dead"}]
    /\ gen \in [Threads -> Nat]
    /\ queue \in [Threads -> Seq({"trigger", "mail", "interrupt", "shutdown"})]
    /\ mail \subseteq Threads
    /\ call \in [Calls -> [op : Ops \cup {"none"}, pc : Pcs \cup {"idle", "done"},
                           t : Threads \cup {NoThread}, path : Paths \cup {NoPath},
                           slot : {0, 1}, resv : {0, 1}, held : {0, 1},
                           cand : Threads \cup {NoThread}, scan : Nat, g : Nat]]

\* A session in which the agents of Spawned were started and have finished a turn.
Init ==
    /\ version \in {"V1", "V2"}
    /\ agent_tree = [k \in Keys |->
           LET at == IF version = "V2" THEN SpawnedPath ELSE Spawned
           IN IF k = RootPath THEN Root
              ELSE IF k \in ToSet(at) THEN Spawned[CHOOSE i \in DOMAIN at : at[i] = k]
              ELSE Vacant]
    /\ total_count = Len(Spawned)
    /\ residents = IF version = "V2" THEN Spawned ELSE <<>>
    /\ pending_slots = 0
    /\ loop = [t \in Threads |-> CASE t = Root -> "busy"
                                   [] t \in ToSet(Spawned) -> "idle"
                                   [] OTHER -> "absent"]
    /\ gen = [t \in Threads |-> IF loop[t] = "absent" THEN 0 ELSE 1]
    /\ queue = [t \in Threads |-> <<>>]
    /\ mail = {}
    /\ call = [c \in Calls |-> Idle]

-----------------------------------------------------------------------------
(* Lookups.  get_thread finds a thread that is loaded, running or not;      *)
(* is_running asks whether its submission channel is still open.            *)

Loaded(t) == loop[t] # "absent"
Running(t) == loop[t] \in {"new", "idle", "busy"}
Known(t) == \E k \in Keys : agent_tree[k] = t
HasPath(t) == \E p \in Paths \cup {RootPath} : agent_tree[p] = t

\* Guards alive: turns of v2 sub-agents in progress.
Active == Cardinality({t \in SubAgents : loop[t] = "busy"})
has_capacity == Active < Capacity

\* A loaded v2 sub-agent.
is_candidate(t) == Loaded(t) /\ t # Root /\ version = "V2"

\* Completed, Errored or Interrupted, no active turn and no pending mail.
is_unloadable(t) == loop[t] = "idle" /\ t \notin mail

At(c, pc) == call[c].pc = pc
Goto(c, pc) == call' = [call EXCEPT ![c].pc = pc]
Finish(c) == call' = [call EXCEPT ![c] = Done]

\* Mutant: the older place in the list stays.
touchedAgain(t) == Append(residents, t)

\* retain(|r| r != t): a thread has at most one place in the list.
Without(t) == IF t \in ToSet(residents)
              THEN RemoveAt(residents, CHOOSE i \in DOMAIN residents : residents[i] = t)
              ELSE residents

touched(t) == Append(Without(t), t)

\* Mutant: the error path keeps the residency slot.
FailKeepsSlot(c) ==
    /\ total_count' = total_count - call[c].resv
    /\ agent_tree' = [k \in Keys |->
           IF k = call[c].path /\ call[c].held = 1 /\ agent_tree[k] = Reserved
           THEN Vacant ELSE agent_tree[k]]
    /\ Finish(c)
    /\ UNCHANGED <<version, residency, manager>>

\* The call returns an error: the residency slot and the reservation are dropped.
\* The reserved path goes only if no thread was registered under it.
Fail(c) ==
    /\ pending_slots' = pending_slots - call[c].slot
    /\ total_count' = total_count - call[c].resv
    /\ agent_tree' = [k \in Keys |->
           IF k = call[c].path /\ call[c].held = 1 /\ agent_tree[k] = Reserved
           THEN Vacant ELSE agent_tree[k]]
    /\ Finish(c)
    /\ UNCHANGED <<version, residents, manager>>

-----------------------------------------------------------------------------
(* What the tools ask for.                                                  *)

Begin(c, op, t, path, pc) ==
    /\ At(c, "idle")
    /\ call' = [call EXCEPT ![c] = [Idle EXCEPT !.op = op, !.pc = pc, !.t = t, !.path = path]]
    /\ UNCHANGED <<version, registry, residency, manager>>

\* spawn_agent; a v2 agent job spawns its workers without a path.
Spawn(c) ==
    \/ version = "V1" /\ Begin(c, "spawn", NoThread, NoPath, "reserve")
    \/ version = "V2" /\ \E p \in Paths \cup {NoPath} : Begin(c, "spawn", NoThread, p, "check")

\* send_message and followup_task of v2: the target must be known and have a path.
Message(c, t) ==
    /\ version = "V2" /\ HasPath(t)
    /\ \/ Begin(c, "message", t, NoPath, "lookup")
       \/ t # Root /\ Begin(c, "followup", t, NoPath, "lookup")

\* send_input of v1: a known agent that is not loaded is no v2 thread, so the
\* reload refuses it, and sending to an unknown one that is not loaded fails.
SendInput(c, t) ==
    /\ version = "V1" /\ t # Root
    /\ Begin(c, "send_input", t, NoPath, "capacity")

Interrupt(c, t) ==
    /\ version = "V2" /\ HasPath(t) /\ t # Root
    /\ Begin(c, "interrupt", t, NoPath, "send")

\* close_agent of v1; a v2 job shuts its workers, which have no path, down by the
\* same routine.
Close(c, t) ==
    /\ t # Root
    /\ IF version = "V1" THEN Loaded(t) \/ Known(t) ELSE agent_tree[t] = t
    /\ Begin(c, "close", t, NoPath, "shutdown")

\* resume_agent of v1, when the status of the agent is NotFound.
Resume(c, t) ==
    /\ version = "V1" /\ t # Root /\ gen[t] > 0 /\ ~Loaded(t)
    /\ Begin(c, "resume", t, NoPath, "reserve")

-----------------------------------------------------------------------------
(* The residency slot: reserve_slot and try_unload_one_resident.            *)

CheckCapacity(c) ==
    /\ At(c, "check")
    /\ IF has_capacity THEN Goto(c, "slot") ELSE Finish(c)
    /\ UNCHANGED <<version, registry, residency, manager>>

\* try_reserve_pending_slot; when it fails, scan the residents there are.
ReserveSlot(c) ==
    /\ At(c, "slot")
    /\ IF Len(residents) + pending_slots < Capacity
       THEN /\ pending_slots' = pending_slots + 1
            /\ call' = [call EXCEPT ![c].slot = 1,
                        ![c].pc = IF call[c].op = "spawn" THEN "reserve" ELSE "load"]
       ELSE /\ call' = [call EXCEPT ![c].pc = "pop", ![c].scan = Len(residents)]
            /\ UNCHANGED pending_slots
    /\ UNCHANGED <<version, registry, residents, manager>>

\* pop_lru_candidate passes the protected thread to the back if it comes first, and
\* takes the next.
Passed(c) == residents # <<>> /\ Head(residents) = call[c].t
Candidates(c) == IF Passed(c) THEN Tail(residents) ELSE residents

PopCandidate(c) ==
    /\ At(c, "pop")
    /\ call[c].scan > 0 /\ Candidates(c) # <<>>
    /\ residents' = LET rest == Tail(Candidates(c))
                    IN IF Passed(c) THEN Append(rest, call[c].t) ELSE rest
    /\ call' = [call EXCEPT ![c].cand = Head(Candidates(c)), ![c].scan = @ - 1,
                            ![c].pc = "inspect"]
    /\ UNCHANGED <<version, registry, pending_slots, manager>>

\* AgentLimitReached
NoCandidate(c) ==
    /\ At(c, "pop")
    /\ call[c].scan = 0 \/ Candidates(c) = <<>>
    /\ Finish(c)
    /\ UNCHANGED <<version, registry, residency, manager>>

InspectCandidate(c) ==
    LET t == call[c].cand
    IN /\ At(c, "inspect")
       /\ \/ ~is_candidate(t) /\ Goto(c, "pop") /\ UNCHANGED residents
          \/ is_candidate(t) /\ ~is_unloadable(t) /\ Goto(c, "pop") /\ residents' = touched(t)
          \/ is_candidate(t) /\ is_unloadable(t) /\ Goto(c, "stop") /\ UNCHANGED residents
       /\ UNCHANGED <<version, registry, pending_slots, manager>>

\* shutdown_and_wait submits the shutdown; a closed channel is as good.
Submit(t, sub) ==
    queue' = IF Running(t) THEN [queue EXCEPT ![t] = Append(@, sub)] ELSE queue

StopCandidate(c) ==
    /\ At(c, "stop")
    /\ Submit(call[c].cand, "shutdown")
    /\ call' = [call EXCEPT ![c].pc = "await", ![c].g = gen[call[c].cand]]
    /\ UNCHANGED <<version, registry, residency, loop, gen, mail>>

\* Mutant: waiting for the id, not for the thread that was told to stop.
TerminatedById(t, g) == ~Running(t)

Terminated(t, g) == gen[t] # g \/ ~Running(t)

AwaitCandidate(c) ==
    /\ At(c, "await")
    /\ Terminated(call[c].cand, call[c].g)
    /\ Goto(c, "unload")
    /\ UNCHANGED <<version, registry, residency, manager>>

\* remove_thread takes away whatever is loaded under the id.
RemoveThread(t) ==
    /\ loop' = [loop EXCEPT ![t] = "absent"]
    /\ queue' = [queue EXCEPT ![t] = <<>>]
    /\ mail' = mail \ {t}
    /\ UNCHANGED gen

UnloadCandidate(c) ==
    /\ At(c, "unload")
    /\ RemoveThread(call[c].cand)
    /\ call' = [call EXCEPT ![c].pc = "slot", ![c].cand = NoThread, ![c].scan = 0, ![c].g = 0]
    /\ UNCHANGED <<version, registry, residency>>

-----------------------------------------------------------------------------
(* The registry: reserve_spawn_slot and prepare_thread_spawn.               *)

\* try_increment_spawned: only v1 has a limit here.
ReserveSpawn(c) ==
    /\ At(c, "reserve")
    /\ IF version = "V2" \/ total_count < Capacity
       THEN /\ total_count' = total_count + 1
            /\ call' = [call EXCEPT ![c].resv = 1, ![c].pc = "prepare"]
       ELSE Finish(c) /\ UNCHANGED total_count
    /\ UNCHANGED <<version, agent_tree, residency, manager>>

\* A thread spawn reserves its path and, at depth 1, registers the root; an agent job
\* does neither.
RegisterRoot(tree) == [tree EXCEPT ![RootPath] = IF @ = Vacant THEN Root ELSE @]

Prepare(c) ==
    LET p == call[c].path
        next == IF call[c].op = "spawn" THEN "create" ELSE "load"
    IN /\ At(c, "prepare")
       /\ \/ /\ p = NoPath
             /\ \/ version = "V1" /\ agent_tree' = RegisterRoot(agent_tree)
                \/ UNCHANGED agent_tree
             /\ Goto(c, next)
             /\ UNCHANGED <<version, total_count, residency, manager>>
          \/ /\ p # NoPath /\ agent_tree[p] = Vacant
             /\ \E tree \in {agent_tree, RegisterRoot(agent_tree)} :
                    agent_tree' = [tree EXCEPT ![p] = Reserved]
             /\ call' = [call EXCEPT ![c].held = 1, ![c].pc = next]
             /\ UNCHANGED <<version, total_count, residency, manager>>
          \/ /\ p # NoPath /\ agent_tree[p] # Vacant
             /\ Fail(c)

\* spawn_new_thread_with_source, which may fail.
CreateThread(c) ==
    /\ At(c, "create")
    /\ \/ \E t \in SubAgents :
            /\ gen[t] = 0
            /\ loop' = [loop EXCEPT ![t] = "new"]
            /\ gen' = [gen EXCEPT ![t] = 1]
            /\ call' = [call EXCEPT ![c].t = t, ![c].pc = "commit"]
            /\ UNCHANGED <<version, registry, residency, queue, mail>>
       \/ Fail(c)

-----------------------------------------------------------------------------
(* Reloading: ensure_v2_agent_loaded and spawn_thread_with_source for a     *)
(* thread that was loaded before.                                           *)

\* The agent is loaded and counts as just used, or is known and can be reloaded.
LookupAgent(c) ==
    LET t == call[c].t
    IN /\ At(c, "lookup")
       /\ \/ /\ Loaded(t) /\ Goto(c, "capacity")
             /\ residents' = IF is_candidate(t) THEN touched(t) ELSE residents
          \/ ~Loaded(t) /\ Known(t) /\ Goto(c, "slot") /\ UNCHANGED residents
          \/ ~Loaded(t) /\ ~Known(t) /\ Finish(c) /\ UNCHANGED residents
       /\ UNCHANGED <<version, registry, pending_slots, manager>>

\* A running thread is taken as it is, one that ended is replaced.
LoadThread(c) ==
    LET t == call[c].t
    IN /\ At(c, "load")
       /\ IF Running(t)
          THEN Goto(c, "commit") /\ UNCHANGED manager
          ELSE Goto(c, "insert") /\ RemoveThread(t)
       /\ UNCHANGED <<version, registry, residency>>

\* finalize_thread_spawn inserts the thread if none was loaded meanwhile.  On an
\* error a reload looks whether the agent is loaded after all.
InsertThread(c) ==
    LET t == call[c].t
    IN /\ At(c, "insert")
       /\ \/ /\ ~Loaded(t)
             /\ loop' = [loop EXCEPT ![t] = "new"]
             /\ gen' = [gen EXCEPT ![t] = @ + 1]
             /\ Goto(c, "commit")
             /\ UNCHANGED <<version, registry, residency, queue, mail>>
          \/ /\ version = "V2" /\ Goto(c, "recheck")
             /\ UNCHANGED <<version, registry, residency, manager>>
          \/ version = "V1" /\ Fail(c)

Recheck(c) ==
    LET t == call[c].t
    IN /\ At(c, "recheck")
       /\ \/ /\ Loaded(t)
             /\ pending_slots' = pending_slots - call[c].slot
             /\ residents' = IF is_candidate(t) THEN touched(t) ELSE residents
             /\ call' = [call EXCEPT ![c].slot = 0, ![c].pc = "capacity"]
             /\ UNCHANGED <<version, registry, manager>>
          \/ ~Loaded(t) /\ Fail(c)

\* register_spawned_thread (not for a reload, which has no reservation) and
\* commit_slot (not for v1, which has no slot).
Commit(c) ==
    LET t == call[c].t
        key == IF call[c].path = NoPath THEN t ELSE call[c].path
        next == CASE call[c].op = "spawn" -> "send"
                  [] call[c].op = "resume" -> "done"
                  [] OTHER -> "capacity"
    IN /\ At(c, "commit")
       /\ agent_tree' = IF call[c].resv = 1 THEN [agent_tree EXCEPT ![key] = t] ELSE agent_tree
       /\ pending_slots' = pending_slots - call[c].slot
       /\ residents' = IF call[c].slot = 1 THEN touched(t) ELSE residents
       /\ call' = [call EXCEPT ![c] =
              IF next = "done" THEN Done
              ELSE [@ EXCEPT !.resv = 0, !.held = 0, !.slot = 0, !.path = NoPath, !.pc = next]]
       /\ UNCHANGED <<version, total_count, manager>>

-----------------------------------------------------------------------------
(* Sending: ensure_execution_capacity_for_turn_start, send_op and           *)
(* handle_thread_request_result.                                            *)

\* A turn in progress takes the input; only v2 sub-agents are limited.
CheckTurnStart(c) ==
    LET t == call[c].t
        free == call[c].op = "message" \/ version = "V1"
    IN /\ At(c, "capacity")
       /\ IF \/ free
             \/ Loaded(t) /\ (loop[t] = "busy" \/ has_capacity)
          THEN Goto(c, "send") ELSE Finish(c)
       /\ UNCHANGED <<version, registry, residency, manager>>

Submission(op) ==
    CASE op = "message" -> "mail"
      [] op = "interrupt" -> "interrupt"
      [] OTHER -> "trigger"

\* InternalAgentDied: the channel is closed, and the agent is given up.
SendOp(c) ==
    LET t == call[c].t
    IN /\ At(c, "send")
       /\ Submit(t, Submission(call[c].op))
       /\ IF Loaded(t) /\ ~Running(t) THEN Goto(c, "remove") ELSE Finish(c)
       /\ UNCHANGED <<version, registry, residency, loop, gen, mail>>

-----------------------------------------------------------------------------
(* shutdown_live_agent, and the three steps that give an agent up.          *)

\* Flushing the rollout may fail, which leaves the agent as it is.
ShutdownAgent(c) ==
    LET t == call[c].t
    IN /\ At(c, "shutdown")
       /\ \/ Submit(t, "shutdown") /\ call' = [call EXCEPT ![c].g = gen[t],
                                      ![c].pc = IF Loaded(t) THEN "wait" ELSE "remove"]
          \/ Loaded(t) /\ Finish(c) /\ UNCHANGED queue
       /\ UNCHANGED <<version, registry, residency, loop, gen, mail>>

WaitTerminated(c) ==
    /\ At(c, "wait")
    /\ Terminated(call[c].t, call[c].g)
    /\ Goto(c, "remove")
    /\ UNCHANGED <<version, registry, residency, manager>>

RemoveAgent(c) ==
    /\ At(c, "remove")
    /\ RemoveThread(call[c].t)
    /\ Goto(c, "forget")
    /\ UNCHANGED <<version, registry, residency>>

ForgetResidency(c) ==
    /\ At(c, "forget")
    /\ residents' = Without(call[c].t)
    /\ Goto(c, "release")
    /\ UNCHANGED <<version, registry, pending_slots, manager>>

\* Mutant: the root is uncounted like an agent.
ReleaseCountsRoot(c) ==
    LET t == call[c].t
    IN /\ At(c, "release")
       /\ IF Known(t)
          THEN LET k == CHOOSE k \in Keys : agent_tree[k] = t
               IN /\ agent_tree' = [agent_tree EXCEPT ![k] = Vacant]
                  /\ total_count' = total_count - 1
          ELSE UNCHANGED registry
       /\ Finish(c)
       /\ UNCHANGED <<version, residency, manager>>

\* release_spawned_thread: the root was never counted.
ReleaseSpawned(c) ==
    LET t == call[c].t
    IN /\ At(c, "release")
       /\ IF Known(t)
          THEN LET k == CHOOSE k \in Keys : agent_tree[k] = t
               IN /\ agent_tree' = [agent_tree EXCEPT ![k] = Vacant]
                  /\ total_count' = IF k = RootPath THEN total_count ELSE total_count - 1
          ELSE UNCHANGED registry
       /\ Finish(c)
       /\ UNCHANGED <<version, residency, manager>>

-----------------------------------------------------------------------------
(* A thread handles its submissions in order.                               *)

HandleSubmission(t) ==
    LET sub == Head(queue[t])
    IN /\ Running(t) /\ queue[t] # <<>>
       /\ loop' = [loop EXCEPT ![t] = CASE sub = "trigger" -> "busy"
                                        [] sub = "mail" -> @
                                        [] sub = "interrupt" -> IF @ = "busy" THEN "idle" ELSE @
                                        [] sub = "shutdown" -> "dead"]
       /\ queue' = [queue EXCEPT ![t] = IF sub = "shutdown" THEN <<>> ELSE Tail(@)]
       /\ mail' = CASE sub = "mail" /\ loop[t] # "busy" -> mail \cup {t}
                    [] sub \in {"trigger", "shutdown"} -> mail \ {t}
                    [] OTHER -> mail
       /\ UNCHANGED <<version, registry, residency, gen, call>>

TurnEnds(t) ==
    /\ t # Root /\ loop[t] = "busy"
    /\ loop' = [loop EXCEPT ![t] = "idle"]
    /\ UNCHANGED <<version, registry, residency, gen, queue, mail, call>>

\* The user's own thread is shut down from outside.
RootEnds ==
    /\ loop[Root] = "busy"
    /\ loop' = [loop EXCEPT ![Root] = "dead"]
    /\ queue' = [queue EXCEPT ![Root] = <<>>]
    /\ UNCHANGED <<version, registry, residency, gen, mail, call>>

CallStep(c) ==
    \/ CheckCapacity(c) \/ ReserveSlot(c) \/ PopCandidate(c) \/ NoCandidate(c)
    \/ InspectCandidate(c) \/ StopCandidate(c) \/ AwaitCandidate(c) \/ UnloadCandidate(c)
    \/ ReserveSpawn(c) \/ Prepare(c) \/ CreateThread(c)
    \/ LookupAgent(c) \/ LoadThread(c) \/ InsertThread(c) \/ Recheck(c) \/ Commit(c)
    \/ CheckTurnStart(c) \/ SendOp(c)
    \/ ShutdownAgent(c) \/ WaitTerminated(c) \/ RemoveAgent(c) \/ ForgetResidency(c)
    \/ ReleaseSpawned(c)

Request(c) ==
    \/ Spawn(c)
    \/ \E t \in Threads : \/ Message(c, t) \/ SendInput(c, t) \/ Interrupt(c, t)
                          \/ Close(c, t) \/ Resume(c, t)

ThreadStep(t) == HandleSubmission(t) \/ TurnEnds(t)

Next ==
    \/ \E c \in Calls : Request(c) \/ CallStep(c)
    \/ \E t \in Threads : ThreadStep(t)
    \/ RootEnds

Spec == Init /\ [][Next]_vars

-----------------------------------------------------------------------------
(* Properties.                                                              *)

Registered == {k \in Keys \ {RootPath} : agent_tree[k] \in Threads}
Reserving == {c \in Calls : call[c].resv = 1}

\* The count the limit is taken from never falls below the agents that are
\* registered or being spawned, however spawns that fail, closes, deaths and resumes
\* overlap: an agent that is given up is uncounted once, and the root never.  So a v1
\* session never has more of them than agents.max_threads allows.
AgentLimitHolds ==
    LET agents == Cardinality(Registered) + Cardinality(Reserving)
    IN /\ agents <= total_count
       /\ version = "V1" => agents <= Capacity

\* Every pending residency slot belongs to one call in flight, and a path is reserved
\* exactly while one spawn that has not ended holds it, whatever step of a spawn or a
\* reload fails: nothing leaks, nothing is given back twice, and a failed spawn takes
\* no other agent's path with it.
ReservationsHeld ==
    /\ pending_slots = Cardinality({c \in Calls : call[c].slot = 1})
    /\ \A p \in Paths : agent_tree[p] = Reserved =>
           Cardinality({c \in Calls : call[c].held = 1 /\ call[c].path = p}) = 1
    /\ \A c \in Calls : call[c].held = 1 => agent_tree[call[c].path] = Reserved
    /\ \A j, k \in Keys : agent_tree[j] = agent_tree[k] /\ agent_tree[j] \in Threads => j = k

\* A call that waits for a thread to end waits for one that has ended or has been told
\* to shut down, so calls that stop, unload, remove and reload the same agent never
\* leave one of them waiting for good.
WaitersWillWake ==
    \A c \in Calls :
        LET t == IF At(c, "await") THEN call[c].cand ELSE call[c].t
        IN At(c, "await") \/ At(c, "wait") =>
               Terminated(t, call[c].g) \/ \E i \in DOMAIN queue[t] : queue[t][i] = "shutdown"

=============================================================================
