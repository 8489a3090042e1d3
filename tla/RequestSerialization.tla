------------------------ MODULE RequestSerialization ------------------------
(***************************************************************************)
(* How the app-server orders the requests of its clients.                  *)
(*                                                                         *)
(* The processor loop gives each request a serialization key, or none, and *)
(* appends it to the queue of its key.  The first request of a queue       *)
(* spawns a drain task, which runs one exclusive request, or all shared    *)
(* reads at the front, at a time, and removes the queue when it finds it   *)
(* empty.  A request without a key runs in a task of its own.  Before its  *)
(* handler starts, a request passes the gate of its connection, which is   *)
(* closed when the connection is; the clean-up of a closed connection      *)
(* waits for the handlers that have passed, but not for ever.              *)
(*                                                                         *)
(* Requests are numbered as they arrive, and a drain task is named by the  *)
(* request that spawned it.  What a handler does is left out: it runs, and *)
(* it may or may not end.                                                  *)
(***************************************************************************)
EXTENDS Naturals, Sequences, FiniteSets

CONSTANTS MaxRequests, \* bound: requests the clients send
          Keys,        \* RequestSerializationQueueKey values
          Conns,       \* client connections
          NoKey,       \* no serialization scope
          NoConn       \* a request that was not sent yet

ASSUME BoundAssumption == MaxRequests \in Nat
ASSUME NoKeyAssumption == NoKey \notin Keys
ASSUME NoConnAssumption == NoConn \notin Conns

VARIABLES
  state,    \* where each request is
  key,      \* its serialization key
  conn,     \* the connection it came from
  access,   \* its RequestSerializationAccess
  arrivals, \* how many requests have arrived
  queue,    \* the queues of RequestSerializationQueues.inner ...
  present,  \* ... and the keys that have one
  drain,    \* where each drain task is
  batch,    \* the requests a drain task has taken and joins
  gate,     \* ConnectionRpcGate.accepting of each connection
  cleanup,  \* the clean-up task of each connection
  loop      \* the processor loop

request == <<key, conn, access, arrivals>>
queues == <<queue, present, drain, batch>>
closing == <<gate, cleanup, loop>>
vars == <<state, request, queues, closing>>

Requests == 1 .. MaxRequests
Accesses == {"Exclusive", "SharedRead"}

TypeOK ==
  /\ state \in [Requests -> {"new", "queued", "popped", "running", "done",
                             "dropped"}]
  /\ key \in [Requests -> Keys \cup {NoKey}]
  /\ conn \in [Requests -> Conns \cup {NoConn}]
  /\ access \in [Requests -> Accesses]
  /\ arrivals \in 0 .. MaxRequests
  /\ queue \in [Keys -> Seq(Requests)]
  /\ present \subseteq Keys
  /\ drain \in [Requests -> {"none", "loop", "join"}]
  /\ batch \in [Requests -> SUBSET Requests]
  /\ gate \in [Conns -> {"accepting", "closed"}]
  /\ cleanup \in [Conns -> {"none", "waiting", "done", "timedout"}]
  /\ loop \in {"running", "stopping", "stopped"}

Init ==
  /\ state = [r \in Requests |-> "new"]
  /\ key = [r \in Requests |-> NoKey]
  /\ conn = [r \in Requests |-> NoConn]
  /\ access = [r \in Requests |-> "Exclusive"]
  /\ arrivals = 0
  /\ queue = [k \in Keys |-> << >>]
  /\ present = {}
  /\ drain = [r \in Requests |-> "none"]
  /\ batch = [r \in Requests |-> {}]
  /\ gate = [c \in Conns |-> "accepting"]
  /\ cleanup = [c \in Conns |-> "none"]
  /\ loop = "running"

-----------------------------------------------------------------------------
(* The processor loop takes a message of an open connection.               *)

Arrives(r, c, k, a) ==
  /\ loop = "running" /\ gate[c] = "accepting" /\ r = arrivals + 1
  /\ key' = [key EXCEPT ![r] = k]
  /\ conn' = [conn EXCEPT ![r] = c]
  /\ access' = [access EXCEPT ![r] = a]
  /\ arrivals' = r

\* RequestSerializationQueues::enqueue
Enqueue(r, k) ==
  /\ queue' = [queue EXCEPT ![k] = Append(@, r)]
  /\ present' = present \cup {k}
  /\ drain' = IF k \in present THEN drain ELSE [drain EXCEPT ![r] = "loop"]

\* dispatch_initialized_client_request, for a request with a scope ...
DispatchSerialized(r, c, k, a) ==
  /\ Arrives(r, c, k, a)
  /\ state' = [state EXCEPT ![r] = "queued"]
  /\ Enqueue(r, k)
  /\ UNCHANGED <<batch, closing>>

\* ... and for one without.
DispatchSpawned(r, c) ==
  /\ Arrives(r, c, NoKey, "Exclusive")
  /\ state' = [state EXCEPT ![r] = "popped"]
  /\ UNCHANGED <<queues, closing>>

-----------------------------------------------------------------------------
(* Drain tasks.                                                            *)

\* Mutant of the next definition: a batch goes on to the end of the queue.
TakesAll(q, n) == n = Len(q)

\* The first n requests of q are what one turn of drain() pops.
Takes(q, n) ==
  \/ /\ n = 1 /\ access[q[1]] = "Exclusive"
  \/ /\ \A i \in 1 .. n : access[q[i]] = "SharedRead"
     /\ n < Len(q) => access[q[n + 1]] = "Exclusive"

DrainPops(d) ==
  /\ drain[d] = "loop"
  /\ LET q == queue[key[d]] IN
       \E n \in 1 .. Len(q) :
         /\ Takes(q, n)
         /\ batch' = [batch EXCEPT ![d] = {q[i] : i \in 1 .. n}]
         /\ state' = [r \in Requests |->
                        IF \E i \in 1 .. n : q[i] = r THEN "popped"
                                                      ELSE state[r]]
         /\ queue' = [queue EXCEPT ![key[d]] = SubSeq(q, n + 1, Len(q))]
  /\ drain' = [drain EXCEPT ![d] = "join"]
  /\ UNCHANGED <<request, present, closing>>

\* Mutant of the next definition: the empty queue stays in the map.
DrainLeaves(d) ==
  /\ drain[d] = "loop" /\ queue[key[d]] = << >>
  /\ drain' = [drain EXCEPT ![d] = "none"]
  /\ UNCHANGED <<state, request, queue, present, batch, closing>>

\* The empty queue is removed under the lock under which it was found empty.
DrainEnds(d) ==
  /\ drain[d] = "loop" /\ queue[key[d]] = << >>
  /\ present' = present \ {key[d]}
  /\ drain' = [drain EXCEPT ![d] = "none"]
  /\ UNCHANGED <<state, request, queue, batch, closing>>

\* Mutant of the next definition: a handler the gate dropped is waited for.
DrainJoinsRun(d) ==
  /\ drain[d] = "join"
  /\ \A r \in batch[d] : state[r] = "done"
  /\ drain' = [drain EXCEPT ![d] = "loop"]
  /\ batch' = [batch EXCEPT ![d] = {}]
  /\ UNCHANGED <<state, request, queue, present, closing>>

\* join_all returns.
DrainJoins(d) ==
  /\ drain[d] = "join"
  /\ \A r \in batch[d] : state[r] \in {"done", "dropped"}
  /\ drain' = [drain EXCEPT ![d] = "loop"]
  /\ batch' = [batch EXCEPT ![d] = {}]
  /\ UNCHANGED <<state, request, queue, present, closing>>

-----------------------------------------------------------------------------
(* Handlers and the gate of their connection.                              *)

\* ConnectionRpcGate::run takes a token, or drops the handler.
Run(r) ==
  /\ state[r] = "popped"
  /\ state' = [state EXCEPT ![r] = IF gate[conn[r]] = "accepting"
                                   THEN "running" ELSE "dropped"]
  /\ UNCHANGED <<request, queues, closing>>

\* The handler returns and its token is dropped.
Finish(r) ==
  /\ state[r] = "running"
  /\ state' = [state EXCEPT ![r] = "done"]
  /\ UNCHANGED <<request, queues, closing>>

\* The tokens of a connection's gate.
Inflight(c) == {r \in Requests : conn[r] = c /\ state[r] = "running"}

\* TransportEvent::ConnectionClosed: close the gate, spawn the clean-up.
ConnectionClosed(c) ==
  /\ loop = "running" /\ gate[c] = "accepting"
  /\ gate' = [gate EXCEPT ![c] = "closed"]
  /\ cleanup' = [cleanup EXCEPT ![c] = "waiting"]
  /\ UNCHANGED <<state, request, queues, loop>>

\* connection_closed: the gate has drained ...
CleanUp(c) ==
  /\ cleanup[c] = "waiting" /\ Inflight(c) = {}
  /\ cleanup' = [cleanup EXCEPT ![c] = "done"]
  /\ UNCHANGED <<state, request, queues, gate, loop>>

\* Mutant of the next definition: the clean-up has no time limit.
CleanUpPatiently(c) ==
  /\ cleanup[c] = "waiting" /\ Inflight(c) = {}
  /\ cleanup' = [cleanup EXCEPT ![c] = "timedout"]
  /\ UNCHANGED <<state, request, queues, gate, loop>>

\* ... or CONNECTION_RPC_DRAIN_TIMEOUT has passed.
CleanUpAnyway(c) ==
  /\ cleanup[c] = "waiting" /\ Inflight(c) # {}
  /\ cleanup' = [cleanup EXCEPT ![c] = "timedout"]
  /\ UNCHANGED <<state, request, queues, gate, loop>>

-----------------------------------------------------------------------------
(* The end of the processor task.  A forced end, which waits for nothing,  *)
(* is left out.                                                            *)

\* The loop breaks, for whatever reason.
Stop ==
  /\ loop = "running"
  /\ loop' = "stopping"
  /\ UNCHANGED <<state, request, queues, gate, cleanup>>

\* shutdown() of the gate of a connection that is still open.
ShutdownGate(c) ==
  /\ loop = "stopping" /\ gate[c] = "accepting"
  /\ gate' = [gate EXCEPT ![c] = "closed"]
  /\ UNCHANGED <<state, request, queues, cleanup, loop>>

\* Mutant of the next definition: the gates are closed and not drained.
StoppedEarly ==
  /\ loop = "stopping"
  /\ \A c \in Conns : gate[c] = "closed" /\ cleanup[c] # "waiting"
  /\ loop' = "stopped"
  /\ UNCHANGED <<state, request, queues, gate, cleanup>>

\* Every gate is closed and drained and every clean-up is over.
Stopped ==
  /\ loop = "stopping"
  /\ \A c \in Conns : /\ gate[c] = "closed" /\ cleanup[c] # "waiting"
                      /\ cleanup[c] = "none" => Inflight(c) = {}
  /\ loop' = "stopped"
  /\ UNCHANGED <<state, request, queues, gate, cleanup>>

-----------------------------------------------------------------------------
DrainStep(d) == DrainPops(d) \/ DrainEnds(d) \/ DrainJoins(d)

Next ==
  \/ \E r \in Requests, c \in Conns :
       \/ DispatchSpawned(r, c)
       \/ \E k \in Keys, a \in Accesses : DispatchSerialized(r, c, k, a)
  \/ \E d \in Requests : DrainStep(d)
  \/ \E r \in Requests : Run(r) \/ Finish(r)
  \/ \E c \in Conns : \/ ConnectionClosed(c) \/ CleanUp(c) \/ CleanUpAnyway(c)
                      \/ ShutdownGate(c)
  \/ Stop \/ Stopped

\* Spawned tasks are polled and timers fire.  That a handler ever returns, and
\* that clients ever disconnect, is not assumed.
Fairness ==
  /\ \A r \in Requests : WF_vars(DrainStep(r)) /\ WF_vars(Run(r))
  /\ \A c \in Conns : WF_vars(CleanUp(c) \/ CleanUpAnyway(c))

Spec == Init /\ [][Next]_vars /\ Fairness

-----------------------------------------------------------------------------
Began(r) == state[r] \in {"running", "done"}
Ended(r) == state[r] \in {"done", "dropped"}

\* A request begins only when all requests that arrived before it with the
\* same key have ended, except that shared reads run beside shared reads.  So
\* an exclusive request is alone on its key (enqueue, drain).
OrderPerKey ==
  \A r, s \in Requests :
    r < s /\ key[r] = key[s] /\ key[r] # NoKey /\ Began(s)
    => Ended(r) \/ (access[r] = "SharedRead" /\ access[s] = "SharedRead")

\* A queue in the map has one drain task, and a drain task has its queue in
\* the map: a request that is appended is never left to nobody.
OneDrainPerQueue ==
  /\ \A k \in present : \E d \in Requests : drain[d] # "none" /\ key[d] = k
  /\ \A d \in Requests : drain[d] # "none" => key[d] \in present
  /\ \A d, e \in Requests :
       drain[d] # "none" /\ drain[e] # "none" /\ key[d] = key[e] => d = e

\* A handler never runs beside the clean-up of its connection, or after the
\* processor has stopped, unless the drain of its gate timed out.
NoHandlerAfterCleanUp ==
  \A r \in Requests :
    state[r] = "running" =>
      /\ cleanup[conn[r]] # "done"
      /\ loop = "stopped" => cleanup[conn[r]] = "timedout"

\* A request waits only behind running handlers of its own key.
NobodyForgotten ==
  \A r \in Requests :
    state[r] \in {"queued", "popped"} ~>
      \/ state[r] \notin {"queued", "popped"}
      \/ \E s \in Requests : key[s] = key[r] /\ state[s] = "running"

\* A closed connection is cleaned up, even if one of its handlers hangs.
ClosedIsCleanedUp ==
  \A c \in Conns : cleanup[c] = "waiting" ~> cleanup[c] # "waiting"
=============================================================================
