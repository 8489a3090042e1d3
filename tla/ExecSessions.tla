---------------------------- MODULE ExecSessions ----------------------------
(***************************************************************************)
(* The exec-server's session layer: the SessionRegistry, the per-connection *)
(* ExecServerHandler and the connection loop that drives it.                *)
(*                                                                         *)
(* A client connection attaches to a session (a fresh one, or one it        *)
(* resumes by id).  When the connection ends, the session is detached and   *)
(* kept for DETACHED_SESSION_TTL so that another connection can resume it;  *)
(* a task spawned at the detach reaps it after that time.  Expiry is        *)
(* decided in two places, by that task and by a resume that comes too late, *)
(* and tasks of earlier detaches are never cancelled: they wake up and must *)
(* recognise that they are stale.                                           *)
(*                                                                         *)
(* A connection attaches at most once, so the ConnectionId that attach()    *)
(* draws is identified with the connection.  Removing a session from the    *)
(* registry and shutting its processes down are separate steps, because     *)
(* process.shutdown() is awaited after the registry lock is released.       *)
(***************************************************************************)
EXTENDS Naturals, FiniteSets

CONSTANTS Conns,     \* client connections
          Sessions,  \* session ids the registry may draw
          TTL,       \* DETACHED_SESSION_TTL, in ticks
          MaxTime,   \* bound: the clock stops here
          Transports,\* "stdio", which serves one connection, and "websocket"
          NoConn,    \* no connection id
          NoSession  \* no session handle

ASSUME TTLAssumption == TTL \in Nat \ {0}
ASSUME MaxTimeAssumption == MaxTime \in Nat
ASSUME TransportAssumption == Transports \subseteq {"stdio", "websocket"}
ASSUME NoConnAssumption == NoConn \notin Conns
ASSUME NoSessionAssumption == NoSession \notin Sessions

VARIABLES
  now,       \* the tokio clock
  drawn,     \* session ids drawn so far
  registry,  \* keys of SessionRegistry.sessions
  current,   \* AttachmentState.current_connection_id, per entry
  detached,  \* AttachmentState.detached_connection_id, per entry
  expires,   \* AttachmentState.detached_expires_at, NoTime when None
  sender,    \* LocalProcess notification sender: the connection it writes to
  live,      \* sessions whose process table holds a running process
  phase,     \* where each connection's loop is
  requested, \* connections whose handler has initialize_requested set
  handle,    \* ExecServerHandler.session, per connection
  ready,     \* connections whose handler has initialized set
  timers,    \* expire_if_detached tasks: session, connection, wake-up time
  reaping,   \* entries removed from the registry, process.shutdown() pending
  server,    \* its transport, or "down" once SessionRegistry::shutdown ran
  orphaned   \* history: entries whose process.shutdown() was dropped half-way

vars == <<now, drawn, registry, current, detached, expires, sender, live,
          phase, requested, handle, ready, timers, reaping, server, orphaned>>

entryVars == <<current, detached, expires, sender>>
connVars == <<phase, requested, handle, ready>>

-----------------------------------------------------------------------------
NoTime == MaxTime + TTL + 1   \* stands for detached_expires_at = None

(* Where a connection is.  "expiring" is the await of process.shutdown()    *)
(* inside attach() when the resumed session turned out to be expired.       *)
Phases == {"new", "open", "expiring", "closing", "closed"}

Timer == [session : Sessions, conn : Conns, due : 0 .. MaxTime + TTL]

\* Who will finish the pending process.shutdown() of a removed entry.
Reaper == Conns \cup {NoConn}

TypeOK ==
  /\ now \in 0 .. MaxTime
  /\ drawn \subseteq Sessions
  /\ registry \subseteq drawn
  /\ current \in [Sessions -> Conns \cup {NoConn}]
  /\ detached \in [Sessions -> Conns \cup {NoConn}]
  /\ expires \in [Sessions -> 0 .. NoTime]
  /\ sender \in [Sessions -> Conns \cup {NoConn}]
  /\ live \subseteq Sessions
  /\ phase \in [Conns -> Phases]
  /\ requested \subseteq Conns
  /\ handle \in [Conns -> Sessions \cup {NoSession}]
  /\ ready \subseteq Conns
  /\ timers \subseteq Timer
  /\ reaping \subseteq Sessions \X Reaper
  /\ server \in Transports \cup {"down"}
  /\ orphaned \subseteq Sessions

Init ==
  /\ now = 0
  /\ drawn = {}
  /\ registry = {}
  /\ current = [s \in Sessions |-> NoConn]
  /\ detached = [s \in Sessions |-> NoConn]
  /\ expires = [s \in Sessions |-> NoTime]
  /\ sender = [s \in Sessions |-> NoConn]
  /\ live = {}
  /\ phase = [c \in Conns |-> "new"]
  /\ requested = {}
  /\ handle = [c \in Conns |-> NoSession]
  /\ ready = {}
  /\ timers = {}
  /\ reaping = {}
  /\ server \in Transports
  /\ orphaned = {}

-----------------------------------------------------------------------------
\* Mutant of the next definition: a resume takes an attached session over.
NeverActive(s) == FALSE

\* SessionEntry::has_active_connection
HasActiveConnection(s) == current[s] # NoConn

\* SessionEntry::is_attached_to
IsAttachedTo(s, c) == current[s] = c

\* SessionEntry::is_expired
IsExpired(s) == expires[s] # NoTime /\ now >= expires[s]

\* Mutants of the next definition: no recheck after the sleep; any detached
\* session; a deadline compared strictly.
ExpireUnchecked(s, c) == TRUE
ExpireAnyDetached(s, c) == current[s] = NoConn
ExpireStrictly(s, c) ==
  current[s] = NoConn /\ detached[s] = c /\ expires[s] # NoTime /\ now > expires[s]

\* SessionEntry::is_detached_connection_expired
IsDetachedConnectionExpired(s, c) ==
  /\ current[s] = NoConn
  /\ detached[s] = c
  /\ expires[s] # NoTime
  /\ now >= expires[s]

\* ExecServerHandler::is_session_attached: true while there is no handle yet.
IsSessionAttached(c) ==
  handle[c] # NoSession => IsAttachedTo(handle[c], c)

\* ExecServerHandler::require_initialized_for
RequireInitialized(c) ==
  /\ c \in requested
  /\ handle[c] # NoSession
  /\ IsAttachedTo(handle[c], c)
  /\ c \in ready

\* The loop of run_connection is waiting for the connection's next event and
\* will not break on it because the session was taken over.
Serving(c) == phase[c] = "open" /\ IsSessionAttached(c)

-----------------------------------------------------------------------------
(* A transport accepts the connection and starts run_connection for it.     *)
Connect(c) ==
  /\ phase[c] = "new"
  /\ server # "websocket" => \A d \in Conns : phase[d] = "new"
  /\ phase' = [phase EXCEPT ![c] = "open"]
  /\ UNCHANGED <<requested, handle, ready, now, drawn, registry, entryVars,
                 live, timers, reaping, server, orphaned>>

(* attach() without a session to resume: SessionEntry::new and insert.      *)
AttachFresh(c, s) ==
  /\ s \notin drawn
  /\ drawn' = drawn \cup {s}
  /\ registry' = registry \cup {s}
  /\ current' = [current EXCEPT ![s] = c]
  /\ sender' = [sender EXCEPT ![s] = c]
  /\ requested' = requested \cup {c}
  /\ handle' = [handle EXCEPT ![c] = s]
  /\ UNCHANGED <<phase, ready, now, detached, expires, live, timers, reaping,
                 server, orphaned>>

\* Mutant of the next definition: the previous notification sender is kept.
AttachKeepingSender(c, s) ==
  /\ s \in registry
  /\ ~IsExpired(s)
  /\ ~HasActiveConnection(s)
  /\ current' = [current EXCEPT ![s] = c]
  /\ detached' = [detached EXCEPT ![s] = NoConn]
  /\ expires' = [expires EXCEPT ![s] = NoTime]
  /\ requested' = requested \cup {c}
  /\ handle' = [handle EXCEPT ![c] = s]
  /\ UNCHANGED <<phase, ready, now, drawn, registry, sender, live, timers,
                 reaping, server, orphaned>>

(* attach() resuming a session that is neither expired nor attached.        *)
AttachResumed(c, s) ==
  /\ s \in registry
  /\ ~IsExpired(s)
  /\ ~HasActiveConnection(s)
  /\ sender' = [sender EXCEPT ![s] = c]
  /\ current' = [current EXCEPT ![s] = c]
  /\ detached' = [detached EXCEPT ![s] = NoConn]
  /\ expires' = [expires EXCEPT ![s] = NoTime]
  /\ requested' = requested \cup {c}
  /\ handle' = [handle EXCEPT ![c] = s]
  /\ UNCHANGED <<phase, ready, now, drawn, registry, live, timers, reaping,
                 server, orphaned>>

(* attach() resuming a session whose deadline has passed: the entry is      *)
(* removed under the lock; the caller then awaits process.shutdown().       *)
AttachExpired(c, s) ==
  /\ s \in registry
  /\ IsExpired(s)
  /\ registry' = registry \ {s}
  /\ reaping' = reaping \cup {<<s, c>>}
  /\ phase' = [phase EXCEPT ![c] = "expiring"]
  /\ requested' = requested \cup {c}
  /\ UNCHANGED <<handle, ready, now, drawn, entryVars, live, timers, server,
                 orphaned>>

(* The `initialize` request.  An unknown id and an attached session are     *)
(* refused, which resets initialize_requested and changes nothing; so does  *)
(* a second initialize.                                                     *)
Initialize(c) ==
  /\ Serving(c)
  /\ c \notin requested
  /\ \E s \in Sessions : AttachFresh(c, s) \/ AttachResumed(c, s) \/ AttachExpired(c, s)

(* The rest of that attach(): the expired session's processes are shut down *)
(* and initialize answers "unknown session id".                             *)
ExpiredShutdownDone(c) ==
  /\ phase[c] = "expiring"
  /\ \E s \in Sessions :
       /\ <<s, c>> \in reaping
       /\ reaping' = reaping \ {<<s, c>>}
       /\ live' = live \ {s}
  /\ phase' = [phase EXCEPT ![c] = "open"]
  /\ requested' = requested \ {c}
  /\ UNCHANGED <<handle, ready, now, drawn, registry, entryVars, timers, server,
                 orphaned>>

(* The `initialized` notification; a protocol error ends the connection.    *)
Initialized(c) ==
  /\ Serving(c)
  /\ IF c \in requested /\ handle[c] # NoSession
     THEN ready' = ready \cup {c} /\ UNCHANGED phase
     ELSE phase' = [phase EXCEPT ![c] = "closing"] /\ UNCHANGED ready
  /\ UNCHANGED <<requested, handle, now, drawn, registry, entryVars, live,
                 timers, reaping, server, orphaned>>

(* A process/start that leaves a running process in the session's table.    *)
Exec(c) ==
  /\ Serving(c)
  /\ RequireInitialized(c)
  /\ live' = live \cup {handle[c]}
  /\ UNCHANGED <<now, drawn, registry, entryVars, connVars, timers, reaping,
                 server, orphaned>>

(* The last running process of a session ends by itself.                    *)
ProcessesEnd(s) ==
  /\ s \in live
  /\ live' = live \ {s}
  /\ UNCHANGED <<now, drawn, registry, entryVars, connVars, timers, reaping,
                 server, orphaned>>

(* The loop of run_connection ends: transport gone, unexpected message, or  *)
(* the session is no longer attached.  A request in flight is dropped: if   *)
(* it was the await of process.shutdown(), nobody finishes it any more.     *)
Disconnect(c) ==
  /\ phase[c] \in {"open", "expiring"}
  /\ phase' = [phase EXCEPT ![c] = "closing"]
  /\ reaping' = {r \in reaping : r[2] # c}
  /\ orphaned' = orphaned \cup {s \in Sessions : <<s, c>> \in reaping}
  /\ UNCHANGED <<requested, handle, ready, now, drawn, registry, entryVars,
                 live, timers, server>>

(* SessionEntry::detach and, if it took effect, the spawned expiry task.    *)
DetachEntry(s, c) ==
  /\ sender' = [sender EXCEPT ![s] = NoConn]
  /\ current' = [current EXCEPT ![s] = NoConn]
  /\ detached' = [detached EXCEPT ![s] = c]
  /\ expires' = [expires EXCEPT ![s] = now + TTL]
  /\ timers' = timers \cup {[session |-> s, conn |-> c, due |-> now + TTL]}

(* ExecServerHandler::shutdown at the end of run_connection.                *)
HandlerShutdown(c) ==
  /\ phase[c] = "closing"
  /\ phase' = [phase EXCEPT ![c] = "closed"]
  /\ LET s == handle[c] IN
       IF s # NoSession /\ IsAttachedTo(s, c)
       THEN DetachEntry(s, c)
       ELSE UNCHANGED <<entryVars, timers>>
  /\ UNCHANGED <<requested, handle, ready, now, drawn, registry, live,
                 reaping, server, orphaned>>

\* Mutant of the next definition: the removed entry is not shut down.
ExpireWithoutShutdown(t) ==
  /\ t \in timers
  /\ now >= t.due
  /\ timers' = timers \ {t}
  /\ registry' = IF IsDetachedConnectionExpired(t.session, t.conn)
                 THEN registry \ {t.session} ELSE registry
  /\ UNCHANGED <<now, drawn, entryVars, live, connVars, reaping, server,
                 orphaned>>

(* An expire_if_detached task wakes up.                                     *)
ExpireIfDetached(t) ==
  /\ t \in timers
  /\ now >= t.due
  /\ timers' = timers \ {t}
  /\ IF t.session \in registry /\ IsDetachedConnectionExpired(t.session, t.conn)
     THEN /\ registry' = registry \ {t.session}
          /\ reaping' = reaping \cup {<<t.session, NoConn>>}
     ELSE UNCHANGED <<registry, reaping>>
  /\ UNCHANGED <<now, drawn, entryVars, live, connVars, server, orphaned>>

(* The process.shutdown() that follows in that task, or in                  *)
(* SessionRegistry::shutdown.                                               *)
ReaperShutdownDone(s) ==
  /\ <<s, NoConn>> \in reaping
  /\ reaping' = reaping \ {<<s, NoConn>>}
  /\ live' = live \ {s}
  /\ UNCHANGED <<now, drawn, registry, entryVars, connVars, timers, server,
                 orphaned>>

\* Mutant of the next definition: the drained entries are dropped.
ShutdownForgettingProcesses ==
  /\ server = "stdio"
  /\ \E c \in Conns : phase[c] = "closed"
  /\ server' = "down"
  /\ registry' = {}
  /\ UNCHANGED <<now, drawn, entryVars, live, connVars, timers, reaping, orphaned>>

(* ConnectionProcessor::shutdown, which only the stdio transport calls, when*)
(* its one connection has ended.                                            *)
RegistryShutdown ==
  /\ server = "stdio"
  /\ \E c \in Conns : phase[c] = "closed"
  /\ server' = "down"
  /\ registry' = {}
  /\ reaping' = reaping \cup (registry \X {NoConn})
  /\ UNCHANGED <<now, drawn, entryVars, live, connVars, timers, orphaned>>

Tick ==
  /\ now < MaxTime
  /\ now' = now + 1
  /\ UNCHANGED <<drawn, registry, entryVars, live, connVars, timers, reaping,
                 server, orphaned>>

ConnStep(c) ==
  \/ Connect(c) \/ Initialize(c) \/ ExpiredShutdownDone(c) \/ Initialized(c)
  \/ Exec(c) \/ Disconnect(c) \/ HandlerShutdown(c)

Next ==
  \/ \E c \in Conns : ConnStep(c)
  \/ \E s \in Sessions : ProcessesEnd(s) \/ ReaperShutdownDone(s)
  \/ \E t \in timers : ExpireIfDetached(t)
  \/ RegistryShutdown
  \/ Tick

Spec == Init /\ [][Next]_vars

(* The runtime's scheduling: time advances, timers that are due are polled,  *)
(* a handler that left its loop shuts down, and an awaited process.shutdown()*)
(* gets the process-table lock.  Nothing is assumed of clients.              *)
Fairness ==
  /\ WF_vars(Tick)
  /\ WF_vars(\E t \in timers : ExpireIfDetached(t))
  /\ \A s \in Sessions : WF_vars(ReaperShutdownDone(s))
  /\ \A c \in Conns : WF_vars(HandlerShutdown(c)) /\ WF_vars(ExpiredShutdownDone(c))

FairSpec == Spec /\ Fairness

-----------------------------------------------------------------------------
(* A connection whose loop still runs owns the session it attached to: the  *)
(* check "evicted after session resume" in run_connection, and the one      *)
(* exec_read repeats after its await, never fire.  Hence no two running     *)
(* connections drive one session.                                           *)
RunningConnectionOwnsItsSession ==
  \A c \in Conns :
    phase[c] \in {"open", "expiring", "closing"} /\ handle[c] # NoSession
      => current[handle[c]] = c

(* No expiry task, however stale, removes a session somebody is attached to:*)
(* an attached session stays in the registry.                               *)
AttachedSessionIsRegistered ==
  \A s \in Sessions : current[s] # NoConn => s \in registry

(* The processes of a session send their notifications to the connection    *)
(* attached to it, and to nobody while it is detached.                      *)
NotificationsGoToTheOwner ==
  \A s \in Sessions : sender[s] = current[s]

(* A client that reconnects before DETACHED_SESSION_TTL has passed since    *)
(* its last connection detached finds its session, whatever timers of       *)
(* earlier detaches are still around.                                       *)
ResumableWithinTTL ==
  \A s \in drawn :
    server # "down" /\ current[s] = NoConn /\ now < expires[s] => s \in registry

(* Every detached session still in the registry has an expiry task that     *)
(* will recognise it: none is left behind for ever.                         *)
DetachedSessionHasExpiryTask ==
  \A s \in registry :
    current[s] = NoConn =>
      \E t \in timers : /\ t.session = s
                        /\ t.conn = detached[s]
                        /\ t.due >= expires[s]

(* A detached session whose deadline lies within the modelled time is       *)
(* eventually resumed or removed.                                           *)
DetachedSessionIsResumedOrReaped ==
  \A s \in Sessions :
    (s \in registry /\ current[s] = NoConn /\ expires[s] <= MaxTime)
      ~> (s \notin registry \/ current[s] # NoConn)

(* Processes of a session removed from the registry are eventually gone,    *)
(* unless the resume that removed it was dropped by a disconnect while it   *)
(* awaited their shutdown.                                                  *)
ReapedSessionsProcessesStop ==
  \A s \in Sessions :
    (s \in drawn \ registry) ~> (s \notin live \/ s \in orphaned)

=============================================================================
