-------------------------- MODULE ExecSessionsProofs --------------------------
(***************************************************************************)
(* Safety of the exec-server's session layer, proved for any number of      *)
(* connections and sessions, any TTL and either transport.                  *)
(***************************************************************************)
EXTENDS ExecSessions, TLAPS

(* Attachment is a matching: the entry's current connection holds the       *)
(* handle to that entry and has not shut down.                              *)
OwnerHoldsHandle ==
  \A s \in Sessions : current[s] # NoConn =>
    /\ handle[current[s]] = s
    /\ phase[current[s]] \in {"open", "closing"}

(* A handler that has not asked to initialize, or whose attach() is still   *)
(* at work on an expired session, has no handle.                            *)
HandleNeedsInitialize ==
  \A c \in Conns :
    c \notin requested \/ phase[c] \in {"new", "expiring"} => handle[c] = NoSession

(* The stdio transport serves one connection.                               *)
StdioServesOne ==
  server # "websocket" =>
    \A c, d \in Conns : phase[c] # "new" /\ phase[d] # "new" => c = d

(* Who owns a session, and that an owner keeps it registered.               *)
Attachment ==
  /\ RunningConnectionOwnsItsSession
  /\ OwnerHoldsHandle
  /\ HandleNeedsInitialize
  /\ StdioServesOne
  /\ AttachedSessionIsRegistered
  /\ NotificationsGoToTheOwner

(* Session ids not drawn yet have an untouched entry.                       *)
UndrawnEntryIsBlank ==
  \A s \in Sessions \ drawn : current[s] = NoConn /\ expires[s] = NoTime

(* A drawn entry has a deadline exactly while it is detached.               *)
DeadlineWhileDetached ==
  \A s \in drawn :
    /\ current[s] # NoConn => expires[s] = NoTime
    /\ current[s] = NoConn => detached[s] \in Conns /\ expires[s] # NoTime

(* How long a detached session is kept.                                     *)
Retention ==
  /\ UndrawnEntryIsBlank
  /\ DeadlineWhileDetached
  /\ ResumableWithinTTL

(* The inductive invariant.  The checked invariants are not inductive by    *)
(* themselves: that a detach removes nobody else's attachment needs the     *)
(* matching, and that a resume opens no second owner needs to know which    *)
(* handlers can hold a handle.                                              *)
IInv == TypeOK /\ Attachment /\ Retention /\ DetachedSessionHasExpiryTask

USE TTLAssumption, MaxTimeAssumption, TransportAssumption, NoConnAssumption,
    NoSessionAssumption

(* The parts of IInv, unfolded by the steps below.                          *)
USE DEF Attachment, RunningConnectionOwnsItsSession, OwnerHoldsHandle,
        HandleNeedsInitialize, StdioServesOne, AttachedSessionIsRegistered,
        NotificationsGoToTheOwner, Retention, UndrawnEntryIsBlank,
        DeadlineWhileDetached, ResumableWithinTTL

-----------------------------------------------------------------------------
(* A registry without connections satisfies the invariant.                  *)
LEMMA InitIInv == Init => IInv
<1> SUFFICES ASSUME Init PROVE IInv
  OBVIOUS
<1>1. TypeOK
  BY DEF Init, TypeOK, Phases, NoTime
<1>2. Attachment /\ Retention /\ DetachedSessionHasExpiryTask
  BY DEF Init, DetachedSessionHasExpiryTask
<1> QED
  BY <1>1, <1>2 DEF IInv

(* attach(): a fresh session, a resumed one, an expired one.                *)
LEMMA AttachFreshKeeps ==
  ASSUME IInv, NEW c \in Conns, NEW s \in Sessions, Serving(c), c \notin requested, AttachFresh(c, s)
  PROVE  IInv'
<1>1. TypeOK'
  BY DEF IInv, TypeOK, AttachFresh, Serving, Timer, Reaper, Phases, NoTime
<1>2. Attachment'
  BY DEF IInv, TypeOK, AttachFresh, Serving, Phases
<1>3. Retention'
  BY DEF IInv, TypeOK, AttachFresh, Serving, NoTime
<1>4. DetachedSessionHasExpiryTask'
  BY DEF IInv, TypeOK, AttachFresh, Serving, DetachedSessionHasExpiryTask, Timer, NoTime
<1> QED
  BY <1>1, <1>2, <1>3, <1>4 DEF IInv

\* A connection that resumes a detached session.
LEMMA AttachResumedKeeps ==
  ASSUME IInv, NEW c \in Conns, NEW s \in Sessions, Serving(c), c \notin requested, AttachResumed(c, s)
  PROVE  IInv'
<1>1. TypeOK'
  BY DEF IInv, TypeOK, AttachResumed, Serving, HasActiveConnection, Timer, Reaper, Phases, NoTime
<1>2. Attachment'
  BY DEF IInv, TypeOK, AttachResumed, Serving, HasActiveConnection, Phases
<1>3. Retention'
  BY DEF IInv, TypeOK, AttachResumed, Serving, HasActiveConnection, NoTime
<1>4. DetachedSessionHasExpiryTask'
  BY DEF IInv, TypeOK, AttachResumed, Serving, HasActiveConnection, DetachedSessionHasExpiryTask, Timer, NoTime
<1> QED
  BY <1>1, <1>2, <1>3, <1>4 DEF IInv

\* A connection that asks for a session that has expired.
LEMMA AttachExpiredKeeps ==
  ASSUME IInv, NEW c \in Conns, NEW s \in Sessions, Serving(c), c \notin requested, AttachExpired(c, s)
  PROVE  IInv'
<1>1. TypeOK'
  BY DEF IInv, TypeOK, AttachExpired, Serving, IsExpired, entryVars, Timer, Reaper, Phases, NoTime
<1>2. Attachment'
  BY DEF IInv, TypeOK, AttachExpired, Serving, IsExpired, entryVars, Phases
<1>3. Retention'
  BY DEF IInv, TypeOK, AttachExpired, Serving, IsExpired, entryVars, NoTime
<1>4. DetachedSessionHasExpiryTask'
  BY DEF IInv, TypeOK, AttachExpired, Serving, IsExpired, entryVars, DetachedSessionHasExpiryTask, Timer, NoTime
<1> QED
  BY <1>1, <1>2, <1>3, <1>4 DEF IInv

(* The detach at the end of a connection: it can only touch its own session. *)
LEMMA HandlerShutdownKeeps ==
  ASSUME IInv, NEW c \in Conns, HandlerShutdown(c)
  PROVE  IInv'
<1>1. TypeOK'
  BY DEF IInv, TypeOK, HandlerShutdown, DetachEntry, IsAttachedTo, entryVars, Timer, Reaper, Phases, NoTime
<1>2. Attachment'
  BY DEF IInv, TypeOK, HandlerShutdown, DetachEntry, IsAttachedTo, entryVars, Phases
<1>3. Retention'
  BY DEF IInv, TypeOK, HandlerShutdown, DetachEntry, IsAttachedTo, entryVars, NoTime
<1>4. DetachedSessionHasExpiryTask'
  <2> SUFFICES ASSUME NEW s \in registry', current'[s] = NoConn
               PROVE  \E t \in timers' : /\ t.session = s
                                         /\ t.conn = detached'[s]
                                         /\ t.due >= expires'[s]
    BY DEF DetachedSessionHasExpiryTask
  <2>1. CASE s = handle[c] /\ current[s] = c
    <3> DEFINE t == [session |-> s, conn |-> c, due |-> now + TTL]
    <3>1. /\ t \in timers' /\ detached'[s] = c /\ expires'[s] = now + TTL
      BY <2>1 DEF IInv, TypeOK, HandlerShutdown, DetachEntry, IsAttachedTo
    <3>2. t.session = s /\ t.conn = c /\ t.due >= now + TTL
      BY DEF IInv, TypeOK
    <3> QED
      BY <3>1, <3>2
  <2>2. CASE ~(s = handle[c] /\ current[s] = c)
    <3>1. /\ s \in registry /\ current[s] = NoConn /\ timers \subseteq timers'
          /\ detached'[s] = detached[s] /\ expires'[s] = expires[s]
      BY <2>2 DEF IInv, TypeOK, HandlerShutdown, DetachEntry, IsAttachedTo, entryVars
    <3> QED
      BY <3>1 DEF IInv, DetachedSessionHasExpiryTask
  <2> QED
    BY <2>1, <2>2
<1> QED
  BY <1>1, <1>2, <1>3, <1>4 DEF IInv

(* An expiry task, stale or not, removes only an expired detached session.    *)
LEMMA ExpireIfDetachedKeeps ==
  ASSUME IInv, NEW t \in timers, ExpireIfDetached(t)
  PROVE  IInv'
<1>1. TypeOK'
  BY DEF IInv, TypeOK, ExpireIfDetached, IsDetachedConnectionExpired, entryVars, connVars, Timer, Reaper, Phases, NoTime
<1>2. Attachment'
  BY DEF IInv, TypeOK, ExpireIfDetached, IsDetachedConnectionExpired, entryVars, connVars, Phases
<1>3. Retention'
  BY DEF IInv, TypeOK, ExpireIfDetached, IsDetachedConnectionExpired, entryVars, connVars, NoTime
<1>4. DetachedSessionHasExpiryTask'
  BY DEF IInv, TypeOK, ExpireIfDetached, IsDetachedConnectionExpired, entryVars, connVars, DetachedSessionHasExpiryTask, Timer, NoTime
<1> QED
  BY <1>1, <1>2, <1>3, <1>4 DEF IInv

(* The steps that change neither an attachment nor a deadline.               *)
LEMMA OtherStepsKeep ==
  ASSUME IInv,
         \/ \E c \in Conns : Connect(c) \/ ExpiredShutdownDone(c) \/ Initialized(c)
                            \/ Exec(c) \/ Disconnect(c)
         \/ \E s \in Sessions : ProcessesEnd(s) \/ ReaperShutdownDone(s)
         \/ RegistryShutdown \/ Tick
  PROVE  IInv'
<1>1. ASSUME NEW c \in Conns, Connect(c) PROVE IInv'
  <2>1. TypeOK'
    BY <1>1 DEF IInv, TypeOK, Connect, entryVars, Phases
  <2>2. Attachment' /\ Retention' /\ DetachedSessionHasExpiryTask'
    BY <1>1 DEF IInv, TypeOK, Connect, entryVars, DetachedSessionHasExpiryTask, Phases, NoTime
  <2> QED
    BY <2>1, <2>2 DEF IInv
<1>2. ASSUME NEW c \in Conns, ExpiredShutdownDone(c) PROVE IInv'
  <2>1. TypeOK'
    BY <1>2 DEF IInv, TypeOK, ExpiredShutdownDone, entryVars, Reaper, Phases
  <2>2. Attachment' /\ Retention' /\ DetachedSessionHasExpiryTask'
    BY <1>2 DEF IInv, TypeOK, ExpiredShutdownDone, entryVars, Reaper, DetachedSessionHasExpiryTask, Phases, NoTime
  <2> QED
    BY <2>1, <2>2 DEF IInv
<1>3. ASSUME NEW c \in Conns, Initialized(c) PROVE IInv'
  <2>1. TypeOK'
    BY <1>3 DEF IInv, TypeOK, Initialized, entryVars, Serving, Phases
  <2>2. Attachment' /\ Retention' /\ DetachedSessionHasExpiryTask'
    BY <1>3 DEF IInv, TypeOK, Initialized, entryVars, Serving, DetachedSessionHasExpiryTask, Phases, NoTime
  <2> QED
    BY <2>1, <2>2 DEF IInv
<1>4. ASSUME NEW c \in Conns, Exec(c) PROVE IInv'
  <2>1. TypeOK'
    BY <1>4 DEF IInv, TypeOK, Exec, entryVars, connVars, RequireInitialized, Phases
  <2>2. Attachment' /\ Retention' /\ DetachedSessionHasExpiryTask'
    BY <1>4 DEF IInv, TypeOK, Exec, entryVars, connVars, RequireInitialized, DetachedSessionHasExpiryTask, Phases, NoTime
  <2> QED
    BY <2>1, <2>2 DEF IInv
<1>5. ASSUME NEW c \in Conns, Disconnect(c) PROVE IInv'
  <2>1. TypeOK'
    BY <1>5 DEF IInv, TypeOK, Disconnect, entryVars, Reaper, Phases
  <2>2. Attachment' /\ Retention' /\ DetachedSessionHasExpiryTask'
    BY <1>5 DEF IInv, TypeOK, Disconnect, entryVars, Reaper, DetachedSessionHasExpiryTask, Phases, NoTime
  <2> QED
    BY <2>1, <2>2 DEF IInv
<1>6. ASSUME NEW s \in Sessions, ProcessesEnd(s) PROVE IInv'
  <2>1. TypeOK'
    BY <1>6 DEF IInv, TypeOK, ProcessesEnd, entryVars, connVars, Phases
  <2>2. Attachment' /\ Retention' /\ DetachedSessionHasExpiryTask'
    BY <1>6 DEF IInv, TypeOK, ProcessesEnd, entryVars, connVars, DetachedSessionHasExpiryTask, Phases, NoTime
  <2> QED
    BY <2>1, <2>2 DEF IInv
<1>7. ASSUME NEW s \in Sessions, ReaperShutdownDone(s) PROVE IInv'
  <2>1. TypeOK'
    BY <1>7 DEF IInv, TypeOK, ReaperShutdownDone, entryVars, connVars, Reaper, Phases
  <2>2. Attachment' /\ Retention' /\ DetachedSessionHasExpiryTask'
    BY <1>7 DEF IInv, TypeOK, ReaperShutdownDone, entryVars, connVars, Reaper, DetachedSessionHasExpiryTask, Phases, NoTime
  <2> QED
    BY <2>1, <2>2 DEF IInv
<1>8. ASSUME RegistryShutdown PROVE IInv'
  <2>1. TypeOK'
    BY <1>8 DEF IInv, TypeOK, RegistryShutdown, entryVars, connVars, Reaper, Phases
  <2>2. Attachment' /\ Retention' /\ DetachedSessionHasExpiryTask'
    BY <1>8 DEF IInv, TypeOK, RegistryShutdown, entryVars, connVars, Reaper, DetachedSessionHasExpiryTask, Phases, NoTime
  <2> QED
    BY <2>1, <2>2 DEF IInv
<1>9. ASSUME Tick PROVE IInv'
  <2>1. TypeOK'
    BY <1>9 DEF IInv, TypeOK, Tick, entryVars, connVars, Phases
  <2>2. Attachment' /\ Retention' /\ DetachedSessionHasExpiryTask'
    BY <1>9 DEF IInv, TypeOK, Tick, entryVars, connVars, DetachedSessionHasExpiryTask, Phases, NoTime
  <2> QED
    BY <2>1, <2>2 DEF IInv
<1> QED
  BY <1>1, <1>2, <1>3, <1>4, <1>5, <1>6, <1>7, <1>8, <1>9

(* IInv is an invariant of the specification.                                *)
THEOREM Safety == Spec => []IInv
<1>1. IInv /\ [Next]_vars => IInv'
  <2> SUFFICES ASSUME IInv, [Next]_vars PROVE IInv'
    OBVIOUS
  <2>1. CASE \E c \in Conns : Initialize(c)
    BY <2>1, AttachFreshKeeps, AttachResumedKeeps, AttachExpiredKeeps DEF Initialize
  <2>2. CASE \E c \in Conns : HandlerShutdown(c)
    BY <2>2, HandlerShutdownKeeps
  <2>3. CASE \E t \in timers : ExpireIfDetached(t)
    BY <2>3, ExpireIfDetachedKeeps
  <2>4. CASE UNCHANGED vars
    <3>1. TypeOK'
      BY <2>4 DEF IInv, TypeOK, vars
    <3>2. Attachment' /\ Retention' /\ DetachedSessionHasExpiryTask'
      BY <2>4 DEF IInv, DetachedSessionHasExpiryTask, vars
    <3> QED
      BY <3>1, <3>2 DEF IInv
  <2> QED
    BY <2>1, <2>2, <2>3, <2>4, OtherStepsKeep DEF Next, ConnStep
<1> QED
  BY InitIInv, <1>1, PTL DEF Spec

(* The variables keep their types.                                           *)
THEOREM TypeCorrect == Spec => []TypeOK
<1>1. IInv => TypeOK
  BY DEF IInv
<1> QED
  BY <1>1, Safety, PTL

(* No two running connections drive one session: the connection that holds a *)
(* handle and has not shut down is the entry's current connection.           *)
THEOREM ExclusiveOwner == Spec => []RunningConnectionOwnsItsSession
<1>1. IInv => RunningConnectionOwnsItsSession
  BY DEF IInv
<1> QED
  BY <1>1, Safety, PTL

(* Expiry tasks never remove an attached session from the registry.          *)
THEOREM AttachedStaysRegistered == Spec => []AttachedSessionIsRegistered
<1>1. IInv => AttachedSessionIsRegistered
  BY DEF IInv
<1> QED
  BY <1>1, Safety, PTL

(* Process notifications go to the attached connection only.                 *)
THEOREM NotificationsFollow == Spec => []NotificationsGoToTheOwner
<1>1. IInv => NotificationsGoToTheOwner
  BY DEF IInv
<1> QED
  BY <1>1, Safety, PTL

(* A session can be resumed for DETACHED_SESSION_TTL after its last detach.  *)
THEOREM Resumable == Spec => []ResumableWithinTTL
<1>1. IInv => ResumableWithinTTL
  BY DEF IInv
<1> QED
  BY <1>1, Safety, PTL

(* No detached session is left in the registry without an expiry task.       *)
THEOREM NoForgottenSession == Spec => []DetachedSessionHasExpiryTask
<1>1. IInv => DetachedSessionHasExpiryTask
  BY DEF IInv
<1> QED
  BY <1>1, Safety, PTL

=============================================================================
