\* Three connections over one session: it can be detached, resumed and detached
\* again while the expiry task of the first detach is still asleep.
SPECIFICATION FairSpec
CONSTANTS
  Conns = {c1, c2, c3}
  Sessions = {s1}
  TTL = 2
  MaxTime = 5
  Transports = {"stdio", "websocket"}
  NoConn = NoConn
  NoSession = NoSession
INVARIANTS
  RunningConnectionOwnsItsSession
  AttachedSessionIsRegistered
  NotificationsGoToTheOwner
  ResumableWithinTTL
PROPERTIES
  DetachedSessionIsResumedOrReaped
  ReapedSessionsProcessesStop
CHECK_DEADLOCK FALSE
