\* Without symmetry: the run has temporal properties.
SPECIFICATION Spec
CONSTANTS
  Tasks = {t1, t2}
  States = {s1, s2}
  UserItems = {u1, u2}
  InjectItems = {}
  Mails = {m1}
  TriggerMails = {m1}
  Loop = Loop
  Guard = Guard
  Extensions = {}
  OtherKinds = {"shell", "compact"}
  NoTask = NoTask
  NoState = NoState
  u1 = u1
  u2 = u2
  m1 = m1
  t1 = t1
  t2 = t2
  s1 = s1
  s2 = s2
CHECK_DEADLOCK FALSE
INVARIANTS TypeOK OneTaskRunning RunningTaskIsInSlot OneTerminalEvent 
PROPERTIES TurnsConclude SlotIsReleased
