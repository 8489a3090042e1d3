SPECIFICATION Spec
CONSTANTS
  Tasks = {t1, t2, t3}
  States = {s1, s2, s3}
  UserItems = {u1, u2}
  InjectItems = {}
  Mails = {}
  TriggerMails = {}
  Loop = Loop
  Guard = Guard
  Extensions = {"goal"}
  OtherKinds = {}
  NoTask = NoTask
  NoState = NoState
  u1 = u1
  u2 = u2
  t1 = t1
  t2 = t2
  t3 = t3
  s1 = s1
  s2 = s2
  s3 = s3
CHECK_DEADLOCK FALSE
INVARIANT NoTaskOverwritten
