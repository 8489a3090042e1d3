SPECIFICATION Spec
CONSTANTS
  Tasks = {t1, t2, t3}
  States = {s1, s2, s3}
  UserItems = {u1}
  InjectItems = {i1}
  Mails = {m1}
  TriggerMails = {m1}
  Loop = Loop
  Guard = Guard
  Extensions = {"goal", "guardian"}
  OtherKinds = {}
  NoTask = NoTask
  NoState = NoState
  u1 = u1
  i1 = i1
  m1 = m1
  t1 = t1
  t2 = t2
  t3 = t3
  s1 = s1
  s2 = s2
  s3 = s3
SYMMETRY Symmetry
CHECK_DEADLOCK FALSE
INVARIANTS SlotTaskIsAlive
