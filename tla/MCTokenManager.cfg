SPECIFICATION Spec
CONSTANTS
  p1 = p1
  p2 = p2
  t1 = t1
  t2 = t2
  t3 = t3
  Absent = Absent
  Broken = Broken
  None = None
  Procs = {p1, p2}
  Tokens = {t1, t2, t3}
INVARIANTS
  TypeOK
  SessionOnDisk
