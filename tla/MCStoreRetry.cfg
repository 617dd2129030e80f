SPECIFICATION Spec
CONSTANTS
  p = p  a1 = a1  a2 = a2
  t1 = t1  t2 = t2
  None = None
  Torn = Torn
  Primary = p
  Accounts = {p, a1}
  Threads = {t1, t2}
INVARIANTS
  AcceptedIsStored
