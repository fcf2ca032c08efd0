\* Two threads and two values; one more block than values, so a freed address is used again.
SPECIFICATION Spec
CONSTANTS
  Threads = {t1, t2}
  Values = {v1, v2}
  Addresses = {a1, a2, a3}
  None = None
INVARIANTS TypeOK HeapIsCache 
PROPERTIES SettledForGood TableSpec
