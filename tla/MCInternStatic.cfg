\* Two threads intern the same value.
SPECIFICATION SafeSpec
CONSTANTS
  Threads = {t1, t2}
  Values = {v1}
  Addresses = {a1, a2}
  None = None
INVARIANT HandedOutStays
