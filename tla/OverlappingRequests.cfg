\* Two requests of one process at the same time, on the same cold file.
CONSTANTS
  Caches = {c1, c2}
  Pages = {p1, p2}
  MaxLive = 2
  MaxRecords = 4
SPECIFICATION Spec
INVARIANTS
  PagesReadBackIntact
