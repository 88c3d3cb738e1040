\* Three requests of one process, one at a time, on the same cold file.
CONSTANTS
  Caches = {c1, c2, c3}
  Pages = {p1, p2}
  MaxLive = 1
  MaxRecords = 4
SPECIFICATION Spec
INVARIANTS
  PagesReadBackIntact
  ColdOffsetsReadable
