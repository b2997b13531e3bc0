\* Registers, mutex, saves and restarts: two workers and the default task.
SPECIFICATION Spec
CONSTANTS
  Workers = {w1, w2}
  DefaultTask = d
  NoTask = none
  c1 = c1
  h1 = h1
  h2 = h2
  Coils = {c1}
  Holding = {h1, h2}
  TickReg = h1
  Requests <- MCRequests
  MaxRequests = 3
  MaxBoots = 2
SYMMETRY Symmetry
INVARIANTS
  TypeOK
  DurableKept
  ServedNotOlderThanDurable
  LockFreeDuringSave
  ReplyMatchesEffect
PROPERTY
  BootKeepsReadableFile
