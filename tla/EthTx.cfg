\* Three packets on a ring of two, two modes, link losses and fatal errors.
SPECIFICATION Spec
CONSTANTS
  N = 2
  Pkts = {p1, p2, p3}
  NoPkt = none
  Speeds = {s10, s100}
  BootMode = s100
  Faults = TRUE
INVARIANTS
  TypeOK
  ReferencesExact
  NoEarlyFree
  RingIsQueue
  MacFollowsPhy
PROPERTIES
  OutputEnds
  LinkRecovers
