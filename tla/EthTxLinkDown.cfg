\* A loss of link while the ring has been full once; no fatal errors.
SPECIFICATION Spec
CONSTANTS
  N = 2
  Pkts = {p1, p2, p3}
  NoPkt = none
  Speeds = {s100}
  BootMode = s100
  Faults = FALSE
PROPERTY
  OutputReturns
