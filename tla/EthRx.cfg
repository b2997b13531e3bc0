\* Two descriptors, three buffers, two tasks that free them.
SPECIFICATION Spec
CONSTANTS
  N = 2
  Bufs = {b1, b2, b3}
  NoBuf = none
  Freers = {f1, f2}
INVARIANTS
  TypeOK
  BuffersOnce
  InOrder
  ExhaustionSignalled
PROPERTIES
  Refilled
  FramesRead
