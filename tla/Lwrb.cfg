\* Four bytes of two values: a queue of three.
SPECIFICATION Spec
CONSTANTS
  Size = 4
  Data = {0, 1}
INVARIANTS
  TypeOK
  Apart
PROPERTY
  RingSpec
