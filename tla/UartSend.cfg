\* Buffers of two and three bytes, so that a send is split between the transfer
\* and the queue, and a put_len of one bit, so that it wraps.
SPECIFICATION Spec
CONSTANTS
  RecvSize = 3
  SendSize = 2
  FifoSize = 3
  PutMod = 2
  Numbers = 6
INVARIANTS
  TypeOK
  SentInOrder
  ZeroMeansAll
PROPERTIES
  Drains
  GapHeals
  RefusedWhilePrinting
