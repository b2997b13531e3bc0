\* A buffer for two short requests or one long one; lengths that are good (1, 4),
\* too short (0), too long (5), and that wrap a word to a short frame (7).
SPECIFICATION Spec
CONSTANTS
  Hdr = 2
  MinPdu = 1
  Cap = 6
  Word16 = 8
  PduLens = {0, 1, 4, 5, 7}
  SndBuf = 2
  MaxFrames = 5
INVARIANTS
  TypeOK
  AlwaysRoom
  RequestsExact
  NoFrameWaits
PROPERTIES
  ServiceSpec
  RequestsServed
