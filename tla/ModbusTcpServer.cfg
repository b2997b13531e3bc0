\* Admission, hand-over and end of four connections, two at a time; both the pool
\* and the accept mailbox run full.
SPECIFICATION Spec
CONSTANTS
  Conns = {k1, k2, k3, k4}
  NoConn = none
  MaxClients = 2
  NetconnPool = 3
  MboxSize = 2
  Word = 16
INVARIANTS
  TypeOK
  PoolExact
  OneOwner
  CounterExact
PROPERTIES
  QueuedIsTaken
  StoppedIsFreed
