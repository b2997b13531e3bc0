\* The same instance: does the counter stay within the number of clients?
SPECIFICATION Spec
CONSTANTS
  Conns = {k1, k2, k3, k4}
  NoConn = none
  MaxClients = 2
  NetconnPool = 3
  MboxSize = 2
  Word = 16
INVARIANT CounterBounded
