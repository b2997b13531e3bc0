\* The constants of the code: is there room for the clients it announces?
SPECIFICATION Spec
CONSTANTS
  Conns = {k1, k2, k3, k4}
  NoConn = none
  MaxClients = 4
  NetconnPool = 4
  MboxSize = 6
  Word = 16
INVARIANT RoomForMaxClients
