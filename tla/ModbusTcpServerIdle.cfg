\* One idle client is enough: does its worker ever end?
SPECIFICATION Spec
CONSTANTS
  Conns = {k1, k2}
  NoConn = none
  MaxClients = 2
  NetconnPool = 3
  MboxSize = 2
  Word = 16
PROPERTY IdleIsFreed
