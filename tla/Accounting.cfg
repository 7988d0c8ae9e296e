CONSTANTS
  Zero = Zero  Here = Here  There = There  Else = Else  a = a  b = b  c = c
  Address4 = {Zero, Here, There, Else}
  Address6 = {}
  AnyAddress = Zero
  Port = {a, b, c}
  LocalAddress = {Here}
  PERIOD = 2
  U32 = 64
  NIface = 2
  Wire <- ForwardedTraffic
  PacketLen = {1}
  Pid = {1}
  ConnId = {c1, c2}
  ProcId = {p1, p2}
  CONNTIMEOUT = 2
  PROCESSTIMEOUT = 4
  Epoch = 4
  MaxTime = 7
  MaxPackets = 3
  MaxBuf = 2
  MaxGap = 2
  MaxLag = 1
  MaxBack = 1
SYMMETRY Symmetric
SPECIFICATION Spec
INVARIANTS
  TypeOK
  OneConnectionPerFlow
  EveryConnectionOwned
  OneProcessPerPid
  RefPacketOutgoing
  NobodysAreApart
PROPERTIES
  PacketCountedInItsFlow
  ConnectionRemovedWhenIdle
  NoMoreRowsThanConnections
