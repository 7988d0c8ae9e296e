CONSTANTS
  Zero = Zero  Here = Here  There = There  Else = Else  a = a  b = b  c = c
  Address4 = {Zero, Here, There, Else}
  Address6 = {}
  AnyAddress = Zero
  Port = {a, b, c}
  LocalAddress = {Here}
  PERIOD = 2
  U32 = 64
  NIface = 1
  Wire <- HostTraffic
  PacketLen = {1}
  Pid = {1}
  ConnId = {c1, c2}
  ProcId = {p1, p2}
  CONNTIMEOUT = 2
  PROCESSTIMEOUT = 4
  Epoch = 4
  MaxTime = 10
  MaxPackets = 2
  MaxBuf = 2
  MaxGap = 3
  MaxLag = 0
  MaxBack = 0
SYMMETRY Symmetric
SPECIFICATION Spec
PROPERTIES
  ConnectionRemovedWhenIdle
