CONSTANTS
  Zero = Zero  Here = Here  There = There  Else = Else  a = a  b = b  c = c
  Address4 = {Zero}
  Address6 = {Here, There, Else}
  AnyAddress = Zero
  Port = {a, b, c}
  LocalAddress = {Here}
  PERIOD = 2
  U32 = 64
  NIface = 1
  Wire <- SharedPorts
  PacketLen = {1}
  Pid = {1}
  ConnId = {c1, c2}
  ProcId = {p1, p2}
  CONNTIMEOUT = 2
  PROCESSTIMEOUT = 4
  Epoch = 4
  MaxTime = 6
  MaxPackets = 2
  MaxBuf = 2
  MaxGap = 2
  MaxLag = 1
  MaxBack = 0
SYMMETRY Symmetric
SPECIFICATION Spec
PROPERTIES
  PacketCountedInItsFlow
