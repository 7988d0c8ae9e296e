CONSTANTS
  Zero = Zero  Here = Here  There = There  Else = Else  a = a  b = b  c = c
  Address4 = {Zero, Here, There, Else}
  Address6 = {}
  AnyAddress = Zero
  Port = {a, b, c}
  LocalAddress = {Here}
  PERIOD = 2
  U32 = 64
  NIface = 2
  Wire <- HostTraffic
  PacketLen = {1}
  Pid = {1}
  ConnId = {c1, c2}
  ProcId = {p1, p2}
  CONNTIMEOUT = 4
  PROCESSTIMEOUT = 8
  Epoch = 8
  MaxTime = 11
  MaxPackets = 2
  MaxBuf = 2
  MaxGap = 2
  MaxLag = 1
  MaxBack = 0
SYMMETRY Symmetric
SPECIFICATION Spec
PROPERTIES
  ReportIsTheWindow
