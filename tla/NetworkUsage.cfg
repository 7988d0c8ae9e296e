CONSTANTS
  Zero = Zero  Here = Here  There = There  Else = Else  a = a  b = b  c = c
  Address4 = {Zero, Here, There, Else}
  Address6 = {}
  AnyAddress = Zero
  Port = {a, b, c}
  LocalAddress = {Here}
  PERIOD = 2
  U32 = 3
  NIface = 1
  Wire <- HostTraffic
  PacketLen = {1}
  Pid = {1}
  ConnId = {c1, c2}
  ProcId = {p1, p2}
  CONNTIMEOUT = 2
  PROCESSTIMEOUT = 4
  Epoch = 4
  MaxTime = 8
  MaxPackets = 3
  MaxBuf = 2
  MaxGap = 2
  MaxLag = 1
  MaxBack = 0
  KBPS = 2
  CENT = 2
  INT_MAX = 7
  MaxSignals = 1
SYMMETRY Symmetric
SPECIFICATION UsageSpec
INVARIANTS
  PacketListsNewestFirst
  RowsInOrder
  ListShowsTheReport
PROPERTIES
  ReportIsTheWindow
