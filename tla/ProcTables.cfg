CONSTANTS
  Zero = Zero  Here = Here  Here2 = Here2  There = There
  Mapped = Mapped  MappedThere = MappedThere  There6 = There6
  a = a  b = b
  Address4 = {Zero, Here, Here2, There}
  Address6 = {Mapped, MappedThere, There6}
  AnyAddress = Zero
  Port = {a, b}
  LocalAddress = {Here}
  Pid = {1, 2}
  Inode = {1, 2}
  Name = {n1, n2}
  NULL = NULL
  V4Mapped <- V4
  Rows <- TwoSockets
  Wire <- TwoFlows
  ReuseKey = FALSE
  ReusePid = FALSE
SYMMETRY Symmetric
SPECIFICATION SpecSeen
INVARIANTS
  TypeOK
  NamelessAreGone
PROPERTIES
  OpenSocketIsFound
  FoundOwner
  RightName
