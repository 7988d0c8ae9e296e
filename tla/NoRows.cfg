CONSTANTS
  Pid = {p1, p2, p3}
  U64 = 16
  Totals = {3}
  MinProcs = 2
  MaxStarts = 3
  MaxJiffies = 2
  Tree <- SmallTree
  UPDATE_INTERVAL = 4
  StartTime = 0
  MAX_NUM_ELEMENTS = 2
  SCALE = 2
  INT_MAX = 7
  OUT_OF_RANGE <- LeastInt
SYMMETRY Symmetric
SPECIFICATION Spec
INVARIANTS
  RowsAreThere
