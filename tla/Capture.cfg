CONSTANTS
  Here4 = Here4  There4 = There4  Here6 = Here6  There6 = There6  a = a  b = b
  Address4 = {Here4, There4}
  Address6 = {Here6, There6}
  Port = {a, b}
  NDevice = 2
  Machine <- TwoDevices
  Traffic <- PlainTraffic
  MaxFrames = 2
SPECIFICATION Spec
INVARIANTS
  TypeOK
  PushedAsCaptured
PROPERTIES
  FramesAreDispatched
