CONSTANTS
  QUIT_TIMEOUT_DURATION = 5
  DEFAULT_REFRESH_DELAY = 1
  NETWORK_ANALYZER_TIMEOUT = 2
  Subscription = {s1, s2, s3, s4}
  MaxStart = 3
  MaxCrashes = 0
SPECIFICATION Spec
PROPERTIES
  ViewKeepsUp
