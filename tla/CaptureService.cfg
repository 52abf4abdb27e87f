\* One client and a helper that forks: all a capture can meet, with no deadline
\* counted on to end it.
SPECIFICATION NoClockSpec
CONSTANTS
  Clients = {c1}
  NoClient = NoClient
  Backlog = 1
  FrameBlocks = 1
  LimitBlocks = 1
  MaxBlocks <- TwoBlocks
  Descendants = {d1}
  Words <- AllWords
INVARIANTS
  HelperConfined
  ImageIsWhole
  NoSilentClose
PROPERTIES
  LeavingFreesSensor
CHECK_DEADLOCK FALSE
