\* Two clients, one behind the other, and a helper that may hang for ever.
SPECIFICATION FairSpec
CONSTANTS
  Clients = {c1, c2}
  NoClient = NoClient
  Backlog = 1
  FrameBlocks = 1
  LimitBlocks = 1
  MaxBlocks <- OneBlock
  Descendants = {}
  Words <- OneWord
PROPERTIES
  LeaseSpec
  EveryConnectionEnds
  ServiceEnds
CHECK_DEADLOCK FALSE
