CONSTANTS
  p1 = p1
  p2 = p2
  b1 = b1
  b2 = b2
  Peer <- TwoPeers
  Caller <- TwoCallers
  SourceTask <- TwoCallers
  SendTimeout = 1
  CloseTimeout = 1
  MaxVersion = 2
SYMMETRY Symmetric
SPECIFICATION Spec
INVARIANTS
  BackpressureIsBounded
PROPERTIES
  FramesInOrder
  BroadcastReaches
