SPECIFICATION Spec
CONSTANTS
  Socket <- MCSocket
  MaxSlow = 1
INVARIANT TargetsAreCurrent
PROPERTIES
  PollNeverGoesBack
  EvidenceIsEarned
CHECK_DEADLOCK FALSE
