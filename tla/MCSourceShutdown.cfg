CONSTANT
  Tid <- Slots
SPECIFICATION Spec
INVARIANTS
  NoSourceAfterShutdown
