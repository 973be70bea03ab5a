CONSTANT
  Tid <- SpareSlots
SPECIFICATION FairSpec
INVARIANTS
  ExclusiveTransports
  LiveStateIsSelected
  NoTaskLeaks
  ShutdownStopsTasks
PROPERTIES
  RetiredSourceIsSilent
  ImplementsContract
  SwitchEnds
  FailoverHappens
  RecoveryHappens
  ShutdownEndsEventually
