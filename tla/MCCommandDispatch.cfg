CONSTANTS
  c1 = c1
  Cmd <- One
  Asked <- Kinds
SPECIFICATION FairSpec
INVARIANTS
  ConfirmedIsApplied
PROPERTIES
  RetirementStopsPending
  SuccessIsCurrent
  CommandsAnswered
