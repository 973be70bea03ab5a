CONSTANTS
  c1 = c1
  Cmd <- One
  Asked <- Kinds
SPECIFICATION Spec
PROPERTIES
  RetiredSourceTakesNoCommand
