CONSTANTS
  a = a
  b = b
  e1 = e1
  e2 = e2
  d1 = d1
  d2 = d2
  d3 = d3
  Event <- TwoEvents
  Delivery <- ThreePushes
  Carries <- Carried
  Page <- TwoWindows
  Slot <- Ports
  MaxEvents = 1
  MaxGeneration = 4
  MaxSubscriptions = 3
  Loads <- EachHazard
SPECIFICATION Spec
INVARIANTS
  ShownOnce
  ChangeRetiresPushes
  DisableRetiresEnable
  TabsAgree
PROPERTIES
  UsesWorker
  OperationsEnd
CHECK_DEADLOCK FALSE
