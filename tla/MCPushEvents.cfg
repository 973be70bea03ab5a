CONSTANTS
  s1 = s1
  Slot <- OneSlot
  Raw <- None
  Notice <- None
  Title <- TwoTitles
  MaxDate = 3
  Tellings <- SlotTellings
  Sources <- Both
  MaxFeed = 5
  MaxRepeat = 1
  MaxAge = 1
  FutureSkew = 1
  Priming = 1
SPECIFICATION PushSpec
INVARIANTS
  OccurrenceIsQueued
  QueuedOnce
PROPERTIES
  BaselineIsSilent
