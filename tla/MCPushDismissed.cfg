CONSTANTS
  s1 = s1
  Slot <- OneSlot
  Raw <- None
  Notice <- None
  Title <- OneTitle
  MaxDate = 3
  Tellings <- SlotTellings
  Sources <- Both
  MaxFeed = 5
  MaxRepeat = 1
  MaxAge = 2
  FutureSkew = 1
  Priming = 1
SPECIFICATION PushSpec
INVARIANTS
  OccurrenceRemainsEligible
