CONSTANTS
  s1 = s1
  a1 = a1
  n1 = n1
  Slot <- OneSlot
  Raw <- OneRaw
  Notice <- OneNotice
  Title <- OneTitle
  MaxDate = 3
  Tellings <- SlotTellings
  Sources <- Both
  MaxFeed = 5
  MaxRepeat = 1
SPECIFICATION Spec
INVARIANTS
  RaisedIsShown
  DismissedStaysAway
  NothingIsStale
  PlatformReplacesRaw
