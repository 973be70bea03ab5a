CONSTANTS
  e = e
  t = t
  s1 = s1
  w1 = w1
  w2 = w2
  Event <- Both
  TestEvent <- TestOnly
  Sub <- OneSub
  Worker <- TwoWorkers
  SendTimeout = 1
  Lease = 2
  Backoff <- Delays
  Ttl = 5
  MaxDeliveries = 1
SPECIFICATION FairSpec
INVARIANTS
  OneSenderPerDelivery
  RestartAccepts
PROPERTIES
  RetiredIsNotSent
  StaleRegistrationIsLeftAlone
  AcceptedIsFinal
  RowsLeave
