SPECIFICATION FairSpec
CONSTANTS
  w1 = w1
  w2 = w2
  m1 = m1
  m2 = m2
  None = None
  Workers <- TwoWorkers
  Messages <- TwoMessages
  Wanted <- SecondOnly
  Rejects <- RejectFirst
  MaxDeliver = 2
  MaxAckPending = 1
PROPERTIES
  DeliverySpec
  EveryEventSettles
