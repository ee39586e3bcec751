SPECIFICATION FairSpec
CONSTANTS
  d1 = d1
  d2 = d2
  d3 = d3
  w1 = w1
  w2 = w2
  none = none
  Deliveries <- MCDeliveries
  Urlless <- MCUrlless
  Workers <- MCWorkers
  NoTask = none
  MaxAttempts = 3
  BatchSize = 2
  MaxFaults = 2
INVARIANTS TypeOK NoDuplicate NoneForgotten AttemptCountsPosts
PROPERTIES ImplementsDelivery EveryDeliverySettles
CHECK_DEADLOCK FALSE
