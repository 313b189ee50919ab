SPECIFICATION FairSpec
CONSTANTS
  w1 = w1
  w2 = w2
  w3 = w3
  h1 = h1
  h2 = h2
  h3 = h3
  Procs = {w1, w2, w3}
  Keys = {h1, h2, h3}
  Unique <- SqlUnique
  Deliveries <- Overlapping
  MaxCrashes = 2
CHECK_DEADLOCK FALSE
INVARIANTS AtMostOneRow AcknowledgedIsStored
PROPERTIES WholeBatches EveryDeliveryStored
