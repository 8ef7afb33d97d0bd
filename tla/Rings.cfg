\* Three slots, batches of up to four, eleven elements: wraps and overruns.
CONSTANTS
  Size = 3
  Batch = 4
  Arrivals = 11
SPECIFICATION Spec
INVARIANTS TypeOK NewestKept NoLostWakeup
PROPERTY DeliveredInOrder
CHECK_DEADLOCK FALSE
