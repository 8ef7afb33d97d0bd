\* Two transfers of a ten-block file, five tries, every fault.  The sequence numbers come
\* round twice, and are the fewest with which ImageIsPrefix holds: one more than twice the
\* depth.  With Modulus = 4 it is violated.
CONSTANTS
  Blocks = 10
  Tries = 5
  Modulus = 5
  Sessions = 2
  Depth = 2
  Faults = {"loss", "late", "tx", "short"}
SPECIFICATION FairSpec
INVARIANTS StoredAsSent ImageIsPrefix
PROPERTY FlashReturns
CHECK_DEADLOCK FALSE
