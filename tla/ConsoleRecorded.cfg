\* An enable frame whose reply does not come.
CONSTANTS
  Motors = {m1}
  Depth = 1
  Faults = {"loss", "tx", "supply"}
  Timely = {}
SPECIFICATION Spec
PROPERTY RecordedOnlyAfterReply
CHECK_DEADLOCK FALSE
