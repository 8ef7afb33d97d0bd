\* A stop request while the terminal waits for a key.
CONSTANTS
  Motors = {m1}
  Depth = 1
  Faults = {"loss", "tx", "supply"}
  Timely = {}
SPECIFICATION FairSpec
PROPERTY CtrlCEndsSession
CHECK_DEADLOCK FALSE
