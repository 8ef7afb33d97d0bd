\* Two motors with the same id on two buses, every fault, a ring of two frames.
CONSTANTS
  Buses = {0, 1}
  Ids = {1}
  RingSize = 2
  Depth = 2
  Given = {"read", "write", "save"}
  Asked = {"version"}
  Faults = {"loss", "late", "tx", "noise"}
SPECIFICATION FairSpec
INVARIANTS TypeOK AnswersAsked OwnValues
PROPERTY CommandReturns
CHECK_DEADLOCK FALSE
