\* Everything may fail and no wait outlasts a slow reply; commands still end.
CONSTANTS
  Motors = {m1}
  Depth = 1
  Faults = {"loss", "tx", "supply"}
  Timely = {}
SPECIFICATION FairSpec
INVARIANT LiveRailKnown
PROPERTIES SessionSpec CommandsReturn StopEndsSession
CHECK_DEADLOCK FALSE
