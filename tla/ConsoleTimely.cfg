\* No frame is lost and the waits outlast the replies.
CONSTANTS
  Motors = {m1, m2}
  Depth = 1
  Faults = {"supply"}
  Timely = {"special_wait", "off_wait"}
SYMMETRY Symmetry
SPECIFICATION Spec
INVARIANTS TypeOK BeliefCoversDriving ZeroAtRest QuietWhenOff
PROPERTY CutAtRest
CHECK_DEADLOCK FALSE
