\* One motor, a bus without faults.
CONSTANTS
  Buses = {0}
  Ids = {1}
  RingSize = 2
  Depth = 1
  Given = {"read", "write"}
  Asked = {"aux"}
  Faults = {}
SPECIFICATION Spec
INVARIANT DecodesAsMotorSends
CHECK_DEADLOCK FALSE
