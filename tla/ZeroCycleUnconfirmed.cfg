\* What the README says of an ENABLE that is not confirmed.
CONSTANTS
  Steps = 1
  Repeats = 2
  Rounds = 1
  Counts = {0, 4}
  Revisit = 1
  Retests = 2
  PointMax = 2
  Continue = {TRUE, FALSE}
  Spots = {0, 1}
  Bound = 2
  Jumps = {0, 2, 3}
SPECIFICATION Spec
CHECK_DEADLOCK FALSE
PROPERTY UnconfirmedDisabled
