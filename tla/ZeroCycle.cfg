\* One angle on each side with two comparisons, or four random rounds; every failure.
CONSTANTS
  Steps = 1
  Repeats = 2
  Rounds = 1
  Counts = {0, 4}
  Revisit = 1
  Retests = 2
  PointMax = 2
  Continue = {TRUE, FALSE}
  Spots = {0, 1}
  Bound = 2
  Jumps = {0, 2, 3}
SPECIFICATION FairSpec
INVARIANTS TypeOK CoordinatesTrue ReachedMeansThere PassEarned PointsAgree
PROPERTIES NoLiveCut TestEnds
CHECK_DEADLOCK FALSE
