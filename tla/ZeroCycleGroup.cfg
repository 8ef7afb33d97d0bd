\* Two joints and a hand, one angle on each side, two cycles at each, every failure.
CONSTANTS
  Motors = {m1, m2, hand}
  Hands = {hand}
  Most = 2
  Steps = 1
  Repeats = 2
  Rounds = 2
  Counts = {0, 3}
  Spots = {0, 1}
  Jumps = {0, 2}
SPECIFICATION FairSpec
INVARIANTS TypeOK MovesTrue PassEarned TallyAgrees
PROPERTIES CutDisabled ZeroVerified FrozenForGood TestEnds
CHECK_DEADLOCK FALSE
