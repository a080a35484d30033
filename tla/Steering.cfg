SPECIFICATION FairSpec
CONSTANTS
  Messages = {m1, m2}
  Portfolios = {"p1"}
  MaxRounds = 2
  MaxLaunches = 2
INVARIANTS OneRevisionPerAnswer
PROPERTIES Heard NothingUnheardLands EventuallyTaken
CHECK_DEADLOCK FALSE
