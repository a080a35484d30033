SPECIFICATION Spec
CONSTANTS
  Messages = {m1}
  Portfolios = {"p1", "p2"}
  MaxRounds = 1
  MaxLaunches = 2
PROPERTY NoneLost
CHECK_DEADLOCK FALSE
