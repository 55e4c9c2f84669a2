SPECIFICATION Spec
CONSTANTS
  Networks = {home, other}
  home = home
  other = other
  MaxRetry = 1
  Levels <- MCLevels
  Zones = {here, there}
  here = here
  there = there
  Budgets <- MCOneEvening
INVARIANTS
  HandSetTimeKept
CHECK_DEADLOCK FALSE
