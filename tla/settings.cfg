SPECIFICATION Spec
CONSTANTS
  Networks = {home, other}
  home = home
  other = other
  MaxRetry = 1
  Levels <- MCLevels
  Zones = {here, there}
  here = here
  there = there
  Budgets <- MCBudgets
INVARIANTS
  
  PanelFollowsSchedule
PROPERTIES
  OffSyncStays
  RadioSettles
CHECK_DEADLOCK FALSE
