\* Two releases one after the other, with the power going now and then.
SPECIFICATION Spec
CONSTANTS
  Releases <- MCReleases
  Chunks = 2
  MaxPresses = 5
  MaxCuts = 1
  MaxStops = 1
INVARIANTS NeverBricked AboutTellsTheRelease
PROPERTIES UpdateEnds ClockComesBack
CHECK_DEADLOCK FALSE
