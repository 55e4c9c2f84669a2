\* A failed upload is said to remove its partial file.
SPECIFICATION Spec
CONSTANTS
  Names = {"rain", "kids"}
  Clips = {"rain"}
  PathMax = 2
  MaxSessions = 2
  Requests <- MCUploads
  MaxClients = 2
  MaxCommands = 4
  MaxFaults = 1
  StartingCards <- MCCards
  MaxVisits = 2
  MaxQuits = 1
  Spent <- MCRetry
CHECK_DEADLOCK FALSE
PROPERTY RemovesOnlyPartials
