\* Two clients on the card while the media screen comes and goes.
SPECIFICATION Spec
CONSTANTS
  Names = {"rain", "kids"}
  Clips = {"rain"}
  PathMax = 2
  MaxSessions = 2
  Requests <- MCRequests
  MaxClients = 2
  MaxCommands = 3
  MaxFaults = 1
  StartingCards <- MCCards
  MaxVisits = 2
  MaxQuits = 1
  Spent <- MCSpent
INVARIANTS  RenameFollowsRnfr NoGhostActivity  StaleIsKnown
 
CHECK_DEADLOCK FALSE
