SPECIFICATION Spec
CONSTANTS
    AlarmIds <- MCAlarmIds
    FirstSchedules <- MCFirstSchedules
    SavedAlarms <- MCSavedAlarms
    Horizon = 6
    Day = 10
    Grace = 0
    SnoozeLength = 2
    RingTime = 3
    MaxPending = 2
    MaxBacklog = 0
    MaxLag = 1
    MaxCorrections = 1
    MaxPresses = 3
    MaxEdits = 1
    MaxFaults = 1
    Spent <- MCSpent
INVARIANTS TypeOK ScheduleFresh OneOffGone 
PROPERTIES ManagerReturns DeadlineHonoured
CHECK_DEADLOCK FALSE
