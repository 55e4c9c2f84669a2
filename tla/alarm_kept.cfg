SPECIFICATION Spec
CONSTANTS
    AlarmIds <- MCAlarmIds
    FirstSchedules <- MCFirstSchedules
    SavedAlarms <- MCSavedAlarms
    Horizon = 6
    Day = 10
    Grace = 0
    SnoozeLength = 2
    RingTime = 3
    MaxPending = 2
    MaxBacklog = 0
    MaxLag = 1
    MaxCorrections = 0
    MaxPresses = 3
    MaxEdits = 1
    MaxFaults = 0
    Spent <- MCNothing
PROPERTIES EditedAlarmKept
CHECK_DEADLOCK FALSE
