SPECIFICATION Spec
CONSTANTS
    Films <- MCFilms
    FilmLength = 2
    MaxFaults = 1
    MaxWaiting = 1
    AlarmMedia <- MCMedia
    SleepTimers <- MCSleepTimers
    MaxRings = 2
    MaxTaps = 2
    MaxInbox = 1
    Beginnings <- MCBeginnings
INVARIANTS
    SoundHasScreen
PROPERTIES
    ResumesWhereSnoozed
    NoPhantomClick
    
CHECK_DEADLOCK FALSE
