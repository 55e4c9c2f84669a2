\* Two callers post, one of them waits, a callback posts; the owner may stop
\* the worker either way.
CONSTANTS
    a = a
    b = b
    creator = creator
    thread = thread
    Callers <- MCCallers
    Creator = creator
    WorkerThread = thread
    NoItem = NoItem
    Threads <- MCThreads
    Items <- MCTasks
    Capacity = 2
    MaxCalls <- ThreePosts
    Kinds <- OneWaits
    Stops = {"stop", "stop_now"}
SPECIFICATION FairSpec
INVARIANTS
    SlotExclusive
    NoLostWakeup
    NoDanglingRequest
    SyncAnswersAreTrue
    StopNowStartsAtMostOne
    DrainRunsEverything
PROPERTIES
    ImplementsFifo
    ShutdownEnds
    EverythingRuns
CHECK_DEADLOCK FALSE
