SPECIFICATION FairSpec
CONSTANTS
    LastTid = 1
    MaxSleep = 1
    Calls <- SleepLostCalls
    Events = {}
    StartStates = {"INITIALIZED"}
    StaleTids <- NoStale
    QUANTUM_MIN = 1
    QUANTUM_NORMAL_THRESHOLD = 1
    QUANTUM_NORMAL_TIME_CRITICAL = 2
    QUANTUM_SYSTEM_THRESHOLD = 2
    QUANTUM_SYSTEM_TIME_CRITICAL = 2
    QUANTUM_MAX = 2
    FocusBoost = 1
PROPERTY SleepHonoured
