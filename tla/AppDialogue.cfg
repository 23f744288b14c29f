SPECIFICATION FairSpec
CONSTANTS
    Engines = {"LOCAL", "DUI"}
    Duplex = "HALF"
    Results <- MCResults
    MaxWakeups = 2
    MaxInfos = 3
    AppCap = 2
    AsrCap = 5
    StackSize = 2
INVARIANTS NoStaleJob JobsBacked
PROPERTIES JobsWorkedOff
CHECK_DEADLOCK FALSE
