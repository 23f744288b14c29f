SPECIFICATION Spec
CONSTANTS
    Engines = {"DUI"}
    Duplex = "FULL"
    Results <- MCSpoken
    MaxWakeups = 1
    MaxInfos = 2
    AppCap = 5
    AsrCap = 5
    StackSize = 10
PROPERTIES ResultAfterPrompt
CHECK_DEADLOCK FALSE
