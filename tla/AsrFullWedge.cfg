SPECIFICATION Spec
CONSTANTS
    Engines = {"DUI"}
    Duplexes = {"FULL"}
    Calls = {"start"}
    MaxCalls = 7
    MaxReplies = 1
    NetCheck = FALSE
    Prompt = FALSE
    Cap <- MCCap
INVARIANTS NoWedge
CHECK_DEADLOCK FALSE
