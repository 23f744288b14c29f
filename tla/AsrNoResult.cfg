SPECIFICATION FairSpec
CONSTANTS
    Engines = {"LOCAL"}
    Duplexes = {"HALF"}
    Calls = {"start"}
    MaxCalls = 1
    MaxReplies = 0
    NetCheck = FALSE
    Prompt = TRUE
    Cap <- MCCap
PROPERTIES WaitEnds
CHECK_DEADLOCK FALSE
