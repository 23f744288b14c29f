SPECIFICATION Spec
CONSTANTS
    Engines = {"DUI"}
    Duplexes = {"HALF"}
    Calls = {"start"}
    MaxCalls = 2
    MaxReplies = 1
    NetCheck = TRUE
    Prompt = FALSE
    Cap <- MCCap
PROPERTIES EngineFixedInDialogue
CHECK_DEADLOCK FALSE
