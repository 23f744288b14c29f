SPECIFICATION Spec
CONSTANTS
    Engines = {"LOCAL", "DUI"}
    Duplexes = {"HALF"}
    Calls = {"start", "reset"}
    MaxCalls = 2
    MaxReplies = 1
    NetCheck = FALSE
    Prompt = FALSE
    Cap <- MCCap
INVARIANTS VadStreamServed
CHECK_DEADLOCK FALSE
