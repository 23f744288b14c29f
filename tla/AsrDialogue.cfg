SPECIFICATION Spec
CONSTANTS
    Engines = {"LOCAL", "DUI"}
    Duplexes = {"HALF"}
    Calls = {"start", "stop", "reset"}
    MaxCalls = 2
    MaxReplies = 1
    NetCheck = FALSE
    Prompt = FALSE
    Cap <- MCCap
INVARIANTS EngineLockHeld EngineRingReady
CHECK_DEADLOCK FALSE
