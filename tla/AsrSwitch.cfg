SPECIFICATION FairSpec
CONSTANTS
    Engines = {"DUI"}
    Duplexes = {"FULL"}
    Calls = {"start", "stop", "network"}
    MaxCalls = 2
    MaxReplies = 1
    NetCheck = TRUE
    Prompt = TRUE
    Cap <- MCCap
INVARIANTS VadStreamServed
PROPERTIES SpeechingEnds StopDrainsFull
CHECK_DEADLOCK FALSE
