SPECIFICATION Spec
CONSTANTS
    Limit <- PatienceOf
    Methods = {"dfu", "download"}
    MaxLate = 1
    MaxCount = 2
    WakeUpTime = 2
    MaxActivity = 8
    Voices = {a, b}
    Miss = m
    None = none
    MaxVoices = 3
    MaxSets = 3
    MaxChoices = 3
    MaxTests = 3
    Enough = 2
    RingSize = 2
    MaxChanges = 5
    DeviceTables <- Tables
    SceneTables <- Scenes
    MaxSearches = 1
    MaxRefreshes = 1
    Pieces = 2
    MaxSends = 2
    MaxUpdates = 2
    MaxCuts = 2
    Urls <- MCUrls
    Headers = 2
    Layouts <- MCLayouts
    BufSize = 3
    BodyLen = 2
    MaxRequests = 3
    Lists = {p, q}
    Nodes = {n1, n2, n3, n4}
    NULL = null
INVARIANTS
    TypeOK DogPatient SilenceBounded SetWhenIdle SkipJustified
    DdsExclusive ModeAgrees EnginePinned EngineLive OwnAudio SearchExact CommandWhole
    ConnectedToTarget RequestOnWire
PROPERTIES
    StopNotEarly RepeatSuppressed  SequenceSpec
    BootWatched DialogueSleeps PhraseForgotten MainStarts ChoiceReturns TestEnds CardServed
    TableFollows
CHECK_DEADLOCK FALSE
