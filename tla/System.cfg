SPECIFICATION FairSpec
CONSTANTS
    Duplex = "HALF"
    Results <- MCResults
    AppCap = 2
    StackSize = 10
    Cap <- MCCap
    MaxOutside = 4
    MaxInfos = 20
PROPERTIES AppSpec DialogueEnds
CHECK_DEADLOCK FALSE
