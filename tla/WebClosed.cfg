SPECIFICATION FairSpec
CONSTANTS
    Responses <- MCResponses
    BufSize = 4
    Lens = {1, 3, 5}
    DropLen = 2
    Closings = {"fin"}
PROPERTIES ReadCompletes
CHECK_DEADLOCK FALSE
