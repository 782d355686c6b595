\* Two files the server cannot open and one of two blocks.
CONSTANTS
    NFiles = 3
    Size <- MCSize
    Missing = Missing
    Window = 1
SPECIFICATION FairSpec
INVARIANT NoZombieForgotten
PROPERTIES MissingFileEnds FileArrives
CHECK_DEADLOCK FALSE
