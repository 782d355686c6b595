\* Client and server wait for each other to close the connection.
CONSTANTS
    NFiles = 1
    Size <- OneFile
    Missing = Missing
    Window = 1
SPECIFICATION FairSpec
PROPERTY CopyEnds
CHECK_DEADLOCK FALSE
