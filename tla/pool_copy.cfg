\* Two workers, two clients that copy a file each.
CONSTANTS
    None = None
    a = a
    Clients = {c1, c2}
    Ids = {1}
    Plan <- JustA
    Blocks <- OneBlock
    Handlers = {w1, w2}
    Window = 1
    Failing = {}
    QSize = 2
    MaxBad = 1
SPECIFICATION FairSpec
INVARIANT OnePlace
PROPERTY Answered
CHECK_DEADLOCK FALSE
