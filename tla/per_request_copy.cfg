\* Two clients of two threads each copy a file; the fourth connection is one
\* more than thread_array has room for.
CONSTANTS
    None = None
    a = a
    Clients = {c1, c2}
    Ids = {1, 2}
    Plan <- JustA
    Blocks <- OneBlock
    Handlers = {0, 1, 2, 3}
    MaxThreads = 3
    Window = 1
    Failing = {}
SPECIFICATION FairSpec
INVARIANT OneSlotPerConnection
PROPERTY ImplementsCopyService
CHECK_DEADLOCK FALSE
