\* Two clients copy a long file, an empty one, and one the server cannot open.
CONSTANTS
    None = None
    a = a
    b = b
    missing = missing
    Clients = {c1, c2}
    Ids = {1}
    Plan <- AllThree
    Blocks <- LongEmpty
    Handlers = {h1, h2}
    Window = 1
    Failing = {c1}
SPECIFICATION FairSpec
INVARIANTS OneLeader NothingLostOrRepeated
PROPERTY ImplementsCopyService
CHECK_DEADLOCK FALSE
