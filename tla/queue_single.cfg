\* One worker: the queue is a FIFO, and live.
CONSTANTS
    Main = main
    Workers = {w1}
    QSize = 2
    Fds = {0, 1, 2, 3, 4}
    MinCount <- MCMinCount
SPECIFICATION FairSpec
INVARIANTS NoUnderflow ServesOwnSocket
PROPERTY ImplementsFifo
