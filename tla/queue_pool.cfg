\* Two workers: the mutex, the counters, the wakeups, and progress.
CONSTANTS
    Main = main
    Workers = {w1, w2}
    QSize = 2
    Fds = {0, 1}
    MinCount <- MCMinCount
SPECIFICATION FairSpec
INVARIANTS TypeOK MutualExclusion CountersAgree NoOverflow
           ProducerNotForgotten WorkersNotForgotten
PROPERTY Drains
