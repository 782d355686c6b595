\* Two workers: getOffQ takes from an empty queue.
CONSTANTS
    Main = main
    Workers = {w1, w2}
    QSize = 2
    Fds = {0, 1}
    MinCount <- MCMinCount
SPECIFICATION Spec
INVARIANT NoUnderflow
