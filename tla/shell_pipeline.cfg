\* Three commands; a program may write more than a pipe holds.
CONSTANTS
    Capacity = 1
    MaxWrites = 2
    MaxCommands = 3
SPECIFICATION FairSpec
INVARIANTS StackListsChildren OnlyFailedForksStay OnlyPassThroughStaysOpen
PROPERTY ReturnsUnlessPipeFull
CHECK_DEADLOCK FALSE
