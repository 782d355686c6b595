\* A pipeline whose second command is refused.
CONSTANTS
    Capacity = 1
    MaxWrites = 1
    MaxCommands = 2
SPECIFICATION Spec
INVARIANT InPipeOnlyInPipeline
CHECK_DEADLOCK FALSE
