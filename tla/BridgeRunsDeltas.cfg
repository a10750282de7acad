\* Two messages, two deltas, two attempts or tool calls a run, the flush timer.
CONSTANTS
    MaxSends = 2
    MaxTokens = 2
    MaxSteps = 2
    MaxStops = 0
    BusSize = 1
SPECIFICATION Spec
INVARIANTS
    OneTerminal
    DraftsAreWhole
CHECK_DEADLOCK FALSE
