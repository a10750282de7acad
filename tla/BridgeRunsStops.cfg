\* Two messages and two Stops, early, late, named or not, with one delta; the worker, the engine and the timer keep running.
CONSTANTS
    MaxSends = 2
    MaxTokens = 1
    MaxSteps = 1
    MaxStops = 2
    BusSize = 1
SPECIFICATION FairSpec
INVARIANTS
    StopsAreExact
    SessionTruthful
PROPERTIES
    Quiesces
CHECK_DEADLOCK FALSE
