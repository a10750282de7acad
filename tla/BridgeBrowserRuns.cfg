\* Two messages, so that a resync may skip the end of one run and the start of the next.
CONSTANTS
    MaxSends = 2
    MaxTokens = 1
    MaxSteps = 1
    MaxStops = 0
    BusSize = 1
    Browser = browser
    Retention = 2
    RetentionBytes = 20
    SubscriberBuffer = 1
    Sizes = {1}
    MaxEvents = 16
    MaxBreaks = 0
    MaxDraft = 1
SPECIFICATION BrowserSpec
INVARIANTS
    ProjectionFaithful
CHECK_DEADLOCK FALSE
