\* One message and a stream that is dropped, broken or resynced.
CONSTANTS
    MaxSends = 1
    MaxTokens = 1
    MaxSteps = 2
    MaxStops = 0
    BusSize = 1
    Browser = browser
    Retention = 2
    RetentionBytes = 20
    SubscriberBuffer = 1
    Sizes = {1}
    MaxEvents = 16
    MaxBreaks = 1
    MaxDraft = 1
SPECIFICATION BrowserFairSpec
PROPERTIES
    BrowserSettles
CHECK_DEADLOCK FALSE
