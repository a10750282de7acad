CONSTANTS
    Focuses = {"outbound", "log", "telegram", "text", "media"}
    Streams = {1, 2}
    BufferSize = 1
    MaxMessages = 2
    MaxFailures = 1
    Watchers = {"a", "b"}
    Retention = 2
    RetentionBytes = 4
    SubscriberBuffer = 1
    Sizes = {1, 5}
    MaxEvents = 4
    MaxBreaks = 1
    MaxRunEvents = 1
    MaxTgFaults = 1
    Documents <- mDocuments
    Strings <- mStrings
    RichLines = 3
    ChunkLimit = 4
    Contents = {"voice"}
    Detected <- mDetected
    KindOf <- mKindOf
    MaxScopes = 2
    MaxUpdates = 1
    MaxTurns = 1
    MaxMediaFaults = 1
SPECIFICATION ChannelsFairSpec
INVARIANTS
    OutboundSafe
    WindowSound
    NoSilentGap
    NoticesAreTrue
    HandoffExact
    TelegramSafe
    MediaSafe
PROPERTIES
    QuietAfterEnd
    ChannelsSettle
CHECK_DEADLOCK FALSE
