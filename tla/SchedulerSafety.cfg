\* One job, every kind of schedule, two faults: recovery and delivery.
SPECIFICATION Spec
CONSTANTS
    Jobs = {1}
    Crons = {1}
    CronNext <- MCCronNext
    CronPrev <- MCCronPrev
    MaxJobs = 1
    RetryDelay = 1
    IdleWait = 100
    BufferSize = 1
    MaxTime = 3
    MaxCalls = 2
    MaxFaults = 2
    NoCron = NoCron
    NoRun = NoRun
INVARIANTS
    TypeOK
    NeverInconsistent
    OccurrencesAdvance
    OnlyUnavailableOneShotsRetry
    NotificationsAreTrue
PROPERTIES
    AckedNeverResent
CHECK_DEADLOCK FALSE
