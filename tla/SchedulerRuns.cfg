\* The runs of a job: the durable state implements the ledger, started runs are archived, due jobs claimed.
SPECIFICATION FairSpec
CONSTANTS
    Jobs = {1}
    Crons = {1}
    CronNext <- MCCronNext
    CronPrev <- MCCronPrev
    MaxJobs = 1
    RetryDelay = 1
    IdleWait = 100
    BufferSize = 1
    MaxTime = 3
    MaxCalls = 2
    MaxFaults = 1
    NoCron = NoCron
    NoRun = NoRun
PROPERTIES
    ImplementsLedger
    SchedulerProgresses
CHECK_DEADLOCK FALSE
