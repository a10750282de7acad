\* Two jobs: API calls against the Run loop, and the order of claims.
SPECIFICATION Spec
CONSTANTS
    Jobs = {1, 2}
    Crons = {1}
    CronNext <- MCCronNext
    CronPrev <- MCCronPrev
    MaxJobs = 2
    RetryDelay = 1
    IdleWait = 100
    BufferSize = 1
    MaxTime = 2
    MaxCalls = 3
    MaxFaults = 1
    NoCron = NoCron
    NoRun = NoRun
INVARIANTS
    TableMatchesStore
CHECK_DEADLOCK FALSE
