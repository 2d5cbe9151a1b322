SPECIFICATION FairSpec
CONSTANTS
    t1 = t1
    t2 = t2
    Jobs = {j1, j2}
    Manual = {}
    Targets = {t1, t2}
    Lists <- DailyOrMonthly
    DeleteFails = FALSE
    None = None
INVARIANTS TypeOK PassIsVerified SuccessMeansAllPassed NothingLeftUnlessKilled
PROPERTY RunsEnd
CHECK_DEADLOCK FALSE
