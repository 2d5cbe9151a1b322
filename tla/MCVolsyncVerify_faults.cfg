SPECIFICATION Spec
CONSTANTS
    t1 = t1
    t2 = t2
    Jobs = {j1, m1}
    Manual = {m1}
    Targets = {t1}
    Lists <- DailyOnly
    DeleteFails = TRUE
    None = None
INVARIANT PassNeedsRestore
CHECK_DEADLOCK FALSE
