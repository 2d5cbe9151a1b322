SPECIFICATION Spec
CONSTANTS
    Arms = {a, b}
    Threads = {t1, t2}
    Boot = t1
    None = None
    PageSize = 2
    MaxEdits = 2
    MaxFaults = 2
INVARIANTS TypeOK SelectsWhatWasLive CachedIsSeeded SyncTakes
PROPERTY NotFoundMeansNone
