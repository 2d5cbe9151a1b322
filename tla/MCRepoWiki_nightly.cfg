SPECIFICATION FirstFairSpec
CONSTANTS
    Slugs = {a, b}
    Contents = {c1, c2}
    None = None
    NoHash = NoHash
    FirstPage = a
    FirstContent = c1
    MaxCommits = 2
    MaxFaults = 1
INVARIANTS TypeOK NeverOlderThanAnnounced CacheIsCoherent DoneIsCurrent FailureKeepsOldPage
PROPERTY CatchesUp
