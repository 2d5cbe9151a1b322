SPECIFICATION FirstSpec
CONSTANTS
    Slugs = {a, b}
    Contents = {c1, c2}
    None = None
    NoHash = NoHash
    FirstPage = a
    FirstContent = c1
    MaxCommits = 1
    MaxFaults = 1
INVARIANT FailedPagesRetried
