SPECIFICATION FairSpec
CONSTANTS
    Arms = {a}
    Handlers = {h1}
    Runs = {n1, n2}
    Drift = 1
    Resends = TRUE
    MaxRewards = 1

PROPERTY CatchesUp
