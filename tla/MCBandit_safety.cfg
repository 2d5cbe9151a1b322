SPECIFICATION Spec
CONSTANTS
    Arms = {a}
    Handlers = {h1, h2}
    Runs = {n1, n2}
    Drift = 2
    Resends = FALSE
    MaxRewards = 2
SYMMETRY MCSymmetry
INVARIANTS TypeOK NeverOvercounts
