SPECIFICATION FairSpec
CONSTANTS
    Files = {f, g}
    None = None
    Torn = Torn
    MaxTexts = 3
    MaxFaults = 2
INVARIANTS TypeOK OriginalKept
PROPERTIES TextsSurvive Collapses
