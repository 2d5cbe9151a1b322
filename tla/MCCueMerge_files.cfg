SPECIFICATION CueSpec
CONSTANTS
    a = a
    ba = ba
    b = b
    blank = blank
    Clocks <- MCClocks
    Bodies = {a, ba, b, blank}
    Blank = {blank}
    Key <- MCKey
    Other = Other
    Gap = 1
    MinCues = 2
    MinRate = 2
    MinReduction = 25
    MaxBlocks = 3
PROPERTIES KeepsEveryCue AddsNoTime LeftAlone
