SPECIFICATION Spec
CONSTANTS
    Shapes <- MCShapes
    Idle = Idle
    MaxPages = 2
    MaxLines = 3
    MaxKills = 1
INVARIANTS TypeOK AdvertisedWorks
PROPERTY Implements
CHECK_DEADLOCK FALSE
