SPECIFICATION FairSpec
CONSTANTS
    Window = 5
    Week = 5
    WindowFloor = 1
    WeekFloor = 1
    WindowPts = 1
    WeekPts = 1
    WindowCost = 1
    WeekCost = 1
    QueueTarget = 4
    RunSize = 2
    MaxRuns = 2
    MaxUnseen = 1
    MaxFaults = 1
    MaxOutside = 1
INVARIANTS TypeOK WorkFits QueueBound
PROPERTIES NoneLost Spends
