SPECIFICATION Spec
CONSTANTS
    NumEdges = 2
    CacheSizes <- MCCacheSizes
    NumTrials = 2
    MaxFaults = 2
    MaxTime = 2
    MaxEvents <- MCMaxEvents
INVARIANTS TypeOK FreshWhenServing LabelsAreTrue PlotsAreTheCache
CHECK_DEADLOCK FALSE
