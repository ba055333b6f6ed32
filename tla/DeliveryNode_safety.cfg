SPECIFICATION FairSpec
CONSTANTS
    v1 = v1 v2 = v2 v3 = v3
    s1 = s1 s2 = s2
    r1 = r1 r2 = r2 r3 = r3
    Vehicles = {v1, v2, v3}
    Segments = {s1, s2}
    Requests = {r1, r2, r3}
    Token <- MCToken
    Wanted <- MCWanted
    LeavesAt <- MCLeavesAt
    Stay <- MCStay
    Buffered <- MCBuffered
    MissedThreshold = 0
    SyncThreshold = 2
    MayFail = TRUE
    MaxTime = 2
INVARIANTS TypeOK FetchedIsNoticed
PROPERTIES NeverGivesUpEarly UndeliveredIsKept NoticesHandled
CHECK_DEADLOCK FALSE
