SPECIFICATION Spec
CONSTANTS
    na = na nb = nb none = none va = va vb = vb
    None = none
    Nodes = {na, nb}
    Dists = {5, 9}
    Speed <- MCSpeed
    Videos = {va, vb}
    NoVideo = NoVideo
    Urls <- MCUrls
    Segments = {1, 2, 3, 4, 5, 6, 7}
    TotalSize <- MCTotalSize
    NumClients = 2
    Trajectory <- MCTrajectory
    Choice <- MCChoice
    Lead = 1
    LookAhead = 1
    CheckEvery = 3
    EndOfTime = 11
    MayFail = TRUE
    ClockConfigured = TRUE
INVARIANTS TypeOK BytesAccounted NotLeftBehind
CHECK_DEADLOCK FALSE
