SPECIFICATION RadioSpec
CONSTANTS
    na = na nb = nb nc = nc none = none
    None = none
    Nodes = {na, nb, nc}
    Configured = {na, nb}
    ModelFile <- MCModelFile
    Steps <- MCSteps
    MaxPoints = 4
INVARIANTS RadioTypeOK ContactsAreStays EstimateIsWhatRadioCarries CreditWithinEstimate EstimatesFromOnePost
CHECK_DEADLOCK FALSE
