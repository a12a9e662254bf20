\* Two submits of the same job at the same time.
SPECIFICATION Spec
CONSTANTS
    Flows = {"webEid"}
    OfferedFlows = {"webEid"}
    TSAAccessFlows = {}
    NoJob = NoJob
    Jobs = {j1}
    r1 = r1
    r2 = r2
    w1 = w1
    w2 = w2
    j1 = j1
    j2 = j2
    Requests = {r1, r2}
    Workers = {w1}
    Endpoints = {"submit"}
    MaxStates = 1
    MaxDigests = 2
    MaxApprovals = 2
    MaxConfirms = 1
    MaxFaults = 0
SYMMETRY Symmetry
INVARIANTS
    FinalizeAtMostOnce
CHECK_DEADLOCK FALSE
