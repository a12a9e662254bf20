\* Remote jobs whose pages are confirmed once each: two requests at a time, one fault.
SPECIFICATION Spec
CONSTANTS
    Flows = {"eparakstsMobile", "cscEidScan", "eidScan"}
    OfferedFlows = {"eparakstsMobile", "cscEidScan", "eidScan"}
    TSAAccessFlows = {}
    NoJob = NoJob
    Jobs = {j1}
    r1 = r1
    r2 = r2
    w1 = w1
    w2 = w2
    j1 = j1
    j2 = j2
    Requests = {r1, r2}
    Workers = {w1}
    Endpoints = {"decline"}
    MaxStates = 2
    MaxDigests = 2
    MaxApprovals = 1
    MaxConfirms = 1
    MaxFaults = 1
SYMMETRY Symmetry
INVARIANTS
    FinalizeAtMostOnce
    FinalizesCurrentDigest
CHECK_DEADLOCK FALSE
