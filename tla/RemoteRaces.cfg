\* A remote job whose first-leg page the person confirms twice, two callbacks at a time.
SPECIFICATION Spec
CONSTANTS
    Flows = {"eparakstsMobile", "cscEidScan"}
    OfferedFlows = {"eparakstsMobile", "cscEidScan"}
    TSAAccessFlows = {}
    NoJob = NoJob
    Jobs = {j1}
    r1 = r1
    r2 = r2
    w1 = w1
    w2 = w2
    j1 = j1
    j2 = j2
    Requests = {r1, r2}
    Workers = {w1}
    Endpoints = {}
    MaxStates = 3
    MaxDigests = 2
    MaxApprovals = 2
    MaxConfirms = 1
    MaxFaults = 0
SYMMETRY Symmetry
INVARIANTS
    TypeOK
    ReadyIsFinalized
    FinalizedIsAuthorized
    SignHashBound
    RemoteTimestampable
    AsksForItsDigests
CHECK_DEADLOCK FALSE
