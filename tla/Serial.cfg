\* Two jobs, a card's and a remote one's, whose callers send one request at a time.
SPECIFICATION Spec
CONSTANTS
    Flows = {"webEid", "eparakstsMobile"}
    OfferedFlows = {"webEid", "eparakstsMobile"}
    TSAAccessFlows = {"webEid"}
    NoJob = NoJob
    Jobs = {j1, j2}
    r1 = r1
    r2 = r2
    w1 = w1
    w2 = w2
    j1 = j1
    j2 = j2
    Requests = {r1}
    Workers = {w1}
    Endpoints = {"submit", "delete"}
    MaxStates = 2
    MaxDigests = 1
    MaxApprovals = 1
    MaxConfirms = 1
    MaxFaults = 1
SYMMETRY Symmetry
INVARIANTS
    IndexOwner
    ReadyDownloadable
PROPERTIES
    CardFollowsMachine
    ImplementsService
CHECK_DEADLOCK FALSE
