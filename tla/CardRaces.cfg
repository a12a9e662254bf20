\* A card job under concurrent submit, status and delete, two workers, one fault, fairness.
SPECIFICATION LiveSpec
CONSTANTS
    Flows = {"webEid", "legacyEid"}
    OfferedFlows = {"webEid"}
    TSAAccessFlows = {}
    NoJob = NoJob
    Jobs = {j1}
    r1 = r1
    r2 = r2
    w1 = w1
    w2 = w2
    j1 = j1
    j2 = j2
    Requests = {r1, r2}
    Workers = {w1, w2}
    Endpoints = {"submit", "status", "delete"}
    MaxStates = 1
    MaxDigests = 2
    MaxApprovals = 2
    MaxConfirms = 1
    MaxFaults = 1
INVARIANTS
    EvidenceIsTrue
PROPERTIES
    ImplementsService
    WorkCompletes
CHECK_DEADLOCK FALSE
