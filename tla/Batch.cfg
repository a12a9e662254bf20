\* Every batch of one or two documents under every flow, with a validate or archive request.
SPECIFICATION Spec
CONSTANTS
    Flows = {"webEid", "eparakstsMobile", "eparakstsMobileEseal", "eidScan", "cscEidScan"}
    OfferedFlows = {"webEid", "eparakstsMobile", "eparakstsMobileEseal", "eidScan", "cscEidScan"}
    TSAAccessFlows = {}
    NoJob = NoJob
    DocumentIds = {a, b}
    MaxDocuments = 2
    MaxSessions = 2
    IdentityLists <- Lists
INVARIANTS
    TypeOK
    RightSignature
    AcceptedIsComplete
    NeverAskedInVain
    SessionsOwned
    ReadyKeepsSessions
    IdentitiesFit
CHECK_DEADLOCK FALSE
