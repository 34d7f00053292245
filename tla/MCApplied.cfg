SPECIFICATION FairSpec
CONSTANTS
    Handlers = {h1, h2}
    Challenges = {c1, c2}
    MaxLimit = 1
    MaxRevision = 1
    MaxCrashes = 1
    None = None
PROPERTY AppliedApprovalReconciles
CHECK_DEADLOCK FALSE
