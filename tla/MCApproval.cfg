SPECIFICATION Spec
CONSTANTS
    Handlers = {h1, h2}
    Challenges = {c1, c2}
    MaxLimit = 3
    MaxRevision = 2
    MaxCrashes = 1
    None = None
SYMMETRY Symmetry
INVARIANTS TypeOK ApprovedAsReviewed SettledTogether KeyMeansOneProposal RowHoldsUpstreamProposal
PROPERTIES ApprovalIsFinal RevisionsNarrow
CHECK_DEADLOCK FALSE
