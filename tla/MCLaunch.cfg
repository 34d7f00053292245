SPECIFICATION Spec
CONSTANTS
    Authorizations = {a1, a2}
    Ceremonies = {c1, c2, c3}
    Exchanges = {x1, x2}
    MaxRevision = 3
    MaxCrashes = 1
    None = None
SYMMETRY Symmetry
INVARIANTS TypeOK OnePrepareCall LaunchedByOneCode OriginalResult
PROPERTY LaunchFollowsLifecycle
CHECK_DEADLOCK FALSE
