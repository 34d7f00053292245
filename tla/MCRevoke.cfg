SPECIFICATION Spec
CONSTANTS
    Revokers = {r1, r2}
    Deciders = {}
    Workers = {w1}
    Expansions = {}
    Lapsing = {}
    Syncers = {}
    RevokeChallenges = {rc1, rc2}
    DecideChallenges = {}
    CLIs = {i1}
    NoCLI = NoCLI
    Reasons = {k1}
    MaxEvents = 1
    MaxCrashes = 1
SYMMETRY Symmetry
INVARIANT TypeOK
INVARIANT OneRevokeCall
INVARIANT ContainmentHonest
INVARIANT RevokedMeansUpstream
PROPERTY FollowsLifecycle
INVARIANT CLIReportsTruth
