SPECIFICATION Spec
CONSTANTS
    Revokers = {}
    Deciders = {d1, d2}
    Workers = {w1}
    Expansions = {e1, e2}
    Lapsing = {}
    Syncers = {d1}
    RevokeChallenges = {}
    DecideChallenges = {dc1, dc2}
    CLIs = {}
    NoCLI = NoCLI
    Reasons = {k1}
    MaxEvents = 1
    MaxCrashes = 0
SYMMETRY Symmetry
INVARIANT OneDecideCall
INVARIANT DecisionRecordedAsDecided
INVARIANT EndedPassAgrees
PROPERTY MissionVersionAdvances
