SPECIFICATION FairSpec
CONSTANTS
    Revokers = {r1}
    Deciders = {}
    Workers = {w1}
    Expansions = {e1}
    Lapsing = {e1}
    Syncers = {}
    RevokeChallenges = {rc1}
    DecideChallenges = {}
    CLIs = {}
    NoCLI = NoCLI
    Reasons = {k1}
    MaxEvents = 2
    MaxCrashes = 0
PROPERTY MissionEndEndsPass
