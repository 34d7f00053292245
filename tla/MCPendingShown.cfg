SPECIFICATION ListingSpec
CONSTANTS
    Revokers = {}
    Deciders = {d1}
    Workers = {}
    Expansions = {e1, e2}
    Lapsing = {e1, e2}
    Syncers = {d1}
    RevokeChallenges = {}
    DecideChallenges = {dc1}
    CLIs = {}
    NoCLI = NoCLI
    Reasons = {k1}
    MaxEvents = 1
    MaxCrashes = 0
PROPERTY PendingIsShown
