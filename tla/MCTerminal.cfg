SPECIFICATION Spec
CONSTANTS
    Revokers = {}
    Deciders = {d1}
    Workers = {w1}
    Expansions = {e1}
    Lapsing = {e1}
    Syncers = {d1}
    RevokeChallenges = {}
    DecideChallenges = {dc1}
    CLIs = {}
    NoCLI = NoCLI
    Reasons = {k1}
    MaxEvents = 1
    MaxCrashes = 0
PROPERTY TerminalStaysTerminal
