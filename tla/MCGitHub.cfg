SPECIFICATION Spec
CONSTANTS
    Requests = {r1, r2}
    Handoffs = {h1, h2}
    Keys = {k1, k2, k3}
    Codes = {c1, c2}
    Sessions = {s1}
    Earlier = {b0}
    None = None
    MaxCachedCodes = 1
    MaxCrashes = 1
SYMMETRY Symmetry
INVARIANTS TypeOK OneHandoffPerInstallation FirstCodeOrNone BoundByRecordedCode SettledAsBound
CHECK_DEADLOCK FALSE
