SPECIFICATION Spec
CONSTANTS
    Requests = {r1, r2, r3}
    Boots = {b1}
    Creds = {p1, p2}
    Missions = {m1}
    None = None
    MaxCodes = 2
    MaxSignCount = 1
SYMMETRY Symmetry
INVARIANT DisplayedKeyRecovers
CHECK_DEADLOCK FALSE
