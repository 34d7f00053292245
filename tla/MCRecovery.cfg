SPECIFICATION Spec
CONSTANTS
    Requests = {r1, r2, r3}
    Boots = {b1, b2}
    Creds = {p1, p2}
    Missions = {m1}
    None = None
    MaxCodes = 3
    MaxSignCount = 1
SYMMETRY Symmetry
CONSTRAINT LeftOversEnd
INVARIANTS TypeOK OneFounder IndependentRecovery NothingSurvivesRecovery ContainedBeforeReset
PROPERTY CounterAdvances
CHECK_DEADLOCK FALSE
