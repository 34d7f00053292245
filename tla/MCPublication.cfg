SPECIFICATION FairSpec
CONSTANTS
    Passes = {p1, p2}
    NoPass = NoPass
    MaxRestarts = 1
INVARIANT TypeOK
INVARIANT CheckIsAccountedFor
INVARIANT OneCheckPerReceipt
PROPERTY PublicationSettles
