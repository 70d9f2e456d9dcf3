CONSTANTS
    Product = {p1, p2}
    Request = {r1, r2}
    MaxRow = 2
    None = None
SPECIFICATION FairSpec
INVARIANTS
    TypeOK
    NoDanglingReference
    MergerNeverCollides
PROPERTIES
    KeepsContract
    LockIsReleased
