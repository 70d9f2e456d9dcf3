CONSTANTS
    Product = {p1}
    Request = {r1, r2}
    MaxRow = 1
    None = None
SPECIFICATION Spec
INVARIANT CollisionIsAnswered409
