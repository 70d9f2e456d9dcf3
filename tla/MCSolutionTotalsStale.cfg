CONSTANTS
    Request = {r1}
    Amount = {1, 3}
    MaxItem = 2
    None = None
SPECIFICATION Spec
INVARIANT TotalMatchesLines
