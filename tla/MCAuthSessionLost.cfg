CONSTANTS
    Request = {r1, r2, r3, r4}
    Secret = {old}
    None = None
SPECIFICATION Spec
PROPERTY RevokedStaysRevoked
