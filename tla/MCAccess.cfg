SPECIFICATION AccessSpec
CHECK_DEADLOCK FALSE
CONSTANTS
    None = None
    Nothing = Nothing
    Request = {r1, r2, r3, r4}
    Secret = {old, new}
    Reader = {q1, q2}
    TTL = 2
    Patience = 1
    LastInstant = 8
    MaxVersion = 1
    Thread = {h1, h2}
    Ip = {a}
    Name = {n}
    Limit = 1
    Window = 2
    LastMoment = 3
    Horizon = 3
    Stream = {s1, s2}
    Account = {u1, u2}
    MarkTTL = 1
INVARIANTS
    TypesOK
    ServedIsRecent
    AttemptsBounded
PROPERTIES
    FreshTokenAccepted
    RevokesAllIssued
    RevokedStaysRevoked
    RefusalIsEarned
    StopIsBooked
