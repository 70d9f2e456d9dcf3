SPECIFICATION FairSpec
CONSTANTS
    TaskId = {t1, t2}
    Users = {root, guest}
    Admins = {root}
    Timeout = 2
    Reap = 1
    None = None
INVARIANTS
    TypeOK
    DeliveredIsLastAcked
    PendingIsUnanswered
PROPERTIES
    KeepsContract
    WaitEnds
    QueueDrains
