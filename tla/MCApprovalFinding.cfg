SPECIFICATION Spec
CONSTANTS
    TaskId = {t1}
    Users = {root, guest}
    Admins = {root}
    Timeout = 1
    Reap = 1
    None = None
PROPERTY
    NoAckAfterVerdict
