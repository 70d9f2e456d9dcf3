SPECIFICATION ChatSpec
CHECK_DEADLOCK FALSE
CONSTANTS
    Turn = {t1, t2}
    Window = 4
    MaxCalls = 2
    MaxConv = 1
    Nothing = Nothing
INVARIANT ReplayIsValid
