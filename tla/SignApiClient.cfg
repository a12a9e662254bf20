\* The three modes with the code's three attempts, and one other call of the process.
SPECIFICATION LiveSpec
CONSTANTS
    MaxAttempts = 3
    Callers = {me, other}
    Me = me
    TTL = 5
    EarlyRefresh = 3
    Timeout = 1
    MaxTime = 5
INVARIANTS
    TypeOK
    TakenAtMostOnce
    RefusalIsDefinite
    TokenLasts
PROPERTY CallReturns
CHECK_DEADLOCK FALSE
