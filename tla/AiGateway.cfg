SPECIFICATION FairSpec
CONSTANTS
    Tagger = {t1, t2}
    MaxRPM = 1
    MaxTPM = 2
    Estimates = {1, 2}
    MaxExtra = 1
    Caller = {c1, c2}
    Key = {k1}
    Threshold = 2
    MaxAttempts = 2
    MaxCost = 1
    TopUps = {2}
    Limit = {1}
    MaxBegun = 3
INVARIANT WindowBudget
INVARIANT OverdraftBounded
INVARIANT LimitOvershoot
INVARIANT KeyChargedOnce
PROPERTY QueuedIsReleased
PROPERTY RequestsEnd
CHECK_DEADLOCK FALSE
