SPECIFICATION FairSpec
CONSTANTS
    Jobs = {j1, j3}
    Calls = {c1, c2}
    CallOf <- MCCallOf
    c1 = c1
    c2 = c2
    j1 = j1
    j2 = j2
    j3 = j3
    Runs = {r1, r2}
    Limit = 1
    Cap = 3
    MaxAttempts = 2
INVARIANT AttemptsBounded
PROPERTY JobsComeToRest
