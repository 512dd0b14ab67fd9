SPECIFICATION Spec
CONSTANTS
    s1 = s1
    s2 = s2
    h1 = h1
    h2 = h2
    b1 = b1
    b2 = b2
    r1 = r1
    r2 = r2
    Sub = {s1, s2}
    Handler = {h1, h2}
    Buyer = {b1, b2}
    Reporter = {r1, r2}
    Skew = 0
    Turn = {"trialing", "paused"}
    Period = 1
    MaxNow = 1
    MaxPending = 3
    MaxBegun = 3
    MaxMinutes = 2
SYMMETRY MCSymmetry
INVARIANT ReportTypeOK
INVARIANT RowIsCurrent
INVARIANT GateFollowsStripe
INVARIANT OneCustomer
INVARIANT BilledOnce
CHECK_DEADLOCK FALSE
