SPECIFICATION Spec
CONSTANTS
    Account = {1, 2, 3}
    Domain = {1, 2}
    Call = {1}
    CallDomain <- MCCallDomain
    CrmKnown = 0
    Handler = {h1, h2}
    MaxBegun = 4
INVARIANT TypeOK
INVARIANT UnlinkedIsQueued
INVARIANT UndoIsExact
INVARIANT ApprovedMeansMerged
SYMMETRY Symmetry
CHECK_DEADLOCK FALSE
