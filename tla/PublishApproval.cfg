SPECIFICATION Spec
CONSTANTS
 Clients = {u1}
 Callers = {a1}
 MaxText = 3
 MaxStamp = 4
 Handlers = {h1,h2}
 MaxBegun = 4
INVARIANT TextIsKept
INVARIANT ApprovedHasVersion
INVARIANT PendingIsShown
PROPERTY SavesAreAtomic
PROPERTY NoBlindOverwrite
PROPERTY DecisionStands
SYMMETRY Symmetric
CHECK_DEADLOCK FALSE
