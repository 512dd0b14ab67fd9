SPECIFICATION FairSpec
CONSTANTS
    Pages = {p1}
    Named = {}
    Requests = {r1, r2}
    Kinds <- ConcurrentKinds
    Scheduler = scheduler
    MaxText = 1
    MaxBegun = 3
    Policies = {"ALL_NO_APPROVAL"}
INVARIANT NewestVersionActive
INVARIANT ActiveTogetherOverlapped
PROPERTY RequestsEnd
PROPERTY ScheduledSettles
