SPECIFICATION Spec
CONSTANTS
    Pages = {p1, p2}
    Named = {p2}
    Requests = {r1}
    Kinds <- LifecycleKinds
    Scheduler = scheduler
    MaxText = 1
    MaxBegun = 4
    Policies = {"ALL_NO_APPROVAL", "ANON_NO_APPROVAL"}
INVARIANT PublicBodyIsScrubbed
INVARIANT PublishedHasVersion
