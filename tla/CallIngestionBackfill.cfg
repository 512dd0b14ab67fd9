SPECIFICATION Spec
CONSTANTS
    Calls = {c1}
    WithEmail = {c1}
    Handlers = {h1}
    Backfillers = {b1, b2}
    Workers = {w1, w2}
    Events = {e1}
    Producers = {"merge", "backfill"}
    Accounts = {a1}
    NoAccount = noAccount
    MaxVersion = 2
    ChunkCount <- MCChunkCount
    MaxDeliveries = 2
    MaxAttempts = 1
INVARIANT UntaggedChunkHasOpenJob
INVARIANT SyncDoneMeansQueued
INVARIANT CompletedJobIsIndexed
SYMMETRY Symmetric
