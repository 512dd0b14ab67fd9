SPECIFICATION FairSpec
CONSTANTS
    Calls = {c1}
    WithEmail = {c1}
    Handlers = {h1, h2}
    Backfillers = {}
    Workers = {w1}
    Events = {e1}
    Producers = {"gong", "sync"}
    Accounts = {a1}
    NoAccount = noAccount
    MaxVersion = 1
    ChunkCount <- MCChunkCount
    MaxDeliveries = 2
    MaxAttempts = 2
INVARIANT StoredTranscriptHasJob
PROPERTY TimelyTranscriptTagged
PROPERTY JobsSettle
