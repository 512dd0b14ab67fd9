SPECIFICATION FairSpec
CONSTANTS
    Calls = {c1}
    WithEmail = {}
    Handlers = {h1}
    Backfillers = {}
    Workers = {w1}
    Events = {recordingReady, transcriptReady}
    Producers = {"gong"}
    Accounts = {a1}
    NoAccount = noAccount
    MaxVersion = 1
    ChunkCount <- MCChunkCount
    MaxDeliveries = 2
    MaxAttempts = 2
PROPERTY FirstTranscriptTagged
