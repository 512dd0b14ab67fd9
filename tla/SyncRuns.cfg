SPECIFICATION FairSpec
CONSTANTS
 Worker = w
 Requests = {q1, q2}
 ReplayCap = 1
 MaxRecorded = 2
 MaxHour = 1
 MaxConfig = 2
 MaxBegun = 2
INVARIANT NothingSkipped
INVARIANT LedgerIsTrue
PROPERTY CompletedStays
PROPERTY SyncsEnd
CHECK_DEADLOCK FALSE
