----------------------------- MODULE MCSyncRuns -----------------------------
EXTENDS SyncRuns
=============================================================================
