------------------------------ MODULE SyncRuns ------------------------------
(***************************************************************************)
(* The sync engine of one call-recording integration: its configuration    *)
(* row, the ledger of integration runs with their idempotency keys, and    *)
(* the runs themselves, scheduled, manual, backfill and replay, page by    *)
(* page, any of which may overlap.                                         *)
(*                                                                         *)
(* src/integrations/sync-engine.ts      runs, paging, replay of failures   *)
(* src/api/integration-routes.ts        the requests that start them       *)
(* src/services/integration-config.ts   the configuration row              *)
(*                                                                         *)
(* Recordings are numbered in the order their calls started, and time is   *)
(* counted in calls started: lastSyncAt = n means that calls 1..n started  *)
(* before it.  The provider lists a recording some time after its call has *)
(* started, in any order, and hands out what is listed by starting time.   *)
(* A page holds one recording, a cursor is the number of the last one      *)
(* fetched, 0 is null.                                                     *)
(***************************************************************************)
EXTENDS Naturals, Sequences, FiniteSets

CONSTANTS
    Worker,         \* the sync queue's worker (concurrency 1)
    Requests,       \* background syncs started by API requests
    ReplayCap,      \* INTEGRATION_DEAD_LETTER_REPLAY_ATTEMPT_CAP
    MaxRecorded,    \* bound: calls started
    MaxHour,        \* bound: hour buckets
    MaxConfig,      \* bound: configurations created
    MaxBegun        \* bound: syncs, settings changes, crashes and hours

ASSUME SyncAssumption ==
    /\ Worker \notin Requests
    /\ ReplayCap \in Nat \ {0}
    /\ MaxRecorded \in Nat
    /\ MaxHour \in Nat
    /\ MaxConfig \in Nat \ {0}
    /\ MaxBegun \in Nat

VARIABLES
    recorded,   \* calls started so far
    listed,     \* recordings the provider lists
    stored,     \* recordings persisted as calls
    config,     \* the IntegrationConfig row; id 0 when there is none
    runs,       \* IntegrationRun rows, in creation order
    exec,       \* what each executor is doing
    hour,       \* the hour bucket of the clock
    begun,      \* syncs, settings changes, crashes and hours so far
    created,    \* configurations created so far
    missed,     \* history: recordings some run passed over
    orphans     \* history: runs whose executor went without ending them

vars == <<recorded, listed, stored, config, runs, exec, hour, begun, created,
          missed, orphans>>

Executors == Requests \cup {Worker}
Recording == 1..MaxRecorded
Mark == 0..MaxRecorded
RunTypes == {"SCHEDULED", "MANUAL", "BACKFILL", "REPLAY"}
Key == [type : RunTypes, config : 1..MaxConfig, n : 0..MaxHour + 1]
RunId == Nat \ {0}

ConfigTypes ==
    [id : 0..MaxConfig, enabled : BOOLEAN, lastSync : Mark, cursor : Mark,
     status : {"PENDING_SETUP", "ACTIVE", "ERROR", "DISABLED"}]

RunRows ==
    [key : Key, status : {"RUNNING", "COMPLETED", "FAILED"},
     config : 0..MaxConfig,
     source : {0} \cup RunId, attempt : 0..ReplayCap, by : Executors]

ExecTypes ==
    [pc : {"idle", "count", "find", "restart", "create", "fetch", "cursor",
           "complete", "finish", "fail", "error"},
     key : Key, config : 1..MaxConfig, from : Mark,
     source : {0} \cup RunId, attempt : 0..ReplayCap,
     run : {0} \cup RunId, more : BOOLEAN]

(***************************************************************************)
(* Types of the rows, of the executors and of the histories.               *)
(***************************************************************************)
TypeOK ==
    /\ recorded \in Mark
    /\ listed \subseteq 1..recorded
    /\ stored \subseteq listed
    /\ config \in ConfigTypes
    /\ runs \in Seq(RunRows)
    /\ exec \in [Executors -> ExecTypes]
    /\ \A e \in Executors : exec[e].run <= Len(runs)
    /\ hour \in 0..MaxHour
    /\ begun \in 0..MaxBegun
    /\ created \in 1..MaxConfig
    /\ missed \subseteq listed
    /\ orphans \subseteq Nat

Idle ==
    [pc |-> "idle", key |-> [type |-> "MANUAL", config |-> 1, n |-> 0],
     config |-> 1, from |-> 0, source |-> 0, attempt |-> 0,
     run |-> 0, more |-> FALSE]

NewConfig(id) ==
    [id |-> id, enabled |-> TRUE, lastSync |-> 0, cursor |-> 0,
     status |-> "PENDING_SETUP"]

Init ==
    /\ recorded = 0
    /\ listed = {}
    /\ stored = {}
    /\ config = [NewConfig(1) EXCEPT !.status = "ACTIVE"]
    /\ runs = <<>>
    /\ exec = [e \in Executors |-> Idle]
    /\ hour = 0
    /\ begun = 0
    /\ created = 1
    /\ missed = {}
    /\ orphans = {}

Count == begun < MaxBegun /\ begun' = begun + 1

-----------------------------------------------------------------------------
(***************************************************************************)
(* Beginning a run: the configuration is read once, here.                  *)
(***************************************************************************)
Start(e, pc, key, from, source) ==
    /\ exec[e].pc = "idle"
    /\ config.id # 0
    /\ Count
    /\ exec' = [exec EXCEPT ![e] =
                  [Idle EXCEPT !.pc = pc, !.key = key, !.config = config.id,
                               !.from = from, !.source = source]]

\* The run fetches what is past its cursor and past its start date.
Later(a, b) == IF a > b THEN a ELSE b
Position == Later(config.lastSync, config.cursor)

\* Key 0 is one of its own (it ends in Date.now()); others may be shared.
Own == 0
KeyOf(type, n) == [type |-> type, config |-> config.id, n |-> n]

\* syncAll: enabled integrations, errored ones too; the key names the hour.
Scheduled == config.enabled /\ config.status \in {"ACTIVE", "ERROR"}

BeginScheduled ==
    /\ Scheduled
    /\ Start(Worker, "find", KeyOf("SCHEDULED", hour + 1), Position, 0)
    /\ UNCHANGED <<recorded, listed, stored, config, runs, hour, created,
                   missed, orphans>>

\* POST /:provider/sync, with or without the caller's idempotency key.
BeginManual(e) ==
    /\ config.status = "ACTIVE"
    /\ \/ Start(e, "find", KeyOf("MANUAL", 1), Position, 0)
       \/ Start(e, "create", KeyOf("MANUAL", Own), Position, 0)
    /\ UNCHANGED <<recorded, listed, stored, config, runs, hour, created,
                   missed, orphans>>

\* POST /ops/backfills, in any status, from a start date and a cursor of the
\* caller, with or without the caller's idempotency key.
BeginBackfill(e, from) ==
    /\ \/ Start(e, "find", KeyOf("BACKFILL", 1), from, 0)
       \/ Start(e, "create", KeyOf("BACKFILL", Own), from, 0)
    /\ UNCHANGED <<recorded, listed, stored, config, runs, hour, created,
                   missed, orphans>>

\* A failed run whose configuration exists.  The age limit is left out: a
\* request it refuses changes nothing.
Replayable(i) == runs[i].status = "FAILED" /\ runs[i].config # 0

BeginReplay(e, i) ==
    /\ Replayable(i)
    /\ Start(e, "count", KeyOf("REPLAY", Own), Position, i)
    /\ UNCHANGED <<recorded, listed, stored, config, runs, hour, created,
                   missed, orphans>>

\* Replays of run i so far.
Replays(i) == Cardinality({j \in DOMAIN runs : runs[j].source = i})

CountReplays(e) ==
    /\ exec[e].pc = "count"
    /\ LET n == Replays(exec[e].source)
       IN exec' = [exec EXCEPT ![e] = IF n >= ReplayCap THEN Idle
                     ELSE [@ EXCEPT !.pc = "create", !.attempt = n + 1]]
    /\ UNCHANGED <<recorded, listed, stored, config, runs, hour, begun, created,
                   missed, orphans>>

-----------------------------------------------------------------------------
(***************************************************************************)
(* startIntegrationRun: one row per key.                                   *)
(***************************************************************************)
WithKey(k) == {i \in DOMAIN runs : k.n # Own /\ runs[i].key = k}

Running(x, i) == [x EXCEPT !.pc = "fetch", !.run = i, !.key = Idle.key,
                           !.source = 0, !.attempt = 0]

\* Fault: a completed key is run again.
SkippedWhileRunning(status) == status = "RUNNING"

Skipped(status) == status \in {"COMPLETED", "RUNNING"}

FindRun(e) ==
    /\ exec[e].pc = "find"
    /\ LET found == WithKey(exec[e].key)
       IN exec' = [exec EXCEPT ![e] =
            IF found = {} THEN [@ EXCEPT !.pc = "create"]
            ELSE LET i == CHOOSE i \in found : TRUE
                 IN IF Skipped(runs[i].status) THEN Idle
                    ELSE [@ EXCEPT !.pc = "restart", !.run = i]]
    /\ UNCHANGED <<recorded, listed, stored, config, runs, hour, begun, created,
                   missed, orphans>>

\* A backfill that starts passes over what it was told to leave behind it.
PassesOver(x) == IF x.key.type = "BACKFILL"
                 THEN {r \in listed : r <= x.from} \ stored ELSE {}

RestartRun(e) ==
    /\ exec[e].pc = "restart"
    /\ missed' = missed \cup PassesOver(exec[e])
    /\ runs' = [runs EXCEPT ![exec[e].run].status = "RUNNING"]
    /\ exec' = [exec EXCEPT ![e] = Running(@, @.run)]
    /\ UNCHANGED <<recorded, listed, stored, config, hour, begun, created,
                   orphans>>

\* The loop is over, one way or the other.
Ended(x, pc) == [x EXCEPT !.pc = pc, !.from = 0, !.more = FALSE]

\* Where a sync that failed goes: only the worker's records the error.
AfterError(e) ==
    IF e = Worker THEN [Idle EXCEPT !.pc = "error", !.config = exec[e].config]
    ELSE Idle

\* A key of its own is never looked up again.
Kept(k) == IF k.n = Own THEN Idle.key ELSE k

\* The insert fails when the key or the configuration is no longer good.
CreateRun(e) ==
    /\ exec[e].pc = "create"
    /\ IF WithKey(exec[e].key) = {} /\ config.id = exec[e].config
       THEN /\ runs' = Append(runs, [key |-> Kept(exec[e].key), status |-> "RUNNING",
                                     config |-> exec[e].config,
                                     source |-> exec[e].source,
                                     attempt |-> exec[e].attempt, by |-> e])
            /\ exec' = [exec EXCEPT ![e] = Running(@, Len(runs) + 1)]
            /\ missed' = missed \cup PassesOver(exec[e])
       ELSE /\ exec' = [exec EXCEPT ![e] = AfterError(e)]
            /\ UNCHANGED <<runs, missed>>
    /\ UNCHANGED <<recorded, listed, stored, config, hour, begun, created,
                   orphans>>

-----------------------------------------------------------------------------
(***************************************************************************)
(* syncCallRecordingProvider: fetch, persist, save the cursor, repeat.     *)
(***************************************************************************)
\* What is listed and started after the run's lower bound and its cursor.
Ahead(x) == {r \in listed : r > x.from}

\* The provider's cursor for the page after this one; null ends the loop.
\* Fault: the cursor points past the next page.
NextCursorAhead(page, more) == IF more THEN page + 1 ELSE 0

NextCursor(page, more) == IF more THEN page ELSE 0

\* A page is fetched, with retries, and its recording persisted, before the
\* run touches any row that another run reads.
FetchPage(e) ==
    /\ exec[e].pc = "fetch"
    /\ LET left == Ahead(exec[e])
           next == {r \in left : \A q \in left : r <= q}
           page == IF next = {} THEN 0 ELSE CHOOSE r \in next : TRUE
           more == left # next
       IN /\ stored' = stored \cup next
          /\ exec' = [exec EXCEPT ![e] =
                [@ EXCEPT !.pc = "cursor", !.more = more,
                          !.from = NextCursor(page, more)]]
    /\ UNCHANGED <<recorded, listed, config, runs, hour, begun, created,
                   missed, orphans>>

\* Fault: the loop goes on after the last page.
AlwaysNext(x) == [x EXCEPT !.pc = "fetch", !.more = FALSE]

NextPage(x) ==
    [x EXCEPT !.pc = IF x.more THEN "fetch" ELSE "complete", !.more = FALSE]

SaveCursor(e) ==
    /\ exec[e].pc = "cursor"
    /\ IF config.id = exec[e].config
       THEN /\ exec' = [exec EXCEPT ![e] = NextPage(@)]
            /\ config' = [config EXCEPT !.cursor = exec[e].from]
       ELSE /\ exec' = [exec EXCEPT ![e] = Ended(@, "fail")]
            /\ UNCHANGED config
    /\ UNCHANGED <<recorded, listed, stored, runs, hour, begun, created,
                   missed, orphans>>

\* "Mark sync complete": lastSyncAt is the time of this write.
Synced(c) == [c EXCEPT !.lastSync = recorded, !.cursor = 0, !.status = "ACTIVE"]

Complete(e) ==
    /\ exec[e].pc = "complete"
    /\ IF config.id = exec[e].config
       THEN /\ config' = Synced(config)
            /\ exec' = [exec EXCEPT ![e] = Ended(@, "finish")]
       ELSE /\ exec' = [exec EXCEPT ![e] = Ended(@, "fail")]
            /\ UNCHANGED config
    /\ UNCHANGED <<recorded, listed, stored, runs, hour, begun,
                   created, missed, orphans>>

SetStatus(e, status) ==
    runs' = [runs EXCEPT ![exec[e].run].status = status]

Finish(e) ==
    /\ exec[e].pc = "finish"
    /\ SetStatus(e, "COMPLETED")
    /\ exec' = [exec EXCEPT ![e] = Idle]
    /\ UNCHANGED <<recorded, listed, stored, config, hour, begun,
                   created, missed, orphans>>

\* Fault: an error of the page loop escapes the catch.
ThrowUncaught(e) ==
    /\ exec[e].pc \in {"fetch", "cursor", "complete", "finish"}
    /\ exec' = [exec EXCEPT ![e] = AfterError(e)]
    /\ UNCHANGED <<recorded, listed, stored, config, runs, hour, begun,
                   created, missed, orphans>>

\* Any statement of the try may throw: its catch marks the run FAILED.
Throw(e) ==
    /\ exec[e].pc \in {"fetch", "cursor", "complete", "finish"}
    /\ exec' = [exec EXCEPT ![e] = Ended(@, "fail")]
    /\ UNCHANGED <<recorded, listed, stored, config, runs, hour, begun,
                   created, missed, orphans>>

\* So may the statements outside it, before it and in the two catches.  If
\* the catch cannot mark the run FAILED, the run stays RUNNING.
ThrowOutside(e) ==
    /\ exec[e].pc \in {"count", "find", "restart", "create", "fail", "error"}
    /\ exec' = [exec EXCEPT ![e] = IF @.pc = "error" THEN Idle ELSE AfterError(e)]
    /\ orphans' = IF exec[e].pc = "fail" THEN orphans \cup {exec[e].run}
                  ELSE orphans
    /\ UNCHANGED <<recorded, listed, stored, config, runs, hour, begun,
                   created, missed>>

Fail(e) ==
    /\ exec[e].pc = "fail"
    /\ SetStatus(e, "FAILED")
    /\ exec' = [exec EXCEPT ![e] = AfterError(e)]
    /\ UNCHANGED <<recorded, listed, stored, config, hour, begun,
                   created, missed, orphans>>

\* syncAll's catch; for a deleted integration this throws as well.
RecordError ==
    /\ exec[Worker].pc = "error"
    /\ config' = IF config.id = exec[Worker].config
                 THEN [config EXCEPT !.status = "ERROR"] ELSE config
    /\ exec' = [exec EXCEPT ![Worker] = Idle]
    /\ UNCHANGED <<recorded, listed, stored, runs, hour, begun,
                   created, missed, orphans>>

\* The process dies: nothing resumes its runs.
Crash ==
    /\ \E e \in Executors : exec[e].pc # "idle"
    /\ Count
    /\ exec' = [e \in Executors |-> Idle]
    /\ orphans' = orphans \cup ({exec[e].run : e \in Executors} \ {0})
    /\ UNCHANGED <<recorded, listed, stored, config, runs, hour,
                   created, missed>>

-----------------------------------------------------------------------------
(***************************************************************************)
(* The provider, the clock and the settings.                               *)
(***************************************************************************)

\* The executor has fetched its last page and will set lastSyncAt.
LastFetched(x) ==
    \/ x.pc = "cursor" /\ ~x.more
    \/ x.pc = "complete"

\* A position of the configuration, or of a run of it, lies behind r.
Passed(r) ==
    \/ r <= config.lastSync \/ r <= config.cursor
    \/ \E e \in Executors :
          /\ exec[e].config = config.id
          /\ \/ exec[e].key.type # "BACKFILL" /\ r <= exec[e].from
             \/ LastFetched(exec[e])

StartCall ==
    /\ recorded < MaxRecorded
    /\ recorded' = recorded + 1
    /\ UNCHANGED <<listed, stored, config, runs, exec, hour, begun, created,
                   missed, orphans>>

\* The provider lists the recording of a call that has started.
Record(r) ==
    /\ r \notin listed
    /\ listed' = listed \cup {r}
    /\ missed' = IF Passed(r) THEN missed \cup {r} ELSE missed
    /\ UNCHANGED <<recorded, stored, config, runs, exec, hour, begun, created,
                   orphans>>

NextHour ==
    /\ hour < MaxHour
    /\ Count
    /\ hour' = hour + 1
    /\ UNCHANGED <<recorded, listed, stored, config, runs, exec,
                   created, missed, orphans>>

\* PATCH: disabling sets the status, enabling does not.
SetEnabled(on) ==
    /\ config.id # 0
    /\ config.enabled # on
    /\ Count
    /\ config' = [config EXCEPT !.enabled = on,
                                !.status = IF on THEN @ ELSE "DISABLED"]
    /\ UNCHANGED <<recorded, listed, stored, runs, exec, hour,
                   created, missed, orphans>>

\* POST test: the credentials are valid or not.
TestCredentials(valid) ==
    /\ config.id # 0
    /\ Count
    /\ config' = [config EXCEPT !.status = IF valid THEN "ACTIVE" ELSE "ERROR"]
    /\ UNCHANGED <<recorded, listed, stored, runs, exec, hour,
                   created, missed, orphans>>

\* DELETE: the ledger keeps the rows and forgets the configuration.
DeleteConfig ==
    /\ config.id # 0
    /\ Count
    /\ config' = [NewConfig(0) EXCEPT !.enabled = FALSE]
    /\ runs' = [i \in DOMAIN runs |-> [runs[i] EXCEPT !.config = 0]]
    /\ UNCHANGED <<recorded, listed, stored, exec, hour,
                   created, missed, orphans>>

CreateConfig ==
    /\ config.id = 0
    /\ created < MaxConfig
    /\ Count
    /\ created' = created + 1
    /\ config' = NewConfig(created + 1)
    /\ UNCHANGED <<recorded, listed, stored, runs, exec, hour, missed, orphans>>

RunStep(e) ==
    \/ CountReplays(e) \/ FindRun(e) \/ RestartRun(e) \/ CreateRun(e)
    \/ FetchPage(e) \/ SaveCursor(e) \/ Complete(e) \/ Finish(e)
    \/ Fail(e)
    \/ e = Worker /\ RecordError

Next ==
    \/ BeginScheduled
    \/ \E e \in Requests :
        \/ BeginManual(e)
        \/ \E from \in 0..recorded : BeginBackfill(e, from)
        \/ \E i \in DOMAIN runs : BeginReplay(e, i)
    \/ \E e \in Executors : RunStep(e) \/ Throw(e) \/ ThrowOutside(e)
    \/ \E r \in 1..recorded : Record(r)
    \/ Crash \/ StartCall \/ NextHour
    \/ \E b \in BOOLEAN : SetEnabled(b) \/ TestCredentials(b)
    \/ DeleteConfig \/ CreateConfig

Spec == Init /\ [][Next]_vars

(***************************************************************************)
(* A promise that is pending is eventually resumed: no step of a run waits *)
(* for anything but the database and the provider, whose calls end.        *)
(***************************************************************************)
FairSpec == Spec /\ \A e \in Executors : WF_vars(RunStep(e))

-----------------------------------------------------------------------------
(***************************************************************************)
(* No recording is lost to paging, resuming, failing or overlapping runs:  *)
(* what started before lastSyncAt, or lies before the saved cursor, is     *)
(* stored.  Three windows remain, and missed names what falls into them:   *)
(* a call that is listed only after lastSyncAt or a cursor has passed its  *)
(* start, one listed between a run's last fetch and the lastSyncAt it      *)
(* writes afterwards, and what a backfill's own start date passes over.    *)
(***************************************************************************)
NothingSkipped ==
    \A r \in listed :
        r <= config.lastSync \/ r <= config.cursor => r \in stored \cup missed

(***************************************************************************)
(* The replay cap: the attempts of one failed run are numbered 1..cap, and *)
(* two replays share a number only when their requests overlapped, so the  *)
(* cap is exceeded by concurrent requests only.                            *)
(***************************************************************************)
ReplaysNumbered ==
    \A i, j \in DOMAIN runs :
        /\ runs[i].source # 0 => runs[i].attempt >= 1
        /\ i # j /\ runs[i].source # 0 /\ runs[i].source = runs[j].source
              /\ runs[i].attempt = runs[j].attempt
           => runs[i].by # runs[j].by

(***************************************************************************)
(* A run that is RUNNING is being executed, unless its process died or the *)
(* catch of its sync could not write FAILED: no other path leaves the row  *)
(* of an hour or of a caller's key blocked.                                *)
(***************************************************************************)
RunningIsExecuted ==
    \A i \in DOMAIN runs : runs[i].status = "RUNNING" =>
        i \in orphans \/ \E e \in Executors : exec[e].run = i

(***************************************************************************)
(* The ledger of runs is true: replays are numbered, and no key is blocked *)
(* by a run nobody executes, but for a crash and a failed catch.           *)
(***************************************************************************)
LedgerIsTrue == ReplaysNumbered /\ RunningIsExecuted

(***************************************************************************)
(* Idempotency: a key that completed is not run again; only an executor    *)
(* that had already taken the row may still change it.                     *)
(***************************************************************************)
CompletedStays ==
    [][\A i \in DOMAIN runs :
        runs[i].status = "COMPLETED" /\ (\A e \in Executors : exec[e].run # i)
            => runs'[i].status = "COMPLETED" /\ \A e \in Executors : exec'[e].run # i]_vars

(***************************************************************************)
(* Every sync ends: the page loop stops at the provider's null cursor.     *)
(***************************************************************************)
SyncsEnd == \A e \in Executors : exec[e].pc # "idle" ~> exec[e].pc = "idle"
=============================================================================
