# StoryEngine: TLA+ models, TLC runs and TLAPS proofs

StoryEngine turns recorded sales calls into stories and publishes them as
landing pages. Recordings arrive from Merge.dev, Gong, Grain or a polling sync;
a BullMQ worker chunks, tags and indexes their transcripts; stories are written
from them, edited, approved and published, anonymous pages with the company's
name scrubbed. All state is in PostgreSQL (through Prisma), Redis (queues,
idempotency keys) and an external vector index; several web and worker
processes run at once, and hardly any operation is one database transaction.
What is hard to test is therefore the same everywhere: two handlers between
each other's statements, a retry over half-written rows, a decision taken from
a row that has changed since.

Paths below are relative to the repository root (`src/` of this checkout).

## 1. Inventory

### Ingestion and processing

| part | state | operations | talks to |
|---|---|---|---|
| Webhooks (`src/webhooks/*.ts`, `src/lib/webhook-idempotency.ts`) | Call, CallParticipant, Transcript rows; 5-minute idempotency keys | receive, deduplicate, upsert the call, resolve the account, store the transcript, enqueue | Gong/Grain APIs, entity resolver, call-processing queue |
| Merge backfill (`src/services/merge-api-client.ts`) | LinkedAccount.status, initialSyncDone | initial sync, polling of recordings and CRM objects | the same rows and queue |
| Sync engine (`src/integrations/sync-engine*.ts`) | IntegrationRun, IntegrationConfig.syncCursor and lastSyncAt | scheduled, manual, backfill and replay runs | the same rows and queue |
| Queue and worker (`src/queues.ts`, `src/lib/queue-policy.ts`, `src/services/transcript-processor.ts`, `ai-tagger.ts`, `rag-engine.ts`) | jobs; TranscriptChunk, ChunkTag rows; vectors | take, chunk, tag, index, retry, stall | OpenAI, vector index |
| Dead-letter replay (`src/services/call-processing-dead-letter-replay.ts`) | the failed set, attemptsMade | cron: snapshot, check, retry | call-processing queue |
| Entity resolution, review queue, account merge (`src/services/entity-resolution*.ts`, `account-merge.ts`) | Account, AccountDomain, Contact, AccountMergeRun | resolve, assign by hand, merge, undo, merge requests | calls, stories |

Correct means: a stored transcript is not forgotten; every chunk ends up with
the tags of its text; a job never runs for a call in two workers by accident;
jobs come to rest; replays are bounded; a finished synchronisation covered
everything.

### Stories and publishing

| part | state | operations | talks to |
|---|---|---|---|
| Page editor (`src/services/landing-page-editor*.ts`, `src/api/landing-page/*.ts`) | LandingPage (texts, scrubbed texts, status), LandingPageEdit, PublishedArtifactVersion, Story.publishedAt | create, edit, publish, archive, unpublish, delete, roll back | scrubber, scheduled queue, outbound webhooks |
| Scheduled publishing (`src/services/scheduled-page-publish.ts`) | one delayed job per page | schedule, cancel, fire, retry once | page editor |
| Approvals (`src/services/landing-page-approval.ts`, `publish-approval-policy.ts`) | ApprovalRequest and its JSON payload, approval policy | request, review by step, approve, reject | page editor |
| Story builder, quotes, weekly regeneration (`src/services/story-builder.ts`, ...) | Story, Quote | generate, store | AI clients |

Correct means: an anonymous page never shows unscrubbed text; what is published
has a version, and the version history has the expected ACTIVE rows; nothing is
published past the approval policy; requests do not wait for each other for
ever; a scheduled publish is carried out or given up.

### AI, billing and administration

| part | state | what can go wrong |
|---|---|---|
| AI gateway (`src/services/ai-resilience.ts`, `rate-limiter.ts`, `tracked-ai-client.ts`, `ai-usage-*.ts`) | circuit state, token window and queue, usage rows, balances | check before and deduct after the call, waiting behind a request that never fits |
| Billing (`src/middleware/billing.ts`, `src/services/usage-reporter.ts`) | Subscription, Organization.plan, UsageRecord | events out of order, a report repeated |
| Retention (`src/services/data-retention.ts`) | all rows older than the policy allows | a sweep beside a running worker |
| Authentication, permissions, SCIM, setup, dashboards, exports, notifications | single rows | one statement or a read per request |
| Frontend | none on the server | its requests are the inputs of the handlers |

`PROJECT.json` lists every part with its sources and status, and every hazard at
its line with the properties that would catch it.

## 2. What is modelled

Modules and how they hang together (`A <- B` reads "B extends A"):

    CallIngestion     <- CallIngestionProofs, MCCallIngestion
    DeadLetterReplay  <- DeadLetterReplayProofs, MCDeadLetterReplay
    LandingPage       <- LandingPageProofs, MCLandingPage
    PageEditing       <- PublishApproval <- PublishApprovalProofs, MCPublishApproval
      implements EditRegister (INSTANCE ... WITH)
    SyncRuns          <- SyncRunsProofs, MCSyncRuns
    AccountData       <- AccountDataProofs, MCAccountData
    TokenLimiter      <- AiGateway <- AiGatewayProofs, MCAiGateway
    Billing           <- UsageReport <- UsageReportProofs, MCUsageReport

One database statement, Redis command or transaction commit is one step; local
variables of a handler between two awaits are fields of a process record. Each
module's head comment lists what its data stands for. Operators marked "Fault"
are deliberate mistakes, kept beside the definition they alter: each shows that
one property can fail (`PROJECT.json`, "mutants").

### CallIngestion

Five kinds of producers, the queue, the workers.

| variable | code |
|---|---|
| `marks` | Redis keys `webhook:idempotency:...`; expiry is an action |
| `linked`, `synced`, `todo` | LinkedAccount.status, initialSyncDone, the recordings each running backfill has still to take |
| `calls`, `parts`, `account`, `transcript` | Call rows, participants with an e-mail, Call.accountId, Transcript.fullText |
| `chunks`, `tags`, `vectors` | TranscriptChunk.text, ChunkTag rows, the vector's text and account |
| `proc`, `worker` | where a producer or worker is, with its locals |
| `job` | BullMQ's state of a job: `<<c, 0>>` is the id `process-call:c`, `<<c, n>>` a generated one |

Texts are version numbers, so that "tags of an old text" can be told from "tags
of this text". `ReceiveMerge`, `ReceiveDirect`, `BeginSync` and `ConnectAccount`
start producers; `UpsertCall` ... `Enqueue` are their statements, shared where
the code of the producers agrees; `FailProducer` is an error or a crash at any
statement. A reconnected account starts a backfill beside one that still runs
(`Backfillers`). `TakeJob` ... `IndexChunk` are processCall; `FailJob` is an
exception with its retry, `StallJob` the death of the worker process.

`dropped` is a history variable: calls one of whose producer runs failed. The
webhooks answer 200 also when they fail and keep their idempotency key, so such
a call may really be left half-ingested. The properties say what holds for the
others; none of them would report that loss.

External parts, modelled from how they are used: BullMQ ignores an `add` whose
id is taken by a kept job; it hands a stalled job out once more. The installed
BullMQ may refuse custom ids with a colon in them; the model assumes they are
accepted, as the code does.

### DeadLetterReplay

The failed set newest first, the attempts, and any number of overlapping replay
runs, each with the snapshot it took (`batch`), its loop index and the calls it
has seen. `retry()` keeps attemptsMade and works only on a failed job. The
runbook also names a manual endpoint,
`POST /api/admin/queues/call-processing/dead-letter/replay`; no route in the
repository has that path, so the cron is the only caller here.

### LandingPage

Pages of one story with their version rows, requests and the scheduled worker.
A process record keeps what publish has read and, inside a transaction, the rows
it selected (`snap`) and locked (`locked`). Transactions run at READ COMMITTED,
PostgreSQL's default, which nothing in the repository changes: an `updateMany`
picks its rows from a snapshot, waits for locks, and skips rows that changed.
The insert of a version takes a key-share lock on its page row, through the
foreign key. The page updates of the other handlers do not conflict with it; the
deletion does: `LockPage` locks the page row, `DeletePage` is its cascade, which
waits for locked version rows, and a version transaction that holds such rows
waits for the deletion at its insert (`KeyFree`). PostgreSQL ends this deadlock
by failing one of the two (`Crossed`, and the fairness of `FailOp` under it).
Scrubbing is
assumed to be enabled for the organization (the default). Story.publishedAt is
modelled (`story`), and no property speaks of it: the code makes no promise that
survives the race its hazard entry describes.

### PageEditing, EditRegister, PublishApproval

The text of one page, who edits it and who publishes it.

| variable | code |
|---|---|
| `page` | LandingPage.editableBody, updatedAt (a number that grows with each write), publishedAt set or not, status |
| `ed` | the state of `LandingPageEditorPage.tsx`: the text, the version it was loaded at, the unsaved flag, what the autosave timer's closure captured, the conflict banner |
| `req` | PATCH requests in progress: one manual and one autosave per tab, one per API client |
| `edits` | LandingPageEdit rows |
| `approval`, `versions`, `required` | ApprovalRequest rows, PublishedArtifactVersion rows, the approval policy |
| `op` | what a publish or review handler is about to do |

`Open`, `Type`, `SaveDraft`, `Autosave`, `LoadLatest` and `Overwrite` are what the
user or the timer does in a tab; `ReadExisting`, `WriteBody` or `WriteMissed`,
`ReadStamp`, `LogEdit` are the statements of the handler, `ReadLatest` and
`AnswerConflict` its 409 branch. The tab changes with the last statement of a
request, so two answers may come in any order. `BeginPublish` ...
`MarkApproved` are the publish route and both review routes; `Rollback`,
`Unpublish`, `Archive`, `View` and `SetPolicy` are the other writers.
`ContentQueue` is the lifecycle stage computed from publishedAt and the newest
request.

EditRegister is what saving promises: a register that a save replaces in one
step, and a save that names a stamp only while the register carries it.
PageEditing implements it with `body <- page.body`, `stamp <- page.stamp`,
`log <- accepted`, where `accepted` is a history of the saves the row took, with
the text each had read. The read, the conditional write and the later
statements are separate steps of several requests; the refinement says that
they look like one.

Approval requests are created with an empty list of steps, so one approval is
enough, and the chain logic of `landing-page-approval.ts` is never reached.

### SyncRuns

One call-recording integration: `config` is its IntegrationConfig row (or its
absence), `runs` the ledger with idempotency keys, `exec` what the queue's
worker and the background syncs of API requests are doing. Recordings are
numbered in the order their calls started, and time is counted in calls started,
because the providers list by starting time: `lastSyncAt = n` says that calls
1..n had started. A recording is listed some time after its call has started
(`StartCall`, then `Record`), in any order.
`BeginScheduled`, `BeginManual`, `BeginBackfill`, `BeginReplay` start a run;
`CountReplays`, `FindRun`, `RestartRun`, `CreateRun`, `FetchPage`, `SaveCursor`,
`Complete`, `Finish` are its statements, `Fail` an error at any of them,
`Crash` the death of the process. Enabling, testing credentials, deletion and
creation of the configuration run beside them. `missed` names the recordings a
run passed over (see `NothingSkipped`); `orphans` the runs whose executor went
without ending them: its process died, or the write of FAILED in the catch
failed (`Throw`).

### AccountData

Accounts, alias domains, calls, merge runs and one merge request of an
organisation, with any number of handlers that resolve calls automatically
(`BeginAuto`, `LinkAuto`, `UseHint`, `LinkByHint`) or by hand (`BeginResolve`,
`LinkManually`, `AddAlias`, `Dismiss`, `CreateFromCall`), merge (`BeginMerge` and
the review queue's `BeginLegacyMerge`), undo (`BeginUndo`), request and review a
merge (`RequestMerge`, `ReviewApprove`, `ReviewReject`, `Finalize`), beside CRM
syncs (`SyncCrmAccount`, `PollAccount`, `UpdateDomain`). A merge is one
transaction, but at READ COMMITTED each of its statements sees what others have
committed meanwhile, so it is several steps: it reads the ids of the calls
(`ReadCalls`), its update looks for the calls to move (`BeginUpdate`), waits for
their row locks and moves them (`TakeCalls`), and the delete commits
(`CommitMerge`). An undo reads the status of the run before its transaction, moves
in the same two steps and writes UNDONE without a guard (`CommitUndo`), so two
undos of one merge may overlap. `Locked` and `Closing` are the row locks. Foreign
keys (ON DELETE SET NULL) and unique indexes are modelled, since they decide
outcomes. CRM ids are one value; `CrmKnown` is the account that has it at first.

### TokenLimiter, AiGateway

TokenLimiter is `rate-limiter.ts`: counters of the window, the queue and the
drain timer, with taggers as callers. AiGateway composes it with story requests
that go through FailoverAIClient and its circuit breaker over TrackedAIClients:
`CheckLimit`, `CheckBalance`, `CallProvider`, `RecordUsage`, `Deduct`, `MarkKey` are
the awaits of one call; `CountFailure`, `OpenCircuit`, `Succeed`, `CircuitCools`
the breaker; a failure at any await is thrown to the failover client, which
retries or goes to the fallback. `AddBalance`, `SetLimit`, `RemoveLimit` are the
admin; `NewWindow` is midnight for the limit; `Restart` clears what one process
keeps in memory (the charged keys). The tagger's calls are not tracked, so the
two halves share only the clock of the bound `MaxBegun`.

### Billing, UsageReport

`stripe`, `pending`, `sessions` and `customers` are Stripe (external): its
subscriptions and the events it has not had answered. `local`, `plan`, `trial`,
`customer` are the rows; `handler` and `buyer` are the webhook and checkout
requests between two awaits. `Deliver` is the signature, idempotency and
staleness part; `Retrieve`, `WriteRow`, `WritePlan`, `FindOthers`, `Revert` the
branches of the event kinds; `HandlerFails` a 500, after which Stripe delivers
again; `Expire` the end of an idempotency key. `GateOpen` is createTrialGate. `stripe` has every status the code maps and one it
does not know: `Open` and `Turns` are a subscription's way through a trial, a
pause or any other of the statuses in `Turn`. The gate and the updated handler
take ACTIVE and TRIALING for usable (`Usable`), the deletion looks for other
ACTIVE rows only (`OtherActive`).
UsageReport adds the daily report of one day: `Aggregate`, `FindRecord`,
`CreateRecord`, `UpdateRecord`, `SendUsage`, `MarkReported`, any of which may fail.

## 3. Runs

| run | checks | distinct states |
|---|---|---|
| `ingest_backfill` | chunks without tags have an open job; initialSyncDone only after one run queued everything; the only job of a call leaves all rows indexed | 1 253 000 |
| `ingest_liveness` | a stored transcript has a job; one stored before the job is taken is tagged; jobs settle | 106 000 |
| `replay_cap` | bound on attempts under overlapping replays; jobs come to rest | 292 000 |
| `publish_concurrent` | newest version ACTIVE; ACTIVE together only when concurrent; requests end; scheduled jobs settle | 133 000 |
| `publish_lifecycle` | public bodies are scrubbed; a published page has a version | 1 951 000 |
| `page_review` | saves refine EditRegister; no text is lost or blindly overwritten; an APPROVED request has published; decisions stand; the queue shows pending requests | 1 046 000 |
| `sync_runs` | what lies before lastSyncAt or the cursor is stored; the ledger is true; completed keys stay; syncs end | 220 000 |
| `account_merge` | rows and references; unlinked calls are queued; undo is exact; approved means merged | 2 043 000 |
| `ai_gateway` | window budgets; bounded overdraft and overshoot; one charge per key; waiting taggers are released; requests end | 365 000 |
| `billing` | rows are Stripe's once all is answered; the gate follows them; one customer; a day is billed once | 3 992 000 |
| `ingest_gong` (violation) | the first transcript of a call is tagged (`FirstTranscriptTagged`) | |
| `merge_crm_id` (violation) | "CRM identifiers are preserved where the primary lacks them" (`MergePreservesCrmId`) | |

`ingest_gong` is a disagreement between the code and its own header.
`gong-webhook.ts:8-13` names two events, a recording and a transcript that are
ready, and says that the call is fed into the processing pipeline. Both events ask for
the job `process-call:<call id>`, and nothing removes a finished job: when the job
of the first event is taken before the transcript is stored, it completes with
nothing to do, and the job of the second, which brings the transcript, is never
added. No later event helps. A transcript that is stored in time is tagged, even
if the waiting job says that there is none (`TimelyTranscriptTagged`).

`merge_crm_id` is a disagreement between code and documentation: executeMerge
writes the secondary's salesforceId to the primary while the secondary still
has it; the unique index on it refuses, and such a merge can never be completed.

Every type invariant is either checked in a run or proved (section 4); a proved
one is not checked again.

### What the models show of the code's limits

Several properties hold with an exception that names a window (the history
variable or condition in parentheses); others are stated in the form that holds.
What they leave open are behaviours the models have, and a reader should know:

- Ingestion: besides the finding, a later version of a transcript that was tagged
  is stored and not processed; a delivery that fails after its key was set is lost
  (`dropped`); the backfill creates participants without an upsert and fails when a
  webhook was first; an overlapping backfill that fails leaves the account ERROR.
- Replay: a transient failure that lies behind a full batch of skipped ones is not
  looked at.
- Publishing: a scheduled publish does not look at an approval policy changed
  since; a rollback leaves an anonymous page's scrubbed copy of the replaced text;
  a subtitle added after publishing is served as typed; deleting a page while a
  version of it is made can deadlock, and one of the two requests fails.
- Editing: updatedAt is read again after the write; a write in between hands the
  tab the stamp of a text it never saw (`late` in `NoBlindOverwrite`).
- Approval: of overlapping reviews the last write wins, so a rejection may cover a
  publish (`DecisionStands` speaks of reviews that have ended); two overlapping
  publish requests both create a request (`PendingIsShown`).
- Sync: a call that is listed only when lastSyncAt or a cursor has passed its
  start is never asked for; lastSyncAt is the end of the sync, so a recording made
  after the last fetch is passed over; a backfill's own start date moves the
  shared cursor (`missed` names all three); a crash, or a catch that cannot
  write, leaves a key RUNNING and therefore blocked (`orphans`); overlapping replay requests share a number (`ReplaysNumbered`).
- Accounts: a call linked after a merge's update has looked for the calls to move
  loses its account and stays out of the queue (`late`); one linked or unlinked
  between the reading of the ids and the update is moved and not recorded, or
  recorded and not moved (`redecided`); a decision after a merge is overridden by
  the undo (`redecided`); undos out of order, or two of one merge, do not restore
  (`lifo`); nothing clears dismissedAt, so a dismissed call that loses its account
  again is announced as queued and hidden. A review that fails or is overtaken
  after its merge leaves the merge done and the request PENDING, or REJECTED by
  the other reviewer: `ApprovedMeansMerged` is the other direction only.
- AI: each concurrent request may overdraw once and overshoot once; a key is
  charged again when its requests overlap, a commit's answer is lost, or the
  process forgets (`exposed`); the taggers' fast path passes the queue, so
  waiting ends only when newcomers stop (`MaxBegun` bounds them).
- Billing: invoice.paid has no staleness test, an event can be found older than a
  row written later, and Stripe's retry within five minutes of a failed request
  meets that request's own key (`doubt`); the deletion of a subscription takes the
  plan back although another one is in its trial, which locks the organisation
  out until that one's next event (`overlooked`), or became active meanwhile
  (`raced`); two checkouts without a customer create
  two (`crossed`); the gate looks only at the subscription whose period ends
  last; overlapping reports bill twice (`together`), and so does a failure
  before the mark (`unmarked`).

### Bounds

- Ingestion: one recording is enough, since no action reads or writes two calls,
  except the backfill's `todo`, whose order does not matter to the properties.
  Two producers, two workers and two transcript versions are what is needed for a
  write between another's read and write; the two versions have different numbers
  of chunks (`MCChunkCount`), so a shorter text leaves an old row behind.
  `MaxDeliveries` 2 lets two producers overlap and, with an expired key, one event
  be delivered twice. `MaxAttempts` is 2 where retries matter and 1 in the largest
  run, where a stall still gives a second execution; Merge webhooks alone with two
  attempts and two handlers (129 000 states) give the same answers.
- Replay: two runs and two jobs of different calls with `Limit` 1: the batch is
  smaller than the failed set, and both runs can hold a snapshot of one job.
- Publishing: two requests and the worker on one page for the interleavings,
  with `Kinds` cut to those that lock rows or touch the job; the kinds that change
  the status of a page, two pages and two policies with one request beside the
  worker for the sequences.
  `MaxBegun` bounds requests, edits and policy changes together.
- Page review: one tab (whose manual save and autosave already overlap), one API
  client as the second author, two handlers; three texts and four stamps, so that
  a write can come between the write and the re-read of another; four requests.
- Sync: the worker and two API requests, two calls, two hours, two configurations,
  `ReplayCap` 1, two beginnings: two overlapping runs, or a run and a crash, a
  replay or a settings change. The safety properties also hold with three
  beginnings (12.8 million states): two runs and a crash, or a failure, its replay
  and a settings change.
- Accounts: three accounts (a chain of two merges and an undo out of order), two
  domains, one call, two handlers, four requests; no account with a CRM id at first.
  All initial owners of the CRM id (5.3 million states), and two calls with three
  requests (3.3 million), give the same answers.
- AI: two callers, one key and two attempts, a threshold of two, a cost of one cent;
  two taggers with one request and two tokens per window, so that an estimate of
  two fills it; three beginnings.
- Billing: two of everything; one tick of the clock with period 1 and no skew, so
  that events can be older than, as old as, or newer than a row; three events open;
  three beginnings; subscriptions that turn trialing (a status the gate accepts)
  and paused (one it does not). With trialing, unpaid, paused and a status unknown
  to the code (5.9 million states) the answers are the same.
- Symmetry is used in safety runs over interchangeable processes (and, in
  `billing`, subscriptions) only, never with a liveness property.

### Fairness

- Ingestion: started producers and workers go on (WF), since Node's event loop
  runs every settled await; a producer may fail instead. A worker that is free
  takes a waiting job. No fairness for deliveries, failures, stalls or the
  expiry of keys.
- Replay: workers take and finish jobs (WF), the cron fires again and again (WF),
  and a run does not die in its loop each time (SF); nothing makes jobs grow old.
- Publishing: a handler or the worker goes on, or fails where it can only fail
  (WF); a due job is fired again and again (SF), because the single worker is
  busy and free in turn. Ordinary failures are never assumed; the database ends a
  deadlock of a deletion and a version transaction, and is given no other to end.
- Sync: a started run goes on (WF on `RunStep`); no run, setting or crash is forced.
- AI: a started request goes on (WF on `CallerStep`), the limiter's timer fires, a
  window ends, a tagger's call returns (WF on `Drain`, `WindowEnds`, `Return`).

The ingestion, replay and publishing runs check deadlock: where histories are
bounded, `Quiet` is their explicit end, enabled only when nothing is in progress.
The others say `CHECK_DEADLOCK FALSE`: they may stop when their bounded requests are
served, and nothing in them waits for another but the limiter's queue and the row
locks of a merge; the first is what `QueuedIsReleased` is about, and the second
are released by the merge's own commit or failure.

## 4. Proofs

TLAPS proves the following for every value of the constants (any number of
calls, workers, runs, pages, tabs, accounts, requests). The assumptions are the
named `ASSUME`s of the modules: finite sets where something is counted, bounds
that are natural numbers, disjoint process names, an idempotency key at all,
estimates that fit into a window, and that rows made through Merge and through a
direct integration do not mix, since their keys differ.

**CallIngestionProofs.** `TypeInv` adds to the types that a busy worker's job is
active, that no two workers have the same job, and that a job still in play has
attempts and stalls left: without it the counters would not stay in range
(`TypeCorrect`). `TranscriptInv` follows a transcript through each producer: at
"enqueue" with a text it is stored, and a stored one has a job, a producer before
its "enqueue", or a failed run (`PromiseKept`, `TranscriptKept`). `TagInv` says
of every chunk whose text is not among its tags that some unfinished job of its
call will write them: a worker past its read has seen that very text, or another
worker is still before it (`ChunksGetTagged`). This needs all workers at once:
one worker's tags may be for a text another has just overwritten. `SyncInv` says
which jobs each running backfill still owes: every recording it has taken has a
job of that very run, but for the one it is at (`SyncIsComplete`, with the
backfill among the producers), so that overlapping runs cannot make up one
completion between them. `IndexInv` says of a job that is alone on its call
(`Alone`) that its worker, once it indexes, has read the rows as they are, and
that all rows but those it has left have their vector (`CompletedCallsIndexed`): a
second job would let another worker rewrite the rows in between.

**DeadLetterReplayProofs.** A snapshot below the cap entitles a run to one more
try of a job. `CapInv`: at or beyond the cap, tries made plus runs still holding
such a snapshot are at most `Cap - 1` plus the number of runs. A failed attempt
leaves the sum alone, a retry uses up its run's snapshot, and a new snapshot
shows the job at the cap. It rests on `ListInv` (the failed list is exact) and
`UsedUpInv` (a transient dead letter has used its own attempts). `ReplayIsBounded`
follows.

**LandingPageProofs.** `IInv`: a process that publishes holds the body it read,
and a page that is published, or has a version to roll back to, has a scrubbed
body (`PublicIsScrubbed`, `TypeCorrect`). `RInv`: the newest version is ACTIVE,
and a process in a version transaction has in its snapshot, and later among its
locks, every ACTIVE version it created itself; other processes can only take
such rows out of ACTIVE (`NewestIsActive`, `OwnVersionReplaced`). `HInv`: a
published page without a version is between the page write and the commit of
some publish, or one of its publishes failed there (`PublishedIsRecorded`).

**PublishApprovalProofs.** `RowsInv`: a handler about to write APPROVED has its
version (`ApprovedIsPublished`); one about to create a request has no pending row
of its own, so that a pending row is hidden by another handler's only
(`PendingShown`); a settled row is decided and no handler holds it
(`DecisionsStand`). `SaveInv`: a save between its read and its conditional write
names a stamp not ahead of the row's, and while it is the row's the text it read
is the row's; with it each step is a step of EditRegister or leaves its variables
alone (`SavesImplementRegister`), and `EditRowsAreTrue` follows from the same
invariant. `KnowInv`: every stamp a tab, its timer or a request holds is behind
the row's, or the tab has seen the row's text, or it learnt the stamp from an
overtaken re-read (`NoBlindOverwrites`). It must speak of the timer's captured
version and of the banner's stamp as well, because each can become the stamp of
a save. `TextInv`: the row, its versions and the text a conflict shows are the
first text or one a save put there, and no text is newer than the last typed.
`KeptInv`: a text is safe once it is stored or given up; the newest text that is
not safe is the editor's own and the timer has it, or, once the timer has fired,
a request carries it or the banner offers it, and every other request in
progress carries it too, except an overwrite with an older draft, whose answer
gives the text up (`TextsAreKept`). That last part is what makes it inductive: a
late answer to an older save clears the banner. The proof shows more than the
property says: the text is kept without counting on the mark "unsaved", which a
late answer does clear.

**SyncRunsProofs.** `CoverInv`: every listed recording up to a position that a run
or the configuration holds is stored or named in `missed`, and a run that has
fetched its last page has everything listed by then (`SyncSkipsNothing`).
`LedgerInv`: an executor holds its row from RUNNING to its end, and one that goes
without ending it leaves it to `orphans` (`RunningRowsAreExecuted`,
`CompletedRowsStay`). `ReplayInv` counts the replays of one failed run: an executor
about to create one has a number at most one above those reached, and above its
own earlier ones (`ReplaysAreNumbered`). The two together are `LedgerHolds`.

**AccountDataProofs.** `AccountInv` is the conjunction of the types with
references and unique indexes, what each handler may hold (`ProcsOK`: a merge
started by a review is of the requested accounts in the requested order, a review
that has merged has its run, an undo knows its run's accounts and calls),
`SweptInv` (a merge that has looked for its calls knows every call at its
secondary, but for the late ones), and the two properties. Proved:
`AccountRowsHold`, `UnlinkedCallsAreQueued`, `ApprovedRequestsMerged`.
`ChainInv`: the completed merges that moved a call form a chain, each moving it
from the primary of the one before, from where it was resolved to to where it
is. `HeldInv`: the calls a merge or an undo has taken stay where it found them
until it commits, and no two have the same. `SeenInv`: an undo of a merge not yet
undone has looked for all calls of its run that the chains are about. A commit adds
a link to the end of a chain and an undo of the last merge takes one off
(`UndoRestores`). That the chain has a last link at all is the induction below.

**AiGatewayProofs.** `MoneyInv`: a request holds a pass from the check of the
balance to the deduction, and the balance is above minus `MaxCost` for each
request without a pass, one deduction each; a check that passes renews the budget
because the balance is then positive (`OverdraftIsBounded`).
`LimitInv` is the same argument for usage: pending requests and counted ones
(`OvershootIsBounded`). `KeyInv`: for a key not exposed, one request holds it,
and what is charged is marked or about to be (`KeysChargedOnce`). `LimiterInv`:
what is admitted is at most what `tokens` counts; the drain's prefix sums exist
and are natural numbers for every queue, so a prefix that fits keeps the budget
(`BudgetIsKept`).

**UsageReportProofs.** `CustomerInv`: without crossed checkouts at most one
buyer is creating a customer, only while there is none, and every session and
subscription has the organisation's (`CustomerIsOne`). `BilledInv`: while runs
follow one another there is one row and one run, and what Stripe has taken is at
most the unmarked failures, plus one when a row is reported or a run is about to
mark it (`DayIsBilledOnce`). `EventInv` counts the identifiers events have used,
at most one per event begun, so that a new event has one left (`ReportTypes`).
`CurrentInv`: a row that differs from Stripe is in doubt or has an event pending
that no request has written yet (`RowsAreCurrent`). `RaceInv`: without a race a
request that takes the plan back has seen no active row, and a plan taken back
too early, but for one beside a trial (`overlooked`), has the event pending that
gives it again (`PlanDue`; `GateIsRight`, with `CurrentInv`).

Two proofs need induction over the natural numbers (the last link of a chain of
merges, the sums of the drain). The induction principle itself takes an operator
and cannot be used, but a least counterexample exists because `<` on the naturals
is well founded, and refuting it is enough (`LeastNat`).

Every invariant and every safety action property the passing runs check is also
proved. Model-checked only: the liveness properties (`TimelyTranscriptTagged`,
`JobsSettle`, `JobsComeToRest`, `RequestsEnd`, `ScheduledSettles`, `SyncsEnd`,
`QueuedIsReleased`), since fairness and ENABLED are beyond the prover; and the
two violations.

Proved and not repeated in a run: the types of the other modules,
`PromisedTranscriptExists`, `EditsWereAccepted`, `ReplaysNumbered` and
`RunningIsExecuted` (as conjuncts of `LedgerIsTrue` both are checked too).

## 5. Not modelled

Parts with status `partly` leave out what their note names. Left out as a whole:

- **Data retention.** One nightly sequence per organisation over rows at least
  thirty days old. It finds vectors through the call rows, up to a limit per
  run, and then deletes all old calls, so vectors of calls beyond the limit stay;
  this is a matter of reading one function and not of interleavings.
- **Text processing** (scrubber rules, PII masking, chunking, prompts, parsing of
  model output, transcript markdown): its whole content is text. What it
  promises to the rest (a scrubbed copy, chunks of a text, tags of a chunk) is
  in the models.
- **Story generation and weekly regeneration**: one linear pipeline each that
  adds rows nobody else writes.
- **Read-only parts** (dashboards, exports, rendering, retrieval, account
  views), **one-row settings** (AI configuration, setup, branding), and
  **decisions computed anew on each request** (permissions, authentication,
  sessions, SCIM): no state that several steps could bring out of step.
- **Wiring**, HTTP adapters, libraries, schema and seed data, the rest of the
  frontend. These are most of the repository's lines, which is why the models
  stand for a small part of them.
- Story.publishedAt is modelled without a property: two writers race on it and
  the code promises nothing about the outcome.

What could be proved next: that the runs' liveness properties have decreasing
measures, as action properties (each step of a request, a job or a sync run
lowers a bound, or is one of the named retries), which is the safety half of the
liveness arguments.

## 6. Running

    tlc -workers 2 -config CallIngestionBackfill.cfg MCCallIngestion
    tlapm CallIngestionProofs.tla

`PROJECT.json` pairs every configuration with its module and properties, and lists
for every property a fault that breaks it.
