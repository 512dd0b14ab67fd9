--------------------------- MODULE CallIngestion ---------------------------
(***************************************************************************)
(* The call ingestion pipeline: the five producers that turn a provider's  *)
(* recording into Call and Transcript rows and a "process-call" job, the   *)
(* BullMQ queue the jobs wait in, and the workers that chunk, tag and      *)
(* index a transcript.                                                     *)
(*                                                                         *)
(* Producers (all run concurrently, one database write per step):          *)
(*   merge     webhooks/merge-webhook.ts, handleRecordingEvent             *)
(*   gong      webhooks/gong-webhook.ts, handleCallReady                   *)
(*   grain     webhooks/grain-webhook.ts, handleRecordingReady             *)
(*   backfill  services/merge-api-client.ts, runInitialSync                *)
(*   sync      integrations/sync-engine.ts, persistCall                    *)
(*                                                                         *)
(* Data abstraction.  The text of a transcript is the number of the        *)
(* version the provider had (0: none); a chunk row, its tags and its       *)
(* vector are the version they were computed from.  Titles, durations and  *)
(* tag values are left out.  A rejected request (bad signature, malformed  *)
(* or stale body, inactive linked account, duplicate event) writes nothing *)
(* and is the guard of ReceiveWebhook.                                     *)
(***************************************************************************)
EXTENDS Naturals, FiniteSets

CONSTANTS
    Calls,          \* recordings; the call row of a recording has its name
    WithEmail,      \* recordings that list a participant with an e-mail
    Handlers,       \* concurrent webhook requests and sync steps
    Backfillers,    \* initial synchronisations of one linked account
    Workers,        \* concurrency of the call-processing worker
    Events,         \* event types that announce a recording
    Producers,      \* who ingests these recordings: rows made through Merge
                    \* and rows of a direct integration have different keys
    Accounts,       \* CRM accounts the resolver can match
    NoAccount,      \* accountId null
    MaxVersion,     \* bound: versions of a transcript
    ChunkCount,     \* ChunkCount[v]: chunks version v is cut into
    MaxDeliveries,  \* bound: webhook requests, sync steps and connections
    MaxAttempts     \* "attempts" of a process-call job

ASSUME ConstantsAssumption ==
    /\ Calls # {}
    /\ WithEmail \subseteq Calls
    /\ Backfillers \cap Handlers = {}
    /\ \/ Producers \subseteq {"merge", "backfill"}
       \/ Producers \subseteq {"gong", "sync"}
       \/ Producers \subseteq {"grain", "sync"}
    /\ NoAccount \notin Accounts
    /\ MaxVersion \in Nat /\ MaxDeliveries \in Nat
    /\ ChunkCount \in [1..MaxVersion -> Nat \ {0}]
    /\ MaxAttempts \in Nat \ {0}

Procs == Handlers \cup Backfillers
Webhooks == {"merge", "gong", "grain"}
Kinds == Webhooks \cup {"backfill", "sync"}
Texts == 0..MaxVersion
Links == Accounts \cup {NoAccount}

\* Rows of a transcript that any version can have.
Rows == UNION {1..ChunkCount[v] : v \in 1..MaxVersion}

\* <<c, 0>> is the job id "process-call:<c>" of the webhooks; <<c, n>> the id
\* BullMQ generates for the n-th producer run.
JobIds == Calls \X (0..MaxDeliveries)

VARIABLES
    marks,       \* idempotency keys present in Redis
    linked,      \* LinkedAccount.status ("NONE" before it is connected)
    synced,      \* LinkedAccount.initialSyncDone
    todo,        \* recordings each running backfill has still to ingest
    calls,       \* Call rows
    parts,       \* calls with a CallParticipant row that has an e-mail
    account,     \* Call.accountId
    transcript,  \* Transcript.fullText of a call
    chunks,      \* TranscriptChunk.text
    tags,        \* versions whose ChunkTag rows were stored
    vectors,     \* the vector of a chunk: version and account_id
    proc,        \* the producers
    job,         \* the call-processing queue
    worker,      \* the call-processing workers
    deliveries,  \* producer runs so far
    dropped      \* calls one of whose producer runs ended in an error

db == <<calls, parts, account, transcript>>
results == <<chunks, tags, vectors>>
link == <<linked, synced, todo>>
vars == <<marks, link, db, results, proc, job, worker, deliveries, dropped>>

NoVector == [text |-> 0, account |-> NoAccount]
NoRows == [r \in Rows |-> 0]

ProcTypes ==
    [pc : {"idle", "next", "upsert", "participants", "find", "persist",
           "resolve", "hints", "store", "enqueue"},
     kind : Kinds,
     call : Calls, text : Texts, account : Links, stored : BOOLEAN,
     run : 0..MaxDeliveries]

JobTypes ==
    [state : {"none", "waiting", "active", "completed", "failed"},
     account : Links, hasTranscript : BOOLEAN,
     attempts : 0..MaxAttempts, stalls : 0..2]

WorkerTypes ==
    [pc : {"idle", "load", "chunk", "tag", "saveTags", "index", "embed"},
     job : JobIds, text : Texts, row : Nat \ {0},
     seen : [Rows -> Texts], left : SUBSET Rows]

TypeOK ==
    /\ marks \subseteq (Webhooks \X Calls \X Events)
    /\ linked \in {"NONE", "ACTIVE", "ERROR"}
    /\ synced \in BOOLEAN
    /\ todo \in [Backfillers -> SUBSET Calls]
    /\ calls \subseteq Calls
    /\ parts \subseteq Calls
    /\ account \in [Calls -> Links]
    /\ transcript \in [Calls -> Texts]
    /\ chunks \in [Calls -> [Rows -> Texts]]
    /\ tags \in [Calls -> [Rows -> SUBSET Texts]]
    /\ vectors \in [Calls -> [Rows -> [text : Texts, account : Links]]]
    /\ proc \in [Procs -> ProcTypes]
    /\ job \in [JobIds -> JobTypes]
    /\ worker \in [Workers -> WorkerTypes]
    /\ deliveries \in 0..MaxDeliveries
    /\ dropped \subseteq Calls

SomeCall == CHOOSE c \in Calls : TRUE

IdleProc ==
    [pc |-> "idle", kind |-> "sync", call |-> SomeCall, text |-> 0,
     account |-> NoAccount, stored |-> FALSE, run |-> 0]

IdleWorker ==
    [pc |-> "idle", job |-> <<SomeCall, 0>>, text |-> 0, row |-> 1,
     seen |-> NoRows, left |-> {}]

Init ==
    /\ marks = {} /\ todo = [b \in Backfillers |-> {}]
    /\ synced = ("backfill" \notin Producers)
    /\ linked = IF synced THEN "ACTIVE" ELSE "NONE"
    /\ calls = {} /\ parts = {}
    /\ account = [c \in Calls |-> NoAccount]
    /\ transcript = [c \in Calls |-> 0]
    /\ chunks = [c \in Calls |-> NoRows]
    /\ tags = [c \in Calls |-> [r \in Rows |-> {}]]
    /\ vectors = [c \in Calls |-> [r \in Rows |-> NoVector]]
    /\ proc = [p \in Procs |-> IdleProc]
    /\ job = [j \in JobIds |->
                [state |-> "none", account |-> NoAccount,
                 hasTranscript |-> FALSE, attempts |-> 0, stalls |-> 0]]
    /\ worker = [w \in Workers |-> IdleWorker]
    /\ deliveries = 0 /\ dropped = {}

-----------------------------------------------------------------------------
(* Producers *)

\* The producer goes on at the label; one that is done keeps no local state.
Goto(p, label) ==
    proc' = [proc EXCEPT ![p] = IF label = "idle" THEN IdleProc
                                ELSE [@ EXCEPT !.pc = label]]

\* A producer run begins: its number, its recording and what the provider
\* sent (merge) or answered (gong, grain, sync) as the transcript, 0 for none.
Begin(p, k, label, c, t) ==
    proc' = [proc EXCEPT ![p] =
               [pc |-> label, kind |-> k, call |-> c, text |-> t,
                account |-> NoAccount, stored |-> FALSE, run |-> deliveries']]

\* A verified delivery of event e for recording c: the idempotency key is set
\* before any work is done, and a key that is present ends the request.
ReceiveWebhook(h, k, label, c, e, t) ==
    /\ k \in Producers
    /\ proc[h].pc = "idle"
    /\ deliveries < MaxDeliveries
    /\ <<k, c, e>> \notin marks
    /\ marks' = marks \cup {<<k, c, e>>}
    /\ deliveries' = deliveries + 1
    /\ Begin(h, k, label, c, t)
    /\ UNCHANGED <<link, db, results, job, worker, dropped>>

\* Merge events count only while their linked account is ACTIVE.
ReceiveMerge(h, c, e, t) ==
    linked = "ACTIVE" /\ ReceiveWebhook(h, "merge", "upsert", c, e, t)

\* The direct handlers fetch the transcript, then look for the call.
ReceiveDirect(h, k, c, e, t) ==
    k \in {"gong", "grain"} /\ ReceiveWebhook(h, k, "find", c, e, t)

\* The five-minute TTL of a key runs out.
ExpireMark(m) ==
    /\ m \in marks
    /\ marks' = marks \ {m}
    /\ UNCHANGED <<link, db, results, proc, job, worker, deliveries, dropped>>

\* A recording page of a sync run reaches recording c.
BeginSync(h, c, t) ==
    /\ "sync" \in Producers
    /\ proc[h].pc = "idle"
    /\ deliveries < MaxDeliveries
    /\ deliveries' = deliveries + 1
    /\ Begin(h, "sync", "persist", c, t)
    /\ UNCHANGED <<marks, link, db, results, job, worker, dropped>>

\* The account is (re)connected; a backfill starts unless one has completed,
\* also beside one that still runs.
ConnectAccount(b) ==
    /\ "backfill" \in Producers
    /\ proc[b].pc = "idle"
    /\ deliveries < MaxDeliveries
    /\ deliveries' = deliveries + 1
    /\ linked' = "ACTIVE"
    /\ IF synced
         THEN UNCHANGED <<todo, proc>>
         ELSE /\ todo' = [todo EXCEPT ![b] = Calls]
              /\ Begin(b, "backfill", "next", SomeCall, 0)
    /\ UNCHANGED <<marks, synced, db, results, job, worker, dropped>>

\* runInitialSync takes the next recording, or is done with all of them.
BackfillNext(b, t) ==
    /\ proc[b].pc = "next"
    /\ IF todo[b] = {}
         THEN /\ synced' = TRUE
              /\ Goto(b, "idle")
              /\ UNCHANGED todo
         ELSE \E c \in todo[b] :
              /\ todo' = [todo EXCEPT ![b] = todo[b] \ {c}]
              /\ proc' = [proc EXCEPT ![b] =
                            [@ EXCEPT !.pc = "upsert", !.call = c, !.text = t]]
              /\ UNCHANGED synced
    /\ UNCHANGED <<marks, linked, db, results, job, worker, deliveries, dropped>>

\* prisma.call.upsert by mergeRecordingId.
UpsertCall(p) ==
    /\ proc[p].pc = "upsert"
    /\ calls' = calls \cup {proc[p].call}
    /\ Goto(p, "participants")
    /\ UNCHANGED <<marks, link, parts, account, transcript, results, job,
                   worker, deliveries, dropped>>

\* The webhook upserts participants by (callId, email).
UpsertParticipants(p) ==
    /\ proc[p].pc = "participants" /\ proc[p].kind = "merge"
    /\ parts' = parts \cup ({proc[p].call} \cap WithEmail)
    /\ Goto(p, "resolve")
    /\ UNCHANGED <<marks, link, calls, account, transcript, results, job,
                   worker, deliveries, dropped>>

\* The backfill creates them: when a row is there the unique index makes it
\* fail (FailProducer).
CreateParticipants(p) ==
    /\ proc[p].pc = "participants" /\ proc[p].kind = "backfill"
    /\ proc[p].call \notin parts
    /\ parts' = parts \cup ({proc[p].call} \cap WithEmail)
    /\ Goto(p, "resolve")
    /\ UNCHANGED <<marks, link, calls, account, transcript, results, job,
                   worker, deliveries, dropped>>

\* findFirst, else create, else findFirst again after a unique violation: in
\* every order the row exists afterwards and its accountId has been read.
FindCall(p) ==
    /\ proc[p].pc = "find"
    /\ calls' = calls \cup {proc[p].call}
    /\ proc' = [proc EXCEPT ![p].pc = "store",
                            ![p].account = account[proc[p].call]]
    /\ UNCHANGED <<marks, link, parts, account, transcript, results, job,
                   worker, deliveries, dropped>>

\* The transaction of persistCall: a transcript is stored only with a new call.
PersistCall(p) ==
    LET c == proc[p].call
        isNew == c \notin calls /\ proc[p].text # 0
    IN /\ proc[p].pc = "persist"
       /\ calls' = calls \cup {c}
       /\ transcript' = IF isNew THEN [transcript EXCEPT ![c] = proc[p].text]
                                 ELSE transcript
       /\ proc' = [proc EXCEPT ![p].pc = "resolve", ![p].stored = isNew]
       /\ UNCHANGED <<marks, link, parts, account, results, job, worker,
                      deliveries, dropped>>

\* After entity resolution the webhook and the backfill store the transcript;
\* a sync step has stored it, and enqueues only if it did.
AfterLink(p) ==
    CASE proc[p].kind # "sync" -> "store"
      [] proc[p].kind = "sync" /\ proc[p].stored -> "enqueue"
      [] OTHER -> "idle"

\* resolveAndLinkContacts writes the matched account, or null when there is
\* no match; a sync step without a match then tries the provider's hints.
ResolveAndLink(p, a) ==
    /\ proc[p].pc = "resolve"
    /\ account' = [account EXCEPT ![proc[p].call] = a]
    /\ LET label == IF proc[p].kind = "sync" /\ a = NoAccount
                      THEN "hints" ELSE AfterLink(p)
       IN proc' = [proc EXCEPT ![p] =
                     IF label = "idle" THEN IdleProc
                     ELSE [@ EXCEPT !.pc = label, !.account = a]]
    /\ UNCHANGED <<marks, link, calls, parts, transcript, results, job, worker,
                   deliveries, dropped>>

\* linkCallByProviderAccountHints: NoAccount when there is no usable hint.
LinkByHints(p, a) ==
    /\ proc[p].pc = "hints"
    /\ account' = IF a = NoAccount THEN account
                  ELSE [account EXCEPT ![proc[p].call] = a]
    /\ Goto(p, AfterLink(p))
    /\ UNCHANGED <<marks, link, calls, parts, transcript, results, job, worker,
                   deliveries, dropped>>

\* prisma.transcript.upsert, when the payload has a transcript.
StoreTranscript(p) ==
    /\ proc[p].pc = "store"
    /\ transcript' = IF proc[p].text = 0 THEN transcript
                     ELSE [transcript EXCEPT ![proc[p].call] = proc[p].text]
    /\ Goto(p, "enqueue")
    /\ UNCHANGED <<marks, link, calls, parts, account, results, job, worker,
                   deliveries, dropped>>

\* The job id a producer asks for.
JobId(p) == <<proc[p].call,
              IF proc[p].kind \in Webhooks THEN 0 ELSE proc[p].run>>

\* Fault: calls without an account are not queued.
EnqueueLinkedOnly(p) ==
    /\ proc[p].pc = "enqueue"
    /\ job' = IF job[JobId(p)].state # "none" \/ proc[p].account = NoAccount THEN job
              ELSE [job EXCEPT ![JobId(p)] =
                      [state |-> "waiting", account |-> proc[p].account,
                       hasTranscript |-> proc[p].text # 0,
                       attempts |-> 0, stalls |-> 0]]
    /\ Goto(p, IF proc[p].kind = "backfill" THEN "next" ELSE "idle")
    /\ UNCHANGED <<marks, link, db, results, worker, deliveries, dropped>>

\* queue.add: a job whose id is taken, whatever its state, is not added again
\* (the policy keeps completed and failed jobs).  A sync step reads accountId
\* from the row just before.
Enqueue(p) ==
    /\ proc[p].pc = "enqueue"
    /\ job' = IF job[JobId(p)].state # "none" THEN job
              ELSE [job EXCEPT ![JobId(p)] =
                      [state |-> "waiting",
                       account |-> IF proc[p].kind = "sync"
                                     THEN account[proc[p].call]
                                     ELSE proc[p].account,
                       hasTranscript |-> proc[p].text # 0,
                       attempts |-> 0, stalls |-> 0]]
    /\ Goto(p, IF proc[p].kind = "backfill" THEN "next" ELSE "idle")
    /\ UNCHANGED <<marks, link, db, results, worker, deliveries, dropped>>

\* Fault: the backfill skips a recording that fails and goes on.
FailProducerSkips(p) ==
    /\ proc[p].pc # "idle"
    /\ Goto(p, IF p \in Backfillers THEN "next" ELSE "idle")
    /\ dropped' = dropped \cup {proc[p].call}
    /\ UNCHANGED <<marks, link, db, results, job, worker, deliveries>>

\* Any step of a producer can fail (database, provider or Redis error after
\* its retries, or a crash of the process).  The webhook answers 200 and keeps
\* its key; the backfill marks the linked account ERROR unless it died or that
\* write fails too.
FailProducer(p) ==
    /\ proc[p].pc # "idle"
    /\ Goto(p, "idle")
    /\ dropped' = dropped \cup {proc[p].call}
    /\ linked' \in IF p \in Backfillers THEN {linked, "ERROR"} ELSE {linked}
    /\ UNCHANGED <<marks, synced, todo, db, results, job, worker, deliveries>>

-----------------------------------------------------------------------------
(* Workers *)

CallOf(w) == worker[w].job[1]
TheJob(w) == job[worker[w].job]

\* The worker goes on with its job ...
Advance(w, record) ==
    /\ worker' = [worker EXCEPT ![w] = record]
    /\ UNCHANGED job

\* ... or hands it back to the queue as j and is free.
Settle(w, j) ==
    /\ worker' = [worker EXCEPT ![w] = IdleWorker]
    /\ job' = [job EXCEPT ![worker[w].job] = j]

Complete(w) == Settle(w, [TheJob(w) EXCEPT !.state = "completed"])

\* A worker takes a waiting job.
TakeJob(w, j) ==
    /\ worker[w].pc = "idle"
    /\ job[j].state = "waiting"
    /\ job' = [job EXCEPT ![j] = [@ EXCEPT !.state = "active"]]
    /\ worker' = [worker EXCEPT ![w] = [@ EXCEPT !.pc = "load", !.job = j]]
    /\ UNCHANGED <<marks, link, db, results, proc, deliveries, dropped>>

\* Fault: the job's hasTranscript decides instead of the database.
LoadTranscriptByPayload(w) ==
    /\ worker[w].pc = "load"
    /\ IF ~TheJob(w).hasTranscript
         THEN Complete(w)
         ELSE Advance(w, [worker[w] EXCEPT !.pc = "chunk", !.row = 1,
                                           !.text = transcript[CallOf(w)]])
    /\ UNCHANGED <<marks, link, db, results, proc, deliveries, dropped>>

\* processCall, step 1: without a transcript the job is completed at once.
LoadTranscript(w) ==
    /\ worker[w].pc = "load"
    /\ IF transcript[CallOf(w)] = 0
         THEN Complete(w)
         ELSE Advance(w, [worker[w] EXCEPT !.pc = "chunk", !.row = 1,
                                           !.text = transcript[CallOf(w)]])
    /\ UNCHANGED <<marks, link, db, results, proc, deliveries, dropped>>

\* Steps 2 and 3: the masked chunks are upserted one by one, in order; rows
\* beyond the last one are left as they are.
WriteChunk(w) ==
    LET v == worker[w].text
        r == worker[w].row
    IN /\ worker[w].pc = "chunk"
       /\ chunks' = [chunks EXCEPT ![CallOf(w)][r] = v]
       /\ Advance(w, IF r < ChunkCount[v]
                       THEN [worker[w] EXCEPT !.row = r + 1]
                       ELSE [worker[w] EXCEPT !.pc = "tag", !.row = 1])
       /\ UNCHANGED <<marks, link, db, tags, vectors, proc, deliveries, dropped>>

\* tagCallTranscript reads every chunk row and has each one tagged.
ReadForTagging(w) ==
    /\ worker[w].pc = "tag"
    /\ Advance(w, [worker[w] EXCEPT !.pc = "saveTags", !.seen = chunks[CallOf(w)]])
    /\ UNCHANGED <<marks, link, db, results, proc, deliveries, dropped>>

\* The tags of what was read are upserted; tags stored before stay.  Without
\* an account in the job this is the last step.
SaveTags(w) ==
    LET seen == worker[w].seen
    IN /\ worker[w].pc = "saveTags"
       /\ tags' = [tags EXCEPT ![CallOf(w)] =
                     [r \in Rows |-> IF seen[r] = 0 THEN @[r]
                                     ELSE @[r] \cup {seen[r]}]]
       /\ IF TheJob(w).account = NoAccount
            THEN Complete(w)
            ELSE Advance(w, [worker[w] EXCEPT !.pc = "index", !.seen = NoRows])
       /\ UNCHANGED <<marks, link, db, chunks, vectors, proc, deliveries, dropped>>

\* Fault: only the rows this attempt wrote are indexed.
ReadOwnForIndexing(w) ==
    /\ worker[w].pc = "index"
    /\ Advance(w, [worker[w] EXCEPT !.pc = "embed", !.seen = chunks[CallOf(w)],
                                    !.left = 1..ChunkCount[worker[w].text]])
    /\ UNCHANGED <<marks, link, db, results, proc, deliveries, dropped>>

\* Step 6 reads the chunk rows again ...
ReadForIndexing(w) ==
    /\ worker[w].pc = "index"
    /\ Advance(w, [worker[w] EXCEPT
                     !.pc = "embed", !.seen = chunks[CallOf(w)],
                     !.left = {r \in Rows : chunks[CallOf(w)][r] # 0}])
    /\ UNCHANGED <<marks, link, db, results, proc, deliveries, dropped>>

\* ... and upserts their vectors, under the account of the job.  Quote
\* extraction follows; its errors are swallowed.
IndexChunk(w, r) ==
    /\ worker[w].pc = "embed"
    /\ r \in worker[w].left
    /\ vectors' = [vectors EXCEPT ![CallOf(w)][r] =
                     [text |-> worker[w].seen[r],
                      account |-> TheJob(w).account]]
    /\ IF worker[w].left = {r}
         THEN Complete(w)
         ELSE Advance(w, [worker[w] EXCEPT !.left = @ \ {r}])
    /\ UNCHANGED <<marks, link, db, chunks, tags, proc, deliveries, dropped>>

\* Fault: processCall swallows the error, so the job completes.
FailJobSwallowed(w) ==
    /\ worker[w].pc # "idle"
    /\ Complete(w)
    /\ UNCHANGED <<marks, link, db, results, proc, deliveries, dropped>>

\* Fault: attempts are not counted.
FailJobUncounted(w) ==
    /\ worker[w].pc # "idle"
    /\ Settle(w, [TheJob(w) EXCEPT !.state = "waiting"])
    /\ UNCHANGED <<marks, link, db, results, proc, deliveries, dropped>>

\* processCall throws: BullMQ counts the attempt and retries it while the
\* policy's attempts last, else the job is a dead letter.
FailJob(w) ==
    /\ worker[w].pc # "idle"
    /\ Settle(w, [TheJob(w) EXCEPT
                    !.attempts = @ + 1,
                    !.state = IF TheJob(w).attempts + 1 < MaxAttempts
                                THEN "waiting" ELSE "failed"])
    /\ UNCHANGED <<marks, link, db, results, proc, deliveries, dropped>>

\* The worker process dies: BullMQ finds the job stalled and hands it out
\* again, once; a job that stalls a second time fails.
StallJob(w) ==
    /\ worker[w].pc # "idle"
    /\ Settle(w, [TheJob(w) EXCEPT
                    !.stalls = @ + 1,
                    !.state = IF TheJob(w).stalls = 0 THEN "waiting" ELSE "failed"])
    /\ UNCHANGED <<marks, link, db, results, proc, deliveries, dropped>>

-----------------------------------------------------------------------------
ProducerStep(p) ==
    \/ UpsertCall(p) \/ UpsertParticipants(p) \/ CreateParticipants(p)
    \/ FindCall(p) \/ PersistCall(p)
    \/ \E a \in Links : ResolveAndLink(p, a) \/ LinkByHints(p, a)
    \/ StoreTranscript(p) \/ Enqueue(p)

WorkerStep(w) ==
    \/ LoadTranscript(w) \/ WriteChunk(w) \/ ReadForTagging(w)
    \/ SaveTags(w) \/ ReadForIndexing(w)
    \/ \E r \in Rows : IndexChunk(w, r)

WorkerNext(w) ==
    \/ \E j \in JobIds : TakeJob(w, j)
    \/ WorkerStep(w) \/ FailJob(w) \/ StallJob(w)

\* Nothing is left to do: every delivery of the bound was made and handled.
Quiet ==
    /\ deliveries = MaxDeliveries
    /\ \A p \in Procs : proc[p].pc = "idle"
    /\ \A w \in Workers : worker[w].pc = "idle"
    /\ \A j \in JobIds : job[j].state # "waiting"
    /\ UNCHANGED vars

\* What starts a producer run, or takes the next recording of the backfill.
Start ==
    \/ \E h \in Handlers, c \in Calls, e \in Events, t \in Texts :
         ReceiveMerge(h, c, e, t) \/ \E k \in Producers : ReceiveDirect(h, k, c, e, t)
    \/ \E m \in marks : ExpireMark(m)
    \/ \E h \in Handlers, c \in Calls, t \in Texts : BeginSync(h, c, t)
    \/ \E b \in Backfillers : ConnectAccount(b) \/ \E t \in Texts : BackfillNext(b, t)

Next ==
    \/ Start
    \/ \E p \in Procs : ProducerStep(p) \/ FailProducer(p)
    \/ \E w \in Workers : WorkerNext(w)
    \/ Quiet

Spec == Init /\ [][Next]_vars

\* The event loop runs every started producer and worker step; nothing forces
\* a delivery, a failure, a crash or the expiry of a key.
Fairness ==
    /\ \A p \in Procs : WF_vars(ProducerStep(p) \/ FailProducer(p))
    /\ \A w \in Workers : WF_vars(WorkerStep(w))
    /\ \A w \in Workers : WF_vars(\E j \in JobIds : TakeJob(w, j))

FairSpec == Spec /\ Fairness

-----------------------------------------------------------------------------
(* Properties *)

JobsOf(c) == {j \in JobIds : j[1] = c /\ job[j].state # "none"}
OpenJobs(c) == {j \in JobsOf(c) : job[j].state # "completed"}
Busy(c) == \E p \in Procs : proc[p].pc # "idle" /\ proc[p].call = c

\* A job that was queued with hasTranscript finds a transcript when it runs,
\* whatever the producers of the same call do: processCall's "No transcript,
\* skipping" is never the answer to a call that came with its transcript.
PromisedTranscriptExists ==
    \A j \in JobIds :
        (job[j].state # "none" /\ job[j].hasTranscript) => transcript[j[1]] # 0

\* A stored transcript is never forgotten: a job for its call was queued, or a
\* producer is still at work on it, or one of its producer runs failed.
StoredTranscriptHasJob ==
    \A c \in Calls :
        transcript[c] # 0 => JobsOf(c) # {} \/ Busy(c) \/ c \in dropped

\* No chunk text is left without the tags computed from it, under retries,
\* crashes and two jobs for one call: the queue still holds an open (waiting,
\* active or dead-letter) job of the call as long as a chunk lacks its tags.
UntaggedChunkHasOpenJob ==
    \A c \in Calls, r \in Rows :
        chunks[c][r] \notin tags[c][r] \cup {0} => OpenJobs(c) # {}

\* Once the only job of a linked call has completed, every chunk row has a
\* vector of its text under the account the job named: rows an earlier attempt
\* wrote from another version of the transcript included.
CompletedJobIsIndexed ==
    \A j \in JobIds : \A r \in Rows :
        (/\ job[j].state = "completed" /\ JobsOf(j[1]) = {j}
         /\ job[j].account # NoAccount
         /\ chunks[j[1]][r] # 0)
        => vectors[j[1]][r] = [text |-> chunks[j[1]][r], account |-> job[j].account]

\* initialSyncDone is set only when one run of the backfill queued a job for
\* every recording, failures and reconnections included.
SyncDoneMeansQueued ==
    synced => \E n \in 1..MaxDeliveries : \A c \in Calls :
                  job[<<c, n>>].state # "none"

\* The call has tags, or an operator can see why not: its job is a dead letter
\* or one of its producer runs failed.
Handled(c) ==
    \/ \E r \in Rows : tags[c][r] # {}
    \/ \E j \in JobsOf(c) : job[j].state = "failed"
    \/ c \in dropped

\* A transcript stored before a worker took the job of its call is tagged, also
\* when that job was queued by an event that came without one.
TimelyTranscriptTagged ==
    \A c \in Calls :
        (/\ transcript[c] # 0
         /\ JobsOf(c) = {} \/ \E j \in JobsOf(c) : job[j].state = "waiting")
        ~> Handled(c)

\* What gong-webhook.ts:8-13 says of both events: the call data is fed into the
\* processing pipeline, so the first transcript of a call is tagged.
FirstTranscriptTagged ==
    \A c \in Calls : transcript[c] # 0 ~> Handled(c)

\* A queued job completes or becomes a dead letter: failures and stalls are
\* counted and cannot put it back for ever.
JobsSettle ==
    \A j \in JobIds :
        job[j].state = "waiting" ~> job[j].state \in {"completed", "failed"}
=============================================================================
