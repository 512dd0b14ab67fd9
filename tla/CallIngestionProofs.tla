------------------------ MODULE CallIngestionProofs ------------------------
(***************************************************************************)
(* Proofs about CallIngestion, for every set of recordings, handlers and   *)
(* workers and every bound.                                                *)
(***************************************************************************)
EXTENDS CallIngestion, TLAPS

\* A worker that is not idle owns an active job, no two workers own the same
\* one, and a job that can still run has an attempt and a stall left.
QueueInv ==
    /\ \A w \in Workers :
         worker[w].pc # "idle" => job[worker[w].job].state = "active"
    /\ \A v, w \in Workers :
         (v # w /\ worker[v].pc # "idle" /\ worker[w].pc # "idle")
            => worker[v].job # worker[w].job
    /\ \A j \in JobIds :
         job[j].state \in {"none", "waiting", "active"}
            => job[j].attempts < MaxAttempts /\ job[j].stalls < 2

TypeInv == TypeOK /\ QueueInv

LEMMA IdleTypes == IdleProc \in ProcTypes /\ IdleWorker \in WorkerTypes
<1>1. SomeCall \in Calls
  BY ConstantsAssumption DEF SomeCall
<1>2. 0 \in Texts /\ 0 \in 0..MaxDeliveries /\ NoAccount \in Links
  BY ConstantsAssumption DEF Texts, Links
<1>3. NoRows \in [Rows -> Texts]
  BY <1>2 DEF NoRows
<1>4. <<SomeCall, 0>> \in JobIds
  BY <1>1, <1>2 DEF JobIds
<1>5. IdleProc \in ProcTypes
  BY <1>1, <1>2 DEF IdleProc, ProcTypes, Kinds
<1>6. IdleWorker \in WorkerTypes
  BY <1>2, <1>3, <1>4 DEF IdleWorker, WorkerTypes
<1>. QED  BY <1>5, <1>6

LEMMA InitTypeInv == Init => TypeInv
<1>. SUFFICES ASSUME Init PROVE TypeInv
  OBVIOUS
<1>1. 0 \in Texts /\ NoAccount \in Links /\ 0 \in 0..MaxDeliveries /\ 0 \in 0..MaxAttempts
  BY ConstantsAssumption DEF Texts, Links
<1>2. TypeOK
  <2>1. proc \in [Procs -> ProcTypes] /\ worker \in [Workers -> WorkerTypes]
    BY IdleTypes DEF Init
  <2>2. job \in [JobIds -> JobTypes]
    BY <1>1 DEF Init, JobTypes
  <2>3. chunks \in [Calls -> [Rows -> Texts]]
    BY <1>1 DEF Init, NoRows
  <2>4. vectors \in [Calls -> [Rows -> [text : Texts, account : Links]]]
    BY <1>1 DEF Init, NoVector
  <2>5. tags \in [Calls -> [Rows -> SUBSET Texts]]
    BY DEF Init
  <2>6. account \in [Calls -> Links] /\ transcript \in [Calls -> Texts]
    BY <1>1 DEF Init
  <2>7. /\ marks \subseteq (Webhooks \X Calls \X Events) /\ synced \in BOOLEAN
        /\ linked \in {"NONE", "ACTIVE", "ERROR"} /\ todo \in [Backfillers -> SUBSET Calls]
        /\ calls \subseteq Calls /\ parts \subseteq Calls
        /\ deliveries \in 0..MaxDeliveries /\ dropped \subseteq Calls
    BY <1>1 DEF Init
  <2>. QED  BY <2>1, <2>2, <2>3, <2>4, <2>5, <2>6, <2>7 DEF TypeOK
<1>3. QueueInv
  BY ConstantsAssumption DEF Init, QueueInv, IdleWorker
<1>. QED  BY <1>2, <1>3 DEF TypeInv

Labels == {"idle", "next", "upsert", "participants", "find", "persist",
           "resolve", "hints", "store", "enqueue"}

LEMMA GotoType ==
    ASSUME proc \in [Procs -> ProcTypes], NEW p \in Procs, NEW label \in Labels,
           Goto(p, label)
    PROVE  proc' \in [Procs -> ProcTypes]
<1>1. [proc[p] EXCEPT !.pc = label] \in ProcTypes
  BY DEF ProcTypes, Labels
<1>. QED  BY <1>1, IdleTypes DEF Goto

LEMMA BeginType ==
    ASSUME proc \in [Procs -> ProcTypes], NEW p \in Procs, NEW label \in Labels,
           NEW k \in Kinds, NEW c \in Calls,
           NEW t \in Texts, deliveries' \in 0..MaxDeliveries,
           Begin(p, k, label, c, t)
    PROVE  proc' \in [Procs -> ProcTypes]
<1>1. NoAccount \in Links
  BY DEF Links
<1>. QED  BY <1>1 DEF Begin, ProcTypes, Labels

LEMMA AfterLinkType == \A p : AfterLink(p) \in {"store", "enqueue", "idle"}
BY DEF AfterLink

\* The producers leave the workers and the jobs that exist alone.
LEMMA ProducerTypeInv ==
    ASSUME TypeInv, NEW p \in Procs, ProducerStep(p) \/ FailProducer(p)
    PROVE  TypeInv'
<1>. USE DEF TypeInv, TypeOK, db, link, results, vars
<1>0. /\ proc[p] \in ProcTypes /\ proc[p].call \in Calls /\ proc[p].text \in Texts
      /\ proc[p].account \in Links /\ proc[p].run \in 0..MaxDeliveries
      /\ p \in Backfillers \/ p \in Handlers
  BY DEF ProcTypes, Procs
<1>1. CASE UpsertCall(p)
  BY <1>0, <1>1, GotoType DEF UpsertCall, QueueInv, Labels
<1>2. CASE UpsertParticipants(p) \/ CreateParticipants(p)
  BY <1>0, <1>2, GotoType DEF UpsertParticipants, CreateParticipants, QueueInv, Labels
<1>3. CASE FindCall(p)
  <2>1. proc' \in [Procs -> ProcTypes]
    BY <1>0, <1>3 DEF FindCall, ProcTypes
  <2>. QED  BY <1>0, <1>3, <2>1 DEF FindCall, QueueInv
<1>4. CASE PersistCall(p)
  <2>1. proc' \in [Procs -> ProcTypes]
    BY <1>0, <1>4 DEF PersistCall, ProcTypes
  <2>2. transcript' \in [Calls -> Texts] /\ calls' \subseteq Calls
    BY <1>0, <1>4 DEF PersistCall
  <2>. QED  BY <1>0, <1>4, <2>1, <2>2 DEF PersistCall, QueueInv
<1>5. ASSUME NEW a \in Links, ResolveAndLink(p, a) PROVE TypeInv'
  <2>1. \A l \in Labels : [proc[p] EXCEPT !.pc = l, !.account = a] \in ProcTypes
    BY <1>0 DEF ProcTypes, Labels
  <2>2. proc' \in [Procs -> ProcTypes]
    BY <1>5, <2>1, IdleTypes, AfterLinkType DEF ResolveAndLink, Labels
  <2>. QED  BY <1>0, <1>5, <2>2 DEF ResolveAndLink, QueueInv
<1>6. ASSUME NEW a \in Links, LinkByHints(p, a) PROVE TypeInv'
  BY <1>0, <1>6, GotoType, AfterLinkType DEF LinkByHints, QueueInv, Labels
<1>7. CASE StoreTranscript(p)
  BY <1>0, <1>7, GotoType DEF StoreTranscript, QueueInv, Labels
<1>8. CASE Enqueue(p)
  <2>1. proc' \in [Procs -> ProcTypes]
    BY <1>8, GotoType DEF Enqueue, Labels
  <2>2. JobId(p) \in JobIds
    BY <1>0, ConstantsAssumption DEF JobId, JobIds
  <2>3. job' \in [JobIds -> JobTypes]
    BY <1>0, <1>8, <2>2, ConstantsAssumption DEF Enqueue, JobTypes
  <2>4. QueueInv'
    BY <1>8, <2>2, ConstantsAssumption DEF Enqueue, QueueInv, JobTypes, WorkerTypes
  <2>. QED  BY <1>8, <2>1, <2>3, <2>4 DEF Enqueue
<1>9. CASE FailProducer(p)
  BY <1>0, <1>9, GotoType DEF FailProducer, QueueInv, Labels
<1>. QED  BY <1>1, <1>2, <1>3, <1>4, <1>5, <1>6, <1>7, <1>8, <1>9 DEF ProducerStep

LEMMA StartTypeInv ==
    ASSUME TypeInv, Start
    PROVE  TypeInv'
<1>. USE DEF TypeInv, TypeOK, db, link, results, vars
<1>1. ASSUME NEW h \in Handlers, NEW k \in Webhooks, NEW label \in {"upsert", "find"},
             NEW c \in Calls, NEW e \in Events, NEW t \in Texts,
             ReceiveWebhook(h, k, label, c, e, t)
      PROVE TypeInv'
  <2>1. deliveries' \in 0..MaxDeliveries
    BY <1>1, ConstantsAssumption DEF ReceiveWebhook
  <2>2. proc' \in [Procs -> ProcTypes]
    <3>1. h \in Procs /\ k \in Kinds /\ label \in Labels
      BY DEF Procs, Kinds, Labels
    <3>2. Begin(h, k, label, c, t)
      BY <1>1 DEF ReceiveWebhook
    <3>. QED  BY <3>1, <3>2, <2>1, BeginType
  <2>3. marks' \subseteq (Webhooks \X Calls \X Events)
    <3>1. <<k, c, e>> \in Webhooks \X Calls \X Events
      OBVIOUS
    <3>. QED  BY <1>1, <3>1 DEF ReceiveWebhook
  <2>. QED  BY <1>1, <2>1, <2>2, <2>3 DEF ReceiveWebhook, QueueInv
<1>2. ASSUME NEW m \in marks, ExpireMark(m) PROVE TypeInv'
  BY <1>2 DEF ExpireMark, QueueInv
<1>3. ASSUME NEW h \in Handlers, NEW c \in Calls, NEW t \in Texts, BeginSync(h, c, t)
      PROVE TypeInv'
  <2>1. deliveries' \in 0..MaxDeliveries
    BY <1>3, ConstantsAssumption DEF BeginSync
  <2>2. proc' \in [Procs -> ProcTypes]
    BY <1>3, <2>1, BeginType DEF BeginSync, Procs, Labels, Kinds
  <2>. QED  BY <1>3, <2>1, <2>2 DEF BeginSync, QueueInv
<1>4. ASSUME NEW b \in Backfillers, ConnectAccount(b) PROVE TypeInv'
  <2>1. deliveries' \in 0..MaxDeliveries
    BY <1>4, ConstantsAssumption DEF ConnectAccount
  <2>2. SomeCall \in Calls /\ 0 \in Texts
    BY ConstantsAssumption DEF SomeCall, Texts
  <2>3. proc' \in [Procs -> ProcTypes]
    BY <1>4, <2>1, <2>2, BeginType DEF ConnectAccount, Procs, Labels, Kinds
  <2>4. todo' \in [Backfillers -> SUBSET Calls]
    BY <1>4 DEF ConnectAccount
  <2>. QED  BY <1>4, <2>1, <2>3, <2>4 DEF ConnectAccount, QueueInv
<1>5. ASSUME NEW b \in Backfillers, NEW t \in Texts, BackfillNext(b, t) PROVE TypeInv'
  <2>1. b \in Procs /\ todo[b] \subseteq Calls
    BY DEF Procs
  <2>2. \A c \in todo[b] :
          [proc[b] EXCEPT !.pc = "upsert", !.call = c, !.text = t] \in ProcTypes
    BY <2>1 DEF ProcTypes
  <2>3. proc' \in [Procs -> ProcTypes]
    <3>1. CASE todo[b] = {}
      BY <1>5, <3>1, <2>1, GotoType DEF BackfillNext, Labels
    <3>2. CASE todo[b] # {}
      <4>1. PICK c \in todo[b] :
              proc' = [proc EXCEPT ![b] =
                         [@ EXCEPT !.pc = "upsert", !.call = c, !.text = t]]
        BY <1>5, <3>2 DEF BackfillNext
      <4>2. [proc[b] EXCEPT !.pc = "upsert", !.call = c, !.text = t] \in ProcTypes
        BY <2>2
      <4>. QED  BY <4>1, <4>2, <2>1
    <3>. QED  BY <3>1, <3>2
  <2>4. todo' \in [Backfillers -> SUBSET Calls]
    <3>1. CASE todo[b] = {}
      BY <1>5, <3>1 DEF BackfillNext
    <3>2. CASE todo[b] # {}
      <4>1. PICK c \in todo[b] : todo' = [todo EXCEPT ![b] = todo[b] \ {c}]
        BY <1>5, <3>2 DEF BackfillNext
      <4>2. todo[b] \ {c} \in SUBSET Calls
        BY <2>1
      <4>. QED  BY <4>1, <4>2
    <3>. QED  BY <3>1, <3>2
  <2>. QED  BY <1>5, <2>3, <2>4 DEF BackfillNext, QueueInv
<1>6. "merge" \in Webhooks /\ "gong" \in Webhooks /\ "grain" \in Webhooks
  BY DEF Webhooks
<1>. QED
  BY <1>1, <1>2, <1>3, <1>4, <1>5, <1>6 DEF Start, ReceiveMerge, ReceiveDirect

\* A worker that goes on with its job, or hands it back, keeps the queue sound.
LEMMA AdvanceInv ==
    ASSUME TypeInv, NEW w \in Workers, worker[w].pc # "idle",
           NEW rec \in WorkerTypes, rec.job = worker[w].job, Advance(w, rec)
    PROVE  /\ worker' \in [Workers -> WorkerTypes] /\ job' \in [JobIds -> JobTypes]
           /\ QueueInv'
<1>1. worker \in [Workers -> WorkerTypes] /\ job \in [JobIds -> JobTypes] /\ QueueInv
  BY DEF TypeInv, TypeOK
<1>2. /\ worker' = [worker EXCEPT ![w] = rec] /\ job' = job
  BY DEF Advance
<1>3. worker' \in [Workers -> WorkerTypes] /\ job' \in [JobIds -> JobTypes]
  BY <1>1, <1>2
<1>4. QueueInv'
  BY <1>1, <1>2 DEF QueueInv
<1>. QED  BY <1>3, <1>4

LEMMA SettleInv ==
    ASSUME TypeInv, NEW w \in Workers, worker[w].pc # "idle",
           NEW j \in JobTypes,
           j.state \in {"waiting", "completed", "failed"},
           j.state = "waiting" => j.attempts < MaxAttempts /\ j.stalls < 2,
           Settle(w, j)
    PROVE  /\ worker' \in [Workers -> WorkerTypes] /\ job' \in [JobIds -> JobTypes]
           /\ QueueInv'
<1>1. worker \in [Workers -> WorkerTypes] /\ job \in [JobIds -> JobTypes] /\ QueueInv
  BY DEF TypeInv, TypeOK
<1>2. /\ worker' = [worker EXCEPT ![w] = IdleWorker]
      /\ job' = [job EXCEPT ![worker[w].job] = j]
      /\ worker[w].job \in JobIds
  BY <1>1 DEF Settle, WorkerTypes
<1>3. worker' \in [Workers -> WorkerTypes] /\ job' \in [JobIds -> JobTypes]
  BY <1>1, <1>2, IdleTypes
<1>4. IdleWorker.pc = "idle"
  BY DEF IdleWorker
<1>5. QueueInv'
  <2>1. \A v \in Workers : worker'[v].pc # "idle" => job'[worker'[v].job].state = "active"
    <3>. SUFFICES ASSUME NEW v \in Workers, worker'[v].pc # "idle"
                  PROVE  job'[worker'[v].job].state = "active"
      OBVIOUS
    <3>1. v # w /\ worker'[v] = worker[v]
      BY <1>1, <1>2, <1>4
    <3>2. worker[v].job # worker[w].job /\ job[worker[v].job].state = "active"
      BY <1>1, <3>1 DEF QueueInv
    <3>. QED  BY <1>1, <1>2, <3>1, <3>2 DEF WorkerTypes
  <2>2. \A u, v \in Workers :
          (u # v /\ worker'[u].pc # "idle" /\ worker'[v].pc # "idle")
             => worker'[u].job # worker'[v].job
    BY <1>1, <1>2, <1>4 DEF QueueInv
  <2>3. \A i \in JobIds : job'[i].state \in {"none", "waiting", "active"}
             => job'[i].attempts < MaxAttempts /\ job'[i].stalls < 2
    BY <1>1, <1>2 DEF QueueInv
  <2>. QED  BY <2>1, <2>2, <2>3 DEF QueueInv
<1>. QED  BY <1>3, <1>5

LEMMA CompleteInv ==
    ASSUME TypeInv, NEW w \in Workers, worker[w].pc # "idle", Complete(w)
    PROVE  /\ worker' \in [Workers -> WorkerTypes] /\ job' \in [JobIds -> JobTypes]
           /\ QueueInv'
<1>1. TheJob(w) \in JobTypes
  BY DEF TypeInv, TypeOK, WorkerTypes, TheJob
<1>2. /\ [TheJob(w) EXCEPT !.state = "completed"] \in JobTypes
      /\ [TheJob(w) EXCEPT !.state = "completed"].state = "completed"
  BY <1>1 DEF JobTypes
<1>. QED  BY <1>2, SettleInv DEF Complete

LEMMA WorkerTypeInv ==
    ASSUME TypeInv, NEW w \in Workers, WorkerNext(w)
    PROVE  TypeInv'
<1>0. /\ worker[w] \in WorkerTypes /\ worker[w].job \in JobIds
      /\ CallOf(w) \in Calls /\ TheJob(w) \in JobTypes
      /\ worker[w].text \in Texts /\ worker[w].row \in Nat \ {0}
  BY DEF TypeInv, TypeOK, WorkerTypes, JobIds, CallOf, TheJob
<1>1. ASSUME NEW j \in JobIds, TakeJob(w, j) PROVE TypeInv'
  <2>1. /\ [job[j] EXCEPT !.state = "active"] \in JobTypes
        /\ [worker[w] EXCEPT !.pc = "load", !.job = j] \in WorkerTypes
    BY <1>0 DEF TypeInv, TypeOK, JobTypes, WorkerTypes
  <2>2. job' \in [JobIds -> JobTypes] /\ worker' \in [Workers -> WorkerTypes]
    BY <1>1, <2>1 DEF TakeJob, TypeInv, TypeOK
  <2>3. /\ \A i \in JobIds : i # j => job'[i] = job[i]
        /\ job[j].state = "waiting" /\ job'[j].state = "active"
        /\ job'[j].attempts = job[j].attempts /\ job'[j].stalls = job[j].stalls
        /\ \A v \in Workers : v # w => worker'[v] = worker[v]
        /\ worker[w].pc = "idle" /\ worker'[w].job = j
    BY <1>0, <1>1 DEF TakeJob, TypeInv, TypeOK, JobTypes, WorkerTypes
  <2>4. QueueInv'
    <3>1. \A v \in Workers : worker[v].pc # "idle" => worker[v].job # j
      BY <2>3 DEF TypeInv, QueueInv
    <3>2. \A v \in Workers : worker[v].job \in JobIds
      BY DEF TypeInv, TypeOK, WorkerTypes
    <3>. QED  BY <2>3, <3>1, <3>2 DEF TypeInv, QueueInv
  <2>. QED  BY <1>1, <2>2, <2>4 DEF TakeJob, TypeInv, TypeOK, link, db, results
<1>2. CASE LoadTranscript(w)
  <2>1. [worker[w] EXCEPT !.pc = "chunk", !.row = 1, !.text = transcript[CallOf(w)]]
           \in WorkerTypes
    <3>1. transcript[CallOf(w)] \in Texts /\ 1 \in Nat \ {0}
      BY <1>0 DEF TypeInv, TypeOK
    <3>. QED  BY <1>0, <3>1 DEF WorkerTypes
  <2>2. [worker[w] EXCEPT !.pc = "chunk", !.row = 1,
                          !.text = transcript[CallOf(w)]].job = worker[w].job
    BY <1>0 DEF WorkerTypes
  <2>3. /\ worker' \in [Workers -> WorkerTypes] /\ job' \in [JobIds -> JobTypes]
        /\ QueueInv'
    BY <1>2, <2>1, <2>2, AdvanceInv, CompleteInv DEF LoadTranscript
  <2>. QED  BY <1>2, <2>3 DEF LoadTranscript, TypeInv, TypeOK, link, db, results
<1>3. CASE WriteChunk(w)
  <2>1. /\ [worker[w] EXCEPT !.row = worker[w].row + 1] \in WorkerTypes
        /\ [worker[w] EXCEPT !.row = worker[w].row + 1].job = worker[w].job
        /\ [worker[w] EXCEPT !.pc = "tag", !.row = 1] \in WorkerTypes
        /\ [worker[w] EXCEPT !.pc = "tag", !.row = 1].job = worker[w].job
    <3>1. worker[w].row + 1 \in Nat \ {0} /\ 1 \in Nat \ {0}
      BY <1>0
    <3>. QED  BY <1>0, <3>1 DEF WorkerTypes
  <2>2. /\ worker' \in [Workers -> WorkerTypes] /\ job' \in [JobIds -> JobTypes]
        /\ QueueInv'
    BY <1>3, <2>1, AdvanceInv DEF WriteChunk
  <2>3. chunks' \in [Calls -> [Rows -> Texts]]
    BY <1>0, <1>3 DEF WriteChunk, TypeInv, TypeOK
  <2>. QED  BY <1>3, <2>2, <2>3 DEF WriteChunk, TypeInv, TypeOK, link, db, results
<1>4. CASE ReadForTagging(w)
  <2>1. /\ [worker[w] EXCEPT !.pc = "saveTags", !.seen = chunks[CallOf(w)]] \in WorkerTypes
        /\ [worker[w] EXCEPT !.pc = "saveTags", !.seen = chunks[CallOf(w)]].job = worker[w].job
    BY <1>0 DEF TypeInv, TypeOK, WorkerTypes
  <2>2. /\ worker' \in [Workers -> WorkerTypes] /\ job' \in [JobIds -> JobTypes]
        /\ QueueInv'
    BY <1>4, <2>1, AdvanceInv DEF ReadForTagging
  <2>. QED  BY <1>4, <2>2 DEF ReadForTagging, TypeInv, TypeOK, link, db, results
<1>5. CASE SaveTags(w)
  <2>1. /\ [worker[w] EXCEPT !.pc = "index", !.seen = NoRows] \in WorkerTypes
        /\ [worker[w] EXCEPT !.pc = "index", !.seen = NoRows].job = worker[w].job
    <3>1. NoRows \in [Rows -> Texts]
      BY ConstantsAssumption DEF NoRows, Texts
    <3>. QED  BY <1>0, <3>1 DEF WorkerTypes
  <2>2. /\ worker' \in [Workers -> WorkerTypes] /\ job' \in [JobIds -> JobTypes]
        /\ QueueInv'
    BY <1>5, <2>1, AdvanceInv, CompleteInv DEF SaveTags
  <2>3. tags' \in [Calls -> [Rows -> SUBSET Texts]]
    BY <1>0, <1>5 DEF SaveTags, WorkerTypes, TypeInv, TypeOK
  <2>. QED  BY <1>5, <2>2, <2>3 DEF SaveTags, TypeInv, TypeOK, link, db, results
<1>6. CASE ReadForIndexing(w)
  <2>. DEFINE rec == [worker[w] EXCEPT !.pc = "embed", !.seen = chunks[CallOf(w)],
                        !.left = {r \in Rows : chunks[CallOf(w)][r] # 0}]
  <2>1. rec \in WorkerTypes /\ rec.job = worker[w].job
    BY <1>0 DEF TypeInv, TypeOK, WorkerTypes
  <2>2. /\ worker' \in [Workers -> WorkerTypes] /\ job' \in [JobIds -> JobTypes]
        /\ QueueInv'
    BY <1>6, <2>1, AdvanceInv DEF ReadForIndexing
  <2>. QED  BY <1>6, <2>2 DEF ReadForIndexing, TypeInv, TypeOK, link, db, results
<1>7. ASSUME NEW r \in Rows, IndexChunk(w, r) PROVE TypeInv'
  <2>. DEFINE rec == [worker[w] EXCEPT !.left = worker[w].left \ {r}]
  <2>1. rec \in WorkerTypes /\ rec.job = worker[w].job
    BY <1>0 DEF WorkerTypes
  <2>2. /\ worker' \in [Workers -> WorkerTypes] /\ job' \in [JobIds -> JobTypes]
        /\ QueueInv'
    BY <1>7, <2>1, AdvanceInv, CompleteInv DEF IndexChunk
  <2>3. vectors' \in [Calls -> [Rows -> [text : Texts, account : Links]]]
    BY <1>0, <1>7 DEF IndexChunk, JobTypes, WorkerTypes, TypeInv, TypeOK
  <2>. QED  BY <1>7, <2>2, <2>3 DEF IndexChunk, TypeInv, TypeOK, link, db, results
<1>8. CASE FailJob(w)
  <2>. DEFINE j == [TheJob(w) EXCEPT
                      !.attempts = TheJob(w).attempts + 1,
                      !.state = IF TheJob(w).attempts + 1 < MaxAttempts
                                  THEN "waiting" ELSE "failed"]
  <2>1. /\ worker[w].pc # "idle" /\ TheJob(w).attempts < MaxAttempts
        /\ TheJob(w).stalls < 2 /\ TheJob(w).attempts \in Nat
    BY <1>0, <1>8 DEF FailJob, TypeInv, QueueInv, TheJob, JobTypes
  <2>2. /\ j \in JobTypes /\ j.state \in {"waiting", "failed"}
        /\ j.state = "waiting" => j.attempts < MaxAttempts /\ j.stalls < 2
    <3>1. TheJob(w).attempts + 1 \in 0..MaxAttempts
      BY <2>1, ConstantsAssumption
    <3>2. j \in JobTypes
      BY <1>0, <3>1 DEF JobTypes
    <3>3. /\ j.attempts = TheJob(w).attempts + 1 /\ j.stalls = TheJob(w).stalls
          /\ j.state = IF TheJob(w).attempts + 1 < MaxAttempts THEN "waiting" ELSE "failed"
      BY <1>0 DEF JobTypes
    <3>. QED  BY <2>1, <3>2, <3>3
  <2>3. Settle(w, j)
    BY <1>8 DEF FailJob
  <2>4. /\ worker' \in [Workers -> WorkerTypes] /\ job' \in [JobIds -> JobTypes]
        /\ QueueInv'
    <3>. HIDE DEF j
    <3>. QED  BY <2>1, <2>2, <2>3, SettleInv
  <2>. QED  BY <1>8, <2>4 DEF FailJob, TypeInv, TypeOK, link, db, results
<1>9. CASE StallJob(w)
  <2>. DEFINE j == [TheJob(w) EXCEPT
                      !.stalls = TheJob(w).stalls + 1,
                      !.state = IF TheJob(w).stalls = 0 THEN "waiting" ELSE "failed"]
  <2>1. /\ worker[w].pc # "idle" /\ TheJob(w).attempts < MaxAttempts
        /\ TheJob(w).stalls \in {0, 1}
    BY <1>0, <1>9 DEF StallJob, TypeInv, QueueInv, TheJob, JobTypes
  <2>2. /\ j \in JobTypes /\ j.state \in {"waiting", "failed"}
        /\ j.state = "waiting" => j.attempts < MaxAttempts /\ j.stalls < 2
    <3>1. TheJob(w).stalls + 1 \in 0..2
      BY <2>1
    <3>2. j \in JobTypes
      BY <1>0, <3>1 DEF JobTypes
    <3>3. /\ j.attempts = TheJob(w).attempts /\ j.stalls = TheJob(w).stalls + 1
          /\ j.state = IF TheJob(w).stalls = 0 THEN "waiting" ELSE "failed"
      BY <1>0 DEF JobTypes
    <3>. QED  BY <2>1, <3>2, <3>3
  <2>3. Settle(w, j)
    BY <1>9 DEF StallJob
  <2>4. /\ worker' \in [Workers -> WorkerTypes] /\ job' \in [JobIds -> JobTypes]
        /\ QueueInv'
    <3>. HIDE DEF j
    <3>. QED  BY <2>1, <2>2, <2>3, SettleInv
  <2>. QED  BY <1>9, <2>4 DEF StallJob, TypeInv, TypeOK, link, db, results
<1>. QED  BY <1>1, <1>2, <1>3, <1>4, <1>5, <1>6, <1>7, <1>8, <1>9 DEF WorkerNext, WorkerStep

LEMMA NextTypeInv == TypeInv /\ [Next]_vars => TypeInv'
<1>. SUFFICES ASSUME TypeInv, [Next]_vars PROVE TypeInv'
  OBVIOUS
<1>1. CASE Quiet \/ UNCHANGED vars
  BY <1>1 DEF Quiet, vars, db, link, results, TypeInv, TypeOK, QueueInv
<1>2. CASE \E p \in Procs : ProducerStep(p) \/ FailProducer(p)
  BY <1>2, ProducerTypeInv
<1>3. CASE \E w \in Workers : WorkerNext(w)
  BY <1>3, WorkerTypeInv
<1>4. CASE Start
  BY <1>4, StartTypeInv
<1>. QED  BY <1>1, <1>2, <1>3, <1>4 DEF Next

\* The state is well typed in every behaviour; in particular a job is never
\* tried more than MaxAttempts times and never stalls more than twice.
THEOREM TypeCorrect == Spec => []TypeOK
<1>1. TypeInv => TypeOK
  BY DEF TypeInv
<1>. QED  BY <1>1, InitTypeInv, NextTypeInv, PTL DEF Spec

\* The same, with the strengthening later proofs use.
THEOREM TypeInvariant == Spec => []TypeInv
BY InitTypeInv, NextTypeInv, PTL DEF Spec

-----------------------------------------------------------------------------
(* Transcripts and jobs *)

\* What a producer knows about the row it works on.
ProducerInv ==
    \A p \in Procs :
        /\ proc[p].stored => /\ proc[p].kind = "sync"
                             /\ proc[p].pc \in {"resolve", "hints", "enqueue"}
                             /\ transcript[proc[p].call] # 0
        /\ (proc[p].pc = "enqueue" /\ proc[p].text # 0)
              => transcript[proc[p].call] # 0
        /\ proc[p].pc = "persist" => proc[p].kind = "sync"

\* The producer is about to queue a job for the transcript of call c.
Queueing(p, c) ==
    proc[p].call = c /\ (proc[p].stored \/ proc[p].pc = "enqueue")

KeptInv ==
    \A c \in Calls :
        transcript[c] # 0 => \/ \E j \in JobIds : j[1] = c /\ job[j].state # "none"
                             \/ c \in dropped
                             \/ \E p \in Procs : Queueing(p, c)

TranscriptInv == ProducerInv /\ PromisedTranscriptExists /\ KeptInv

LEMMA InitTranscriptInv == Init => TranscriptInv
BY DEF Init, TranscriptInv, ProducerInv, PromisedTranscriptExists, KeptInv, IdleProc, JobIds

\* Steps that leave the producers, the transcripts and the dropped calls alone
\* and change jobs only among the states of a job that exists.
LEMMA WorkerTranscriptInv ==
    ASSUME TypeInv, TranscriptInv, NEW w \in Workers, WorkerNext(w)
    PROVE  TranscriptInv'
<1>1. UNCHANGED <<proc, transcript, dropped>>
  BY DEF WorkerNext, WorkerStep, TakeJob, LoadTranscript, WriteChunk, ReadForTagging,
         SaveTags, ReadForIndexing, IndexChunk, FailJob, StallJob, db
<1>2. job \in [JobIds -> JobTypes] /\ worker[w].job \in JobIds /\ TheJob(w) \in JobTypes
  BY DEF TypeInv, TypeOK, WorkerTypes, TheJob
<1>3. worker[w].pc # "idle" => TheJob(w).state # "none"
  BY DEF TypeInv, QueueInv, TheJob
<1>4. \A i \in JobIds : /\ job'[i].hasTranscript = job[i].hasTranscript
                        /\ job'[i].state # "none" <=> job[i].state # "none"
  <2>1. ASSUME NEW j \in JobIds, TakeJob(w, j) PROVE <1>4
    BY <1>2, <2>1 DEF TakeJob, JobTypes
  <2>2. ASSUME UNCHANGED job PROVE <1>4
    BY <2>2
  <2>3. ASSUME Complete(w), worker[w].pc # "idle" PROVE <1>4
    BY <1>2, <1>3, <2>3 DEF Complete, Settle, JobTypes, TheJob
  <2>4. CASE FailJob(w)
    BY <1>2, <1>3, <2>4 DEF FailJob, Settle, JobTypes, TheJob
  <2>5. CASE StallJob(w)
    BY <1>2, <1>3, <2>5 DEF StallJob, Settle, JobTypes, TheJob
  <2>. QED
    BY <2>1, <2>2, <2>3, <2>4, <2>5
       DEF WorkerNext, WorkerStep, LoadTranscript, WriteChunk, ReadForTagging, SaveTags,
           ReadForIndexing, IndexChunk, Advance
<1>. QED  BY <1>1, <1>4 DEF TranscriptInv, ProducerInv, PromisedTranscriptExists, KeptInv, Queueing

LEMMA StartTranscriptInv ==
    ASSUME TypeInv, TranscriptInv, Start
    PROVE  TranscriptInv'
<1>1. UNCHANGED <<transcript, dropped, job>>
  BY DEF Start, ReceiveMerge, ReceiveDirect, ReceiveWebhook, ExpireMark,
         BeginSync, ConnectAccount, BackfillNext, db
<1>2. \/ UNCHANGED proc
      \/ \E p \in Procs : /\ proc[p].pc \in {"idle", "next"}
                          /\ \A q \in Procs \ {p} : proc'[q] = proc[q]
                          /\ proc'[p].pc # "enqueue" /\ ~proc'[p].stored
                          /\ proc'[p].pc = "persist" => proc'[p].kind = "sync"
  <2>0. /\ proc \in [Procs -> ProcTypes] /\ Backfillers \subseteq Procs /\ Handlers \subseteq Procs
        /\ \A p \in Procs : proc[p].pc \in {"idle", "next"} => ~proc[p].stored
    BY DEF TypeInv, TypeOK, TranscriptInv, ProducerInv, Procs
  <2>1. ASSUME NEW h \in Handlers, NEW k, NEW label \in {"upsert", "find"}, NEW c \in Calls,
               NEW e \in Events, NEW t \in Texts, ReceiveWebhook(h, k, label, c, e, t)
        PROVE <1>2
    BY <2>0, <2>1 DEF ReceiveWebhook, Begin
  <2>2. ASSUME NEW h \in Handlers, NEW c \in Calls, NEW t \in Texts, BeginSync(h, c, t)
        PROVE <1>2
    BY <2>0, <2>2 DEF BeginSync, Begin
  <2>3. ASSUME NEW b \in Backfillers, ConnectAccount(b) PROVE <1>2
    BY <2>0, <2>3 DEF ConnectAccount, Begin
  <2>4. ASSUME NEW b \in Backfillers, NEW t \in Texts, BackfillNext(b, t) PROVE <1>2
    <3>1. proc[b].pc = "next" /\ ~proc[b].stored
      BY <2>0, <2>4 DEF BackfillNext
    <3>2. CASE todo[b] = {}
      BY <2>0, <2>4, <3>1, <3>2 DEF BackfillNext, Goto, IdleProc
    <3>3. CASE todo[b] # {}
      <4>1. PICK c \in todo[b] :
              proc' = [proc EXCEPT ![b] =
                         [@ EXCEPT !.pc = "upsert", !.call = c, !.text = t]]
        BY <2>4, <3>3 DEF BackfillNext
      <4>2. /\ proc'[b].pc = "upsert"
            /\ proc'[b].stored = proc[b].stored
        BY <2>0, <4>1 DEF ProcTypes
      <4>3. \A q \in Procs \ {b} : proc'[q] = proc[q]
        BY <2>0, <4>1
      <4>. QED  BY <2>0, <3>1, <4>2, <4>3
    <3>. QED  BY <3>2, <3>3
  <2>5. ASSUME NEW m \in marks, ExpireMark(m) PROVE <1>2
    BY <2>5 DEF ExpireMark
  <2>. QED
    BY <2>1, <2>2, <2>3, <2>4, <2>5 DEF Start, ReceiveMerge, ReceiveDirect
<1>. QED  BY <1>1, <1>2 DEF TranscriptInv, ProducerInv, PromisedTranscriptExists, KeptInv, Queueing

\* A producer at a label before "enqueue" that goes on to another one.
LEMMA MoveTranscriptInv ==
    ASSUME TranscriptInv, NEW p \in Procs, UNCHANGED <<transcript, dropped, job>>,
           \A q \in Procs \ {p} : proc'[q] = proc[q],
           ~proc[p].stored, proc[p].pc # "enqueue",
           ~proc'[p].stored, proc'[p].pc \notin {"enqueue", "persist"}
    PROVE  TranscriptInv'
<1>1. ProducerInv' /\ PromisedTranscriptExists'
  BY DEF TranscriptInv, ProducerInv, PromisedTranscriptExists
<1>2. \A c \in Calls, q \in Procs : Queueing(q, c) => Queueing(q, c)'
  BY DEF Queueing
<1>. QED  BY <1>1, <1>2 DEF TranscriptInv, KeptInv

LEMMA ProducerTranscriptInv ==
    ASSUME TypeInv, TranscriptInv, NEW p \in Procs, ProducerStep(p) \/ FailProducer(p)
    PROVE  TranscriptInv'
<1>0. /\ proc \in [Procs -> ProcTypes] /\ proc[p] \in ProcTypes
      /\ proc[p].call \in Calls /\ proc[p].text \in Texts
      /\ transcript \in [Calls -> Texts] /\ job \in [JobIds -> JobTypes]
  BY DEF TypeInv, TypeOK, ProcTypes
<1>a. /\ proc[p].stored => /\ proc[p].pc \in {"resolve", "hints", "enqueue"}
                           /\ proc[p].kind = "sync"
                           /\ transcript[proc[p].call] # 0
      /\ (proc[p].pc = "enqueue" /\ proc[p].text # 0) => transcript[proc[p].call] # 0
  BY DEF TranscriptInv, ProducerInv
<1>b. IdleProc.pc = "idle" /\ IdleProc.stored = FALSE
  BY DEF IdleProc
<1>1. CASE UpsertCall(p)
  <2>1. /\ proc'[p].pc = "participants" /\ proc'[p].stored = proc[p].stored
        /\ \A q \in Procs \ {p} : proc'[q] = proc[q]
        /\ UNCHANGED <<transcript, dropped, job>> /\ proc[p].pc = "upsert"
    BY <1>0, <1>1 DEF UpsertCall, Goto, ProcTypes
  <2>. QED  BY <1>a, <2>1, MoveTranscriptInv
<1>2. CASE UpsertParticipants(p) \/ CreateParticipants(p)
  <2>1. /\ proc'[p].pc = "resolve" /\ proc'[p].stored = proc[p].stored
        /\ \A q \in Procs \ {p} : proc'[q] = proc[q]
        /\ UNCHANGED <<transcript, dropped, job>> /\ proc[p].pc = "participants"
    BY <1>0, <1>2 DEF UpsertParticipants, CreateParticipants, Goto, ProcTypes
  <2>. QED  BY <1>a, <2>1, MoveTranscriptInv
<1>3. CASE FindCall(p)
  <2>1. /\ proc'[p].pc = "store" /\ proc'[p].stored = proc[p].stored
        /\ \A q \in Procs \ {p} : proc'[q] = proc[q]
        /\ UNCHANGED <<transcript, dropped, job>> /\ proc[p].pc = "find"
    BY <1>0, <1>3 DEF FindCall, ProcTypes
  <2>. QED  BY <1>a, <2>1, MoveTranscriptInv
<1>4. CASE PersistCall(p)
  <2>. DEFINE c == proc[p].call
              isNew == c \notin calls /\ proc[p].text # 0
  <2>1. /\ proc'[p].pc = "resolve" /\ proc'[p].stored = isNew /\ proc'[p].call = c
        /\ \A q \in Procs \ {p} : proc'[q] = proc[q]
        /\ UNCHANGED <<dropped, job>> /\ proc[p].pc = "persist"
    BY <1>0, <1>4 DEF PersistCall, ProcTypes
  <2>2. transcript' = IF isNew THEN [transcript EXCEPT ![c] = proc[p].text] ELSE transcript
    BY <1>4 DEF PersistCall
  <2>3. CASE ~isNew
    BY <1>a, <2>1, <2>2, <2>3, MoveTranscriptInv
  <2>4. CASE isNew
    <3>1. proc'[p].kind = proc[p].kind /\ proc[p].text # 0
      BY <1>0, <1>4, <2>4 DEF PersistCall, ProcTypes
    <3>2. \A d \in Calls : transcript'[d] = IF d = c THEN proc[p].text ELSE transcript[d]
      BY <1>0, <2>2, <2>4
    <3>3. PromisedTranscriptExists'
      BY <1>0, <2>1, <3>1, <3>2 DEF TranscriptInv, PromisedTranscriptExists, JobIds
    <3>4. proc[p].kind = "sync"
      BY <2>1 DEF TranscriptInv, ProducerInv
    <3>5. ProducerInv'
      BY <1>0, <2>1, <2>4, <3>1, <3>2, <3>4 DEF TranscriptInv, ProducerInv, ProcTypes
    <3>6. KeptInv'
      <4>1. Queueing(p, c)'
        BY <2>1, <2>4 DEF Queueing
      <4>2. \A d \in Calls, q \in Procs : d # c /\ Queueing(q, d) => Queueing(q, d)'
        BY <1>a, <2>1 DEF Queueing
      <4>. QED  BY <2>1, <3>2, <4>1, <4>2 DEF TranscriptInv, KeptInv
    <3>. QED  BY <3>3, <3>5, <3>6 DEF TranscriptInv
  <2>. QED  BY <2>3, <2>4
\* Linking keeps the transcript a sync step stored in view.
<1>c. ASSUME UNCHANGED <<transcript, dropped, job>>,
             \A q \in Procs \ {p} : proc'[q] = proc[q],
             proc[p].pc \in {"resolve", "hints"},
             \/ proc'[p] = IdleProc /\ ~proc[p].stored
             \/ /\ proc'[p].call = proc[p].call /\ proc'[p].text = proc[p].text
                /\ proc'[p].stored = proc[p].stored /\ proc'[p].kind = proc[p].kind
                /\ \/ proc'[p].pc = "hints"
                   \/ proc'[p].pc = "store" /\ proc[p].kind # "sync"
                   \/ proc'[p].pc = "enqueue" /\ proc[p].stored
      PROVE  TranscriptInv'
  <2>1. CASE ~proc[p].stored
    BY <1>a, <1>b, <1>c, <2>1, MoveTranscriptInv
  <2>2. CASE proc[p].stored
    <3>1. ProducerInv' /\ PromisedTranscriptExists'
      BY <1>a, <1>c, <2>2 DEF TranscriptInv, ProducerInv, PromisedTranscriptExists
    <3>2. \A c \in Calls, q \in Procs : Queueing(q, c) => Queueing(q, c)'
      BY <1>c, <2>2 DEF Queueing
    <3>. QED  BY <1>c, <3>1, <3>2 DEF TranscriptInv, KeptInv
  <2>. QED  BY <2>1, <2>2
<1>d. /\ AfterLink(p) \in {"store", "enqueue", "idle"}
      /\ AfterLink(p) = "store" => proc[p].kind # "sync"
      /\ AfterLink(p) = "enqueue" => proc[p].stored
      /\ AfterLink(p) = "idle" => ~proc[p].stored
  BY <1>a, AfterLinkType DEF AfterLink
<1>5. ASSUME NEW a \in Links, ResolveAndLink(p, a) PROVE TranscriptInv'
  <2>1. PICK label \in {"hints", AfterLink(p)} :
          proc' = [proc EXCEPT ![p] = IF label = "idle" THEN IdleProc
                                      ELSE [@ EXCEPT !.pc = label, !.account = a]]
    BY <1>5 DEF ResolveAndLink
  <2>2. /\ \A q \in Procs \ {p} : proc'[q] = proc[q]
        /\ label = "idle" => proc'[p] = IdleProc
        /\ label # "idle" => /\ proc'[p].call = proc[p].call /\ proc'[p].text = proc[p].text
                             /\ proc'[p].stored = proc[p].stored
                             /\ proc'[p].kind = proc[p].kind /\ proc'[p].pc = label
    BY <1>0, <2>1 DEF ProcTypes
  <2>3. UNCHANGED <<transcript, dropped, job>> /\ proc[p].pc = "resolve"
    BY <1>5 DEF ResolveAndLink
  <2>. QED  BY <1>c, <1>d, <2>2, <2>3
<1>6. ASSUME NEW a \in Links, LinkByHints(p, a) PROVE TranscriptInv'
  <2>2. /\ \A q \in Procs \ {p} : proc'[q] = proc[q]
        /\ AfterLink(p) = "idle" => proc'[p] = IdleProc
        /\ AfterLink(p) # "idle" =>
             /\ proc'[p].call = proc[p].call /\ proc'[p].text = proc[p].text
             /\ proc'[p].stored = proc[p].stored
             /\ proc'[p].kind = proc[p].kind /\ proc'[p].pc = AfterLink(p)
    BY <1>0, <1>6 DEF LinkByHints, Goto, ProcTypes
  <2>3. UNCHANGED <<transcript, dropped, job>> /\ proc[p].pc = "hints"
    BY <1>6 DEF LinkByHints
  <2>. QED  BY <1>c, <1>d, <2>2, <2>3
<1>7. CASE StoreTranscript(p)
  <2>. DEFINE c == proc[p].call
  <2>1. /\ proc'[p].pc = "enqueue" /\ proc'[p].call = c /\ proc'[p].text = proc[p].text
        /\ proc'[p].stored = proc[p].stored /\ proc'[p].kind = proc[p].kind
        /\ \A q \in Procs \ {p} : proc'[q] = proc[q]
        /\ UNCHANGED <<dropped, job>> /\ proc[p].pc = "store"
    BY <1>0, <1>7 DEF StoreTranscript, Goto, ProcTypes
  <2>2. \A d \in Calls : transcript'[d] = IF d = c /\ proc[p].text # 0
                                           THEN proc[p].text ELSE transcript[d]
    BY <1>0, <1>7 DEF StoreTranscript
  <2>3. \A d \in Calls : transcript[d] # 0 => transcript'[d] # 0
    BY <2>2
  <2>4. PromisedTranscriptExists'
    BY <2>1, <2>3 DEF TranscriptInv, PromisedTranscriptExists, JobIds
  <2>5. ProducerInv'
    <3>1. ~proc[p].stored
      BY <1>a, <2>1
    <3>2. \A q \in Procs : proc[q].call \in Calls
      BY <1>0 DEF ProcTypes
    <3>. QED  BY <1>0, <2>1, <2>2, <2>3, <3>1, <3>2 DEF TranscriptInv, ProducerInv
  <2>6. KeptInv'
    <3>1. Queueing(p, c)'
      BY <2>1 DEF Queueing
    <3>2. \A d \in Calls, q \in Procs : d # c /\ Queueing(q, d) => Queueing(q, d)'
      BY <2>1 DEF Queueing
    <3>. QED  BY <2>1, <2>2, <3>1, <3>2 DEF TranscriptInv, KeptInv
  <2>. QED  BY <2>4, <2>5, <2>6 DEF TranscriptInv
<1>8. CASE Enqueue(p)
  <2>. DEFINE c == proc[p].call
  <2>1. /\ proc'[p].pc \in {"idle", "next"} /\ UNCHANGED <<transcript, dropped>>
        /\ proc[p].pc = "enqueue" /\ \A q \in Procs \ {p} : proc'[q] = proc[q]
        /\ proc[p].kind = "backfill" => proc'[p].stored = proc[p].stored
        /\ proc[p].kind # "backfill" => proc'[p] = IdleProc
    BY <1>0, <1>8, <1>b DEF Enqueue, Goto, ProcTypes, db
  <2>2. ~proc'[p].stored
    BY <1>a, <1>b, <2>1
  <2>3. /\ JobId(p) \in JobIds /\ JobId(p)[1] = c
    BY <1>0, ConstantsAssumption DEF JobId, JobIds, ProcTypes
  <2>4. /\ \A i \in JobIds : i # JobId(p) => job'[i] = job[i]
        /\ job'[JobId(p)].state # "none"
        /\ job[JobId(p)].state # "none" => job' = job
        /\ job[JobId(p)].state = "none" => job'[JobId(p)].hasTranscript = (proc[p].text # 0)
    BY <1>0, <1>8, <2>3 DEF Enqueue
  <2>5. PromisedTranscriptExists'
    BY <1>a, <2>1, <2>3, <2>4 DEF TranscriptInv, PromisedTranscriptExists
  <2>6. ProducerInv'
    BY <2>1, <2>2 DEF TranscriptInv, ProducerInv
  <2>7. KeptInv'
    <3>1. \A d \in Calls, q \in Procs : d # c /\ Queueing(q, d) => Queueing(q, d)'
      BY <2>1 DEF Queueing
    <3>2. \A i \in JobIds : job[i].state # "none" => job'[i].state # "none"
      BY <2>4
    <3>. QED  BY <2>1, <2>3, <2>4, <3>1, <3>2 DEF TranscriptInv, KeptInv
  <2>. QED  BY <2>5, <2>6, <2>7 DEF TranscriptInv
<1>9. CASE FailProducer(p)
  <2>1. /\ proc'[p] = IdleProc /\ \A q \in Procs \ {p} : proc'[q] = proc[q]
        /\ UNCHANGED <<transcript, job>> /\ dropped' = dropped \cup {proc[p].call}
    BY <1>0, <1>9 DEF FailProducer, Goto, db
  <2>2. ProducerInv' /\ PromisedTranscriptExists'
    BY <1>b, <2>1 DEF TranscriptInv, ProducerInv, PromisedTranscriptExists
  <2>3. \A c \in Calls, q \in Procs : c # proc[p].call /\ Queueing(q, c) => Queueing(q, c)'
    BY <2>1 DEF Queueing
  <2>. QED  BY <2>1, <2>2, <2>3 DEF TranscriptInv, KeptInv
<1>. QED  BY <1>1, <1>2, <1>3, <1>4, <1>5, <1>6, <1>7, <1>8, <1>9 DEF ProducerStep

LEMMA NextTranscriptInv == TypeInv /\ TranscriptInv /\ [Next]_vars => TranscriptInv'
<1>. SUFFICES ASSUME TypeInv, TranscriptInv, [Next]_vars PROVE TranscriptInv'
  OBVIOUS
<1>1. CASE Quiet \/ UNCHANGED vars
  BY <1>1 DEF Quiet, vars, db, TranscriptInv, ProducerInv, PromisedTranscriptExists,
              KeptInv, Queueing
<1>. QED  BY <1>1, StartTranscriptInv, ProducerTranscriptInv, WorkerTranscriptInv DEF Next

\* Whatever the interleaving of webhooks, backfill and sync, a job that was
\* queued with hasTranscript has a transcript to load.
THEOREM PromiseKept == Spec => []PromisedTranscriptExists
<1>1. TranscriptInv => PromisedTranscriptExists
  BY DEF TranscriptInv
<1>. QED
  BY <1>1, InitTranscriptInv, NextTranscriptInv, TypeInvariant, PTL DEF Spec

\* A stored transcript has a job, or a producer that will queue one, or one of
\* the producer runs of its call failed.
THEOREM TranscriptKept == Spec => []StoredTranscriptHasJob
<1>1. TypeInv /\ TranscriptInv => StoredTranscriptHasJob
  <2>. SUFFICES ASSUME TypeInv, TranscriptInv, NEW c \in Calls, transcript[c] # 0
                PROVE  JobsOf(c) # {} \/ Busy(c) \/ c \in dropped
    BY DEF StoredTranscriptHasJob
  <2>1. \A p \in Procs : Queueing(p, c) => Busy(c)
    BY DEF TranscriptInv, ProducerInv, Queueing, Busy
  <2>. QED  BY <2>1 DEF TranscriptInv, KeptInv, JobsOf
<1>. QED
  BY <1>1, InitTranscriptInv, NextTranscriptInv, TypeInvariant, PTL DEF Spec

-----------------------------------------------------------------------------
(* Chunks and tags *)

\* Worker w will still tag what row r of call c holds.
Pending(w, c, r) ==
    /\ CallOf(w) = c
    /\ \/ worker[w].pc \in {"load", "chunk", "tag"}
       \/ worker[w].pc = "saveTags" /\ worker[w].seen[r] = chunks[c][r]

\* A job of call c waits to be run, or to be replayed from the dead letters.
Parked(c) == \E j \in JobIds : j[1] = c /\ job[j].state \in {"waiting", "failed"}

Untagged(c, r) == chunks[c][r] \notin tags[c][r] \cup {0}

TagInv ==
    /\ \A c \in Calls, r \in Rows : chunks[c][r] # 0 => transcript[c] # 0
    /\ \A w \in Workers : worker[w].pc = "chunk" => transcript[CallOf(w)] # 0
    /\ \A c \in Calls, r \in Rows :
         Untagged(c, r) => Parked(c) \/ \E w \in Workers : Pending(w, c, r)

LEMMA InitTagInv == Init => TagInv
BY DEF Init, TagInv, Untagged, NoRows, IdleWorker

\* The producers only add transcripts and waiting jobs.
LEMMA ProducerTagInv ==
    ASSUME TypeInv, TypeInv', TagInv,
           Start \/ \E p \in Procs : ProducerStep(p) \/ FailProducer(p)
    PROVE  TagInv'
<1>s. Start => UNCHANGED <<worker, chunks, tags, transcript, job>>
  <2>1. ASSUME NEW h \in Handlers, NEW c \in Calls, NEW e \in Events, NEW t \in Texts,
               ReceiveMerge(h, c, e, t) \/ \E k \in Producers : ReceiveDirect(h, k, c, e, t)
        PROVE  UNCHANGED <<worker, chunks, tags, transcript, job>>
    BY <2>1 DEF ReceiveMerge, ReceiveDirect, ReceiveWebhook, results, db
  <2>2. ASSUME NEW m \in marks, ExpireMark(m)
        PROVE  UNCHANGED <<worker, chunks, tags, transcript, job>>
    BY <2>2 DEF ExpireMark, results, db
  <2>3. ASSUME NEW h \in Handlers, NEW c \in Calls, NEW t \in Texts, BeginSync(h, c, t)
        PROVE  UNCHANGED <<worker, chunks, tags, transcript, job>>
    BY <2>3 DEF BeginSync, results, db
  <2>4. ASSUME NEW b \in Backfillers, ConnectAccount(b)
        PROVE  UNCHANGED <<worker, chunks, tags, transcript, job>>
    BY <2>4 DEF ConnectAccount, results, db
  <2>5. ASSUME NEW b \in Backfillers, NEW t \in Texts, BackfillNext(b, t)
        PROVE  UNCHANGED <<worker, chunks, tags, transcript, job>>
    BY <2>5 DEF BackfillNext, results, db
  <2>. QED  BY <2>1, <2>2, <2>3, <2>4, <2>5 DEF Start
<1>p. ASSUME NEW p \in Procs, ProducerStep(p) \/ FailProducer(p)
      PROVE  /\ UNCHANGED <<worker, chunks, tags>>
             /\ transcript' = transcript \/ PersistCall(p) \/ StoreTranscript(p)
             /\ job' = job \/ Enqueue(p)
  BY <1>p DEF ProducerStep, UpsertCall, UpsertParticipants, CreateParticipants, FindCall,
         PersistCall, ResolveAndLink, LinkByHints, StoreTranscript, Enqueue, FailProducer,
         results, db
<1>1. UNCHANGED <<worker, chunks, tags>>
  BY <1>s, <1>p
<1>2. \A c \in Calls : transcript[c] # 0 => transcript'[c] # 0
  <2>1. CASE transcript' = transcript
    BY <2>1
  <2>2. ASSUME NEW p \in Procs, PersistCall(p) \/ StoreTranscript(p) PROVE <1>2
    BY <2>2 DEF PersistCall, StoreTranscript, TypeInv, TypeOK
  <2>. QED  BY <1>s, <1>p, <2>1, <2>2
<1>3. \A c \in Calls : Parked(c) => Parked(c)'
  <2>1. CASE job' = job
    BY <2>1 DEF Parked
  <2>2. ASSUME NEW p \in Procs, Enqueue(p) PROVE <1>3
    <3>1. \A i \in JobIds : job[i].state # "none" => job'[i] = job[i]
      BY <2>2 DEF Enqueue, TypeInv, TypeOK
    <3>. QED  BY <3>1 DEF Parked
  <2>. QED  BY <1>s, <1>p, <2>1, <2>2
<1>4. \A w \in Workers : CallOf(w) \in Calls
  BY DEF TypeInv, TypeOK, WorkerTypes, CallOf, JobIds
<1>. QED  BY <1>1, <1>2, <1>3, <1>4 DEF TagInv, Untagged, Pending, CallOf

LEMMA WorkerTagInv ==
    ASSUME TypeInv, TagInv, NEW w \in Workers, WorkerNext(w)
    PROVE  TagInv'
<1>0. /\ worker \in [Workers -> WorkerTypes] /\ job \in [JobIds -> JobTypes]
      /\ worker[w] \in WorkerTypes /\ worker[w].job \in JobIds /\ TheJob(w) \in JobTypes
      /\ CallOf(w) \in Calls /\ worker[w].job[1] = CallOf(w)
      /\ chunks \in [Calls -> [Rows -> Texts]]
      /\ tags \in [Calls -> [Rows -> SUBSET Texts]]
      /\ worker[w].seen \in [Rows -> Texts]
  BY DEF TypeInv, TypeOK, WorkerTypes, JobIds, CallOf, TheJob
<1>t. transcript' = transcript
  BY DEF WorkerNext, WorkerStep, TakeJob, LoadTranscript, WriteChunk, ReadForTagging,
         SaveTags, ReadForIndexing, IndexChunk, FailJob, StallJob, db
\* A worker that goes on leaves the jobs and the other workers alone.
<1>a. ASSUME NEW rec, Advance(w, rec), rec.job = worker[w].job
      PROVE  /\ \A c : Parked(c)' = Parked(c)
             /\ \A v \in Workers \ {w} : worker'[v] = worker[v]
             /\ worker'[w] = rec
             /\ \A v \in Workers : CallOf(v)' = CallOf(v)
  BY <1>0, <1>a DEF Advance, Parked, CallOf
\* A worker that hands its job back is idle; other jobs stay as they are, and
\* its own was active.
<1>b. ASSUME NEW j, Settle(w, j), worker[w].pc # "idle"
      PROVE  /\ \A c : Parked(c) => Parked(c)'
             /\ j.state \in {"waiting", "failed"} =>
                  \A c \in Calls : c = CallOf(w) => Parked(c)'
             /\ \A v \in Workers \ {w} : worker'[v] = worker[v] /\ CallOf(v)' = CallOf(v)
             /\ worker'[w].pc = "idle"
  <2>1. job[worker[w].job].state = "active"
    BY <1>b DEF TypeInv, QueueInv
  <2>2. /\ job' = [job EXCEPT ![worker[w].job] = j]
        /\ worker' = [worker EXCEPT ![w] = IdleWorker] /\ IdleWorker.pc = "idle"
    BY <1>b DEF Settle, IdleWorker
  <2>3. \A i \in JobIds : i # worker[w].job => job'[i] = job[i]
    BY <1>0, <2>2
  <2>4. job'[worker[w].job] = j
    BY <1>0, <2>2
  <2>5. \A c : Parked(c) => Parked(c)'
    BY <2>1, <2>3 DEF Parked
  <2>6. j.state \in {"waiting", "failed"} =>
          \A c \in Calls : c = CallOf(w) => Parked(c)'
    BY <1>0, <2>4 DEF Parked
  <2>. QED  BY <1>0, <2>2, <2>5, <2>6 DEF CallOf
<1>1. ASSUME NEW j \in JobIds, TakeJob(w, j) PROVE TagInv'
  <2>1. /\ UNCHANGED <<chunks, tags>> /\ worker[w].pc = "idle" /\ job[j].state = "waiting"
        /\ worker'[w].pc = "load" /\ worker'[w].job = j
        /\ \A v \in Workers \ {w} : worker'[v] = worker[v]
        /\ \A i \in JobIds : i # j => job'[i] = job[i]
    BY <1>0, <1>1 DEF TakeJob, WorkerTypes, results
  <2>2. \A c \in Calls, r \in Rows : Parked(c) => Parked(c)' \/ Pending(w, c, r)'
    BY <2>1 DEF Parked, Pending, CallOf
  <2>3. \A v \in Workers, c \in Calls, r \in Rows : Pending(v, c, r) => Pending(v, c, r)'
    BY <2>1 DEF Pending, CallOf
  <2>4. \A v \in Workers : worker'[v].pc = "chunk" => transcript[CallOf(v)'] # 0
    BY <2>1 DEF TagInv, CallOf
  <2>. QED  BY <1>t, <2>1, <2>2, <2>3, <2>4 DEF TagInv, Untagged
<1>2. CASE LoadTranscript(w)
  <2>. DEFINE rec == [worker[w] EXCEPT !.pc = "chunk", !.row = 1,
                                       !.text = transcript[CallOf(w)]]
  <2>1. UNCHANGED <<chunks, tags>> /\ worker[w].pc = "load"
    BY <1>2 DEF LoadTranscript, results
  <2>2. CASE transcript[CallOf(w)] = 0
    <3>1. Settle(w, [TheJob(w) EXCEPT !.state = "completed"])
      BY <1>2, <2>2 DEF LoadTranscript, Complete
    <3>2. /\ \A c : Parked(c) => Parked(c)'
          /\ \A v \in Workers \ {w} : worker'[v] = worker[v] /\ CallOf(v)' = CallOf(v)
          /\ worker'[w].pc = "idle"
      BY <1>b, <2>1, <3>1
    <3>3. \A c \in Calls, r \in Rows : Pending(w, c, r) => ~Untagged(c, r)
      BY <2>2 DEF TagInv, Pending, Untagged
    <3>4. \A v \in Workers \ {w}, c \in Calls, r \in Rows : Pending(v, c, r) => Pending(v, c, r)'
      BY <2>1, <3>2 DEF Pending
    <3>. QED  BY <1>t, <2>1, <3>2, <3>3, <3>4 DEF TagInv, Untagged
  <2>3. CASE transcript[CallOf(w)] # 0
    <3>1. Advance(w, rec) /\ rec.job = worker[w].job /\ rec.pc = "chunk"
      BY <1>0, <1>2, <2>3 DEF LoadTranscript, WorkerTypes
    <3>. HIDE DEF rec
    <3>2. /\ \A c : Parked(c)' = Parked(c)
          /\ \A v \in Workers \ {w} : worker'[v] = worker[v]
          /\ worker'[w] = rec /\ \A v \in Workers : CallOf(v)' = CallOf(v)
      BY <1>a, <3>1
    <3>3. \A v \in Workers, c \in Calls, r \in Rows : Pending(v, c, r) => Pending(v, c, r)'
      BY <2>1, <3>1, <3>2 DEF Pending
    <3>. QED  BY <1>t, <2>1, <2>3, <3>1, <3>2, <3>3 DEF TagInv, Untagged
  <2>. QED  BY <2>2, <2>3
<1>3. CASE WriteChunk(w)
  <2>1. PICK rec : /\ Advance(w, rec) /\ rec.job = worker[w].job
                   /\ rec.pc \in {"chunk", "tag"}
    <3>. DEFINE more == [worker[w] EXCEPT !.row = worker[w].row + 1]
                last == [worker[w] EXCEPT !.pc = "tag", !.row = 1]
    <3>1. Advance(w, more) \/ Advance(w, last)
      BY <1>3 DEF WriteChunk
    <3>2. /\ more.pc = "chunk" /\ more.job = worker[w].job
          /\ last.pc = "tag" /\ last.job = worker[w].job
      BY <1>0, <1>3 DEF WriteChunk, WorkerTypes
    <3>. HIDE DEF more, last
    <3>. QED  BY <3>1, <3>2
  <2>2. /\ worker[w].pc = "chunk" /\ tags' = tags
        /\ \A c \in Calls \ {CallOf(w)} : chunks'[c] = chunks[c]
    BY <1>0, <1>3 DEF WriteChunk
  <2>3. /\ \A c : Parked(c)' = Parked(c)
        /\ \A v \in Workers \ {w} : worker'[v] = worker[v]
        /\ worker'[w] = rec /\ \A v \in Workers : CallOf(v)' = CallOf(v)
    BY <1>a, <2>1
  <2>4. \A r \in Rows : Pending(w, CallOf(w), r)'
    BY <2>1, <2>3 DEF Pending
  <2>5. \A v \in Workers, c \in Calls \ {CallOf(w)}, r \in Rows :
          Pending(v, c, r) => Pending(v, c, r)'
    BY <2>2, <2>3 DEF Pending
  <2>6. \A c \in Calls \ {CallOf(w)}, r \in Rows : Untagged(c, r)' => Untagged(c, r)
    BY <2>2 DEF Untagged
  <2>7. transcript[CallOf(w)] # 0
    BY <2>2 DEF TagInv
  <2>8. \A c \in Calls, r \in Rows : chunks'[c][r] # 0 => transcript'[c] # 0
    BY <1>t, <2>2, <2>7 DEF TagInv
  <2>9. \A v \in Workers : worker'[v].pc = "chunk" => transcript'[CallOf(v)'] # 0
    BY <1>t, <2>3, <2>7 DEF TagInv
  <2>10. \A c \in Calls, r \in Rows :
           Untagged(c, r)' => Parked(c)' \/ \E v \in Workers : Pending(v, c, r)'
    BY <2>3, <2>4, <2>5, <2>6 DEF TagInv
  <2>. QED  BY <2>8, <2>9, <2>10 DEF TagInv
<1>4. CASE ReadForTagging(w)
  <2>. DEFINE rec == [worker[w] EXCEPT !.pc = "saveTags", !.seen = chunks[CallOf(w)]]
  <2>1. /\ Advance(w, rec) /\ rec.job = worker[w].job /\ rec.pc = "saveTags"
        /\ rec.seen = chunks[CallOf(w)]
        /\ worker[w].pc = "tag" /\ UNCHANGED <<chunks, tags>>
    BY <1>0, <1>4 DEF ReadForTagging, WorkerTypes, results
  <2>. HIDE DEF rec
  <2>2. /\ \A c : Parked(c)' = Parked(c)
        /\ \A v \in Workers \ {w} : worker'[v] = worker[v]
        /\ worker'[w] = rec /\ \A v \in Workers : CallOf(v)' = CallOf(v)
    BY <1>a, <2>1
  <2>3. \A v \in Workers, c \in Calls, r \in Rows : Pending(v, c, r) => Pending(v, c, r)'
    BY <2>1, <2>2 DEF Pending
  <2>. QED  BY <1>t, <2>1, <2>2, <2>3 DEF TagInv, Untagged
<1>5. CASE SaveTags(w)
  <2>0. /\ worker[w].pc = "saveTags" /\ chunks' = chunks
        /\ \A c \in Calls, r \in Rows : tags[c][r] \subseteq tags'[c][r]
        /\ \A r \in Rows : worker[w].seen[r] # 0 => worker[w].seen[r] \in tags'[CallOf(w)][r]
    BY <1>0, <1>5 DEF SaveTags
  <2>1. /\ \A c : Parked(c) => Parked(c)'
        /\ \A v \in Workers \ {w} : worker'[v] = worker[v] /\ CallOf(v)' = CallOf(v)
        /\ worker'[w].pc \in {"idle", "index"}
    <3>1. CASE TheJob(w).account = NoAccount
      <4>1. Settle(w, [TheJob(w) EXCEPT !.state = "completed"])
        BY <1>5, <3>1 DEF SaveTags, Complete
      <4>. QED  BY <1>b, <2>0, <4>1
    <3>2. CASE TheJob(w).account # NoAccount
      <4>. DEFINE rec == [worker[w] EXCEPT !.pc = "index", !.seen = NoRows]
      <4>1. Advance(w, rec) /\ rec.job = worker[w].job /\ rec.pc = "index"
        BY <1>0, <1>5, <3>2 DEF SaveTags, WorkerTypes
      <4>. HIDE DEF rec
      <4>. QED  BY <1>a, <4>1
    <3>. QED  BY <3>1, <3>2
  <2>2. \A v \in Workers \ {w}, c \in Calls, r \in Rows : Pending(v, c, r) => Pending(v, c, r)'
    BY <2>0, <2>1 DEF Pending
  <2>3. \A c \in Calls, r \in Rows : Pending(w, c, r) => ~Untagged(c, r)'
    BY <2>0 DEF Pending, Untagged
  <2>4. \A c \in Calls, r \in Rows : Untagged(c, r)' => Untagged(c, r)
    BY <2>0 DEF Untagged
  <2>5. \A v \in Workers : worker'[v].pc = "chunk" => transcript'[CallOf(v)'] # 0
    BY <1>t, <2>1 DEF TagInv
  <2>. QED  BY <1>t, <2>0, <2>1, <2>2, <2>3, <2>4, <2>5 DEF TagInv
\* The other steps start where w has nothing left to tag, or park its job.
<1>c. ASSUME UNCHANGED <<chunks, tags>>, \A c : Parked(c) => Parked(c)',
             \A v \in Workers \ {w} : worker'[v] = worker[v] /\ CallOf(v)' = CallOf(v),
             worker'[w].pc # "chunk",
             \/ worker[w].pc \in {"index", "embed"}
             \/ \A c \in Calls : c = CallOf(w) => Parked(c)'
      PROVE  TagInv'
  <2>1. \A v \in Workers \ {w}, c \in Calls, r \in Rows : Pending(v, c, r) => Pending(v, c, r)'
    BY <1>c DEF Pending
  <2>2. \A c \in Calls, r \in Rows : Pending(w, c, r) => Parked(c)'
    BY <1>c DEF Pending
  <2>. QED  BY <1>t, <1>c, <2>1, <2>2 DEF TagInv, Untagged
<1>6. CASE ReadForIndexing(w)
  <2>. DEFINE rec == [worker[w] EXCEPT !.pc = "embed", !.seen = chunks[CallOf(w)],
                        !.left = {r \in Rows : chunks[CallOf(w)][r] # 0}]
  <2>1. /\ Advance(w, rec) /\ rec.job = worker[w].job /\ rec.pc = "embed"
        /\ worker[w].pc = "index" /\ UNCHANGED <<chunks, tags>>
    BY <1>0, <1>6 DEF ReadForIndexing, WorkerTypes, results
  <2>. HIDE DEF rec
  <2>. QED  BY <1>a, <1>c, <2>1
<1>7. ASSUME NEW r \in Rows, IndexChunk(w, r) PROVE TagInv'
  <2>. DEFINE rec == [worker[w] EXCEPT !.left = worker[w].left \ {r}]
  <2>0. /\ worker[w].pc = "embed" /\ UNCHANGED <<chunks, tags>>
        /\ rec.job = worker[w].job /\ rec.pc = "embed"
    BY <1>0, <1>7 DEF IndexChunk, WorkerTypes
  <2>1. Advance(w, rec) \/ Settle(w, [TheJob(w) EXCEPT !.state = "completed"])
    BY <1>7 DEF IndexChunk, Complete
  <2>. HIDE DEF rec
  <2>2. CASE Advance(w, rec)
    BY <1>a, <1>c, <2>0, <2>2
  <2>3. CASE Settle(w, [TheJob(w) EXCEPT !.state = "completed"])
    BY <1>b, <1>c, <2>0, <2>3
  <2>. QED  BY <2>1, <2>2, <2>3
<1>8. CASE FailJob(w) \/ StallJob(w)
  <2>1. PICK j : Settle(w, j) /\ j.state \in {"waiting", "failed"}
    <3>. DEFINE retry == [TheJob(w) EXCEPT
                            !.attempts = TheJob(w).attempts + 1,
                            !.state = IF TheJob(w).attempts + 1 < MaxAttempts
                                        THEN "waiting" ELSE "failed"]
                again == [TheJob(w) EXCEPT
                            !.stalls = TheJob(w).stalls + 1,
                            !.state = IF TheJob(w).stalls = 0
                                        THEN "waiting" ELSE "failed"]
    <3>1. Settle(w, retry) \/ Settle(w, again)
      BY <1>8 DEF FailJob, StallJob
    <3>2. retry.state \in {"waiting", "failed"} /\ again.state \in {"waiting", "failed"}
      BY <1>0 DEF JobTypes
    <3>. HIDE DEF retry, again
    <3>. QED  BY <3>1, <3>2
  <2>2. worker[w].pc # "idle" /\ UNCHANGED <<chunks, tags>>
    BY <1>8 DEF FailJob, StallJob, results
  <2>. QED  BY <1>b, <1>c, <2>1, <2>2
<1>. QED  BY <1>1, <1>2, <1>3, <1>4, <1>5, <1>6, <1>7, <1>8 DEF WorkerNext, WorkerStep

LEMMA NextTagInv == TypeInv /\ TypeInv' /\ TagInv /\ [Next]_vars => TagInv'
<1>. SUFFICES ASSUME TypeInv, TypeInv', TagInv, [Next]_vars PROVE TagInv'
  OBVIOUS
<1>1. CASE Quiet \/ UNCHANGED vars
  BY <1>1 DEF Quiet, vars, db, results, TagInv, Untagged, Parked, Pending, CallOf
<1>. QED  BY <1>1, ProducerTagInv, WorkerTagInv DEF Next

\* As long as a chunk lacks the tags of its text, the queue holds a job of its
\* call that is waiting, running or a dead letter.
THEOREM ChunksGetTagged == Spec => []UntaggedChunkHasOpenJob
<1>2. TypeInv /\ TagInv => UntaggedChunkHasOpenJob
  <2>. SUFFICES ASSUME TypeInv, TagInv, NEW c \in Calls, NEW r \in Rows, Untagged(c, r)
                PROVE  OpenJobs(c) # {}
    BY DEF UntaggedChunkHasOpenJob, Untagged
  <2>1. \A j \in JobIds : j[1] = c /\ job[j].state \in {"waiting", "active", "failed"}
                            => j \in OpenJobs(c)
    BY DEF OpenJobs, JobsOf
  <2>2. \A w \in Workers : Pending(w, c, r) =>
           /\ worker[w].job \in JobIds /\ worker[w].job[1] = c
           /\ job[worker[w].job].state = "active"
    BY DEF TypeInv, TypeOK, QueueInv, Pending, CallOf, WorkerTypes
  <2>. QED  BY <2>1, <2>2 DEF TagInv, Parked
<1>. QED  BY <1>2, NextTagInv, InitTagInv, TypeInvariant, PTL DEF Spec

-----------------------------------------------------------------------------
(* Backfill *)

\* The queue still knows every job it has known.
JobsStay == \A j \in JobIds : job[j].state # "none" => job'[j].state # "none"

\* A backfill that runs has queued, under its own run's number, a job for every
\* recording it has taken but the one it is at work on.
BackfillInv ==
    \A b \in Backfillers :
        proc[b].pc # "idle" =>
          /\ proc[b].kind = "backfill" /\ proc[b].run \in 1..MaxDeliveries
          /\ \A c \in Calls \ todo[b] :
               \/ job[<<c, proc[b].run>>].state # "none"
               \/ proc[b].pc # "next" /\ proc[b].call = c

SyncInv == SyncDoneMeansQueued /\ BackfillInv

\* No step makes the queue forget a job.
LEMMA JobsAreKept == TypeInv /\ [Next]_vars => JobsStay
<1>. SUFFICES ASSUME TypeInv, [Next]_vars PROVE JobsStay
  OBVIOUS
<1>0. job \in [JobIds -> JobTypes] /\ worker \in [Workers -> WorkerTypes]
  BY DEF TypeInv, TypeOK
<1>1. CASE UNCHANGED job
  BY <1>1 DEF JobsStay
<1>2. ASSUME NEW w \in Workers, NEW j, Settle(w, j), j.state # "none"
      PROVE  JobsStay
  BY <1>0, <1>2 DEF Settle, JobsStay, WorkerTypes
<1>3. ASSUME NEW w \in Workers, WorkerNext(w) PROVE JobsStay
  <2>0. TheJob(w) \in JobTypes
    BY <1>0 DEF TheJob, WorkerTypes
  <2>1. CASE Complete(w)
    BY <1>2, <2>0, <2>1 DEF Complete, JobTypes
  <2>2. ASSUME NEW j \in JobIds, TakeJob(w, j) PROVE JobsStay
    BY <1>0, <2>2 DEF TakeJob, JobsStay, JobTypes
  <2>3. CASE FailJob(w)
    <3>. DEFINE j == [TheJob(w) EXCEPT !.attempts = TheJob(w).attempts + 1,
                        !.state = IF TheJob(w).attempts + 1 < MaxAttempts
                                    THEN "waiting" ELSE "failed"]
    <3>1. Settle(w, j) /\ j.state \in {"waiting", "failed"}
      BY <2>0, <2>3 DEF FailJob, JobTypes
    <3>. HIDE DEF j
    <3>. QED  BY <1>2, <3>1
  <2>4. CASE StallJob(w)
    <3>. DEFINE j == [TheJob(w) EXCEPT !.stalls = TheJob(w).stalls + 1,
                        !.state = IF TheJob(w).stalls = 0 THEN "waiting" ELSE "failed"]
    <3>1. Settle(w, j) /\ j.state \in {"waiting", "failed"}
      BY <2>0, <2>4 DEF StallJob, JobTypes
    <3>. HIDE DEF j
    <3>. QED  BY <1>2, <3>1
  <2>5. CASE WorkerStep(w)
    BY <1>1, <2>1, <2>5 DEF WorkerStep, LoadTranscript, WriteChunk, ReadForTagging,
       SaveTags, ReadForIndexing, IndexChunk, Advance
  <2>. QED  BY <1>3, <2>2, <2>3, <2>4, <2>5 DEF WorkerNext
<1>4. ASSUME NEW p \in Procs, ProducerStep(p) \/ FailProducer(p) PROVE JobsStay
  <2>1. CASE Enqueue(p)
    BY <1>0, <2>1 DEF Enqueue, JobsStay
  <2>. QED
    BY <1>1, <1>4, <2>1 DEF ProducerStep, UpsertCall, UpsertParticipants,
       CreateParticipants, FindCall, PersistCall, ResolveAndLink, LinkByHints,
       StoreTranscript, FailProducer
<1>5. CASE Start
  <2>1. UNCHANGED job
    BY <1>5 DEF Start, ReceiveMerge, ReceiveDirect, ReceiveWebhook, ExpireMark, BeginSync,
       ConnectAccount, BackfillNext
  <2>. QED  BY <1>1, <2>1
<1>6. CASE Quiet \/ UNCHANGED vars
  BY <1>1, <1>6 DEF Quiet, vars
<1>. QED  BY <1>3, <1>4, <1>5, <1>6 DEF Next

\* A producer that goes on stays with its run and its recording; the backfill
\* asks for its next recording only after it queued a job.
LEMMA SameRun ==
    ASSUME TypeInv, NEW p \in Procs, ProducerStep(p) \/ FailProducer(p)
    PROVE  /\ \A q \in Procs : q # p => proc'[q] = proc[q]
           /\ \/ proc'[p].pc = "idle"
              \/ /\ proc[p].pc \notin {"idle", "next"}
                 /\ proc'[p].call = proc[p].call /\ proc'[p].kind = proc[p].kind
                 /\ proc'[p].run = proc[p].run
                 /\ proc'[p].pc = "next" => Enqueue(p)
           /\ UNCHANGED <<synced, todo>>
<1>0. proc \in [Procs -> ProcTypes] /\ proc[p] \in ProcTypes
  BY DEF TypeInv, TypeOK
<1>. DEFINE Others == \A q \in Procs : q # p => proc'[q] = proc[q]
            Same == /\ proc'[p].call = proc[p].call /\ proc'[p].kind = proc[p].kind
                    /\ proc'[p].run = proc[p].run
<1>1. ASSUME NEW l, Goto(p, l)
      PROVE  Others /\ (proc'[p].pc = "idle" \/ (Same /\ proc'[p].pc = l))
  BY <1>0, <1>1 DEF Goto, ProcTypes, IdleProc
<1>2. CASE UpsertCall(p) \/ UpsertParticipants(p) \/ CreateParticipants(p)
           \/ StoreTranscript(p)
  BY <1>1, <1>2 DEF UpsertCall, UpsertParticipants, CreateParticipants, StoreTranscript,
                    link, db
<1>3. CASE Enqueue(p)
  BY <1>1, <1>3 DEF Enqueue, link
<1>4. CASE FindCall(p) \/ PersistCall(p)
  BY <1>0, <1>4 DEF FindCall, PersistCall, ProcTypes, link
<1>5. ASSUME NEW a \in Links, ResolveAndLink(p, a) PROVE Others /\
        (proc'[p].pc = "idle" \/ (Same /\ proc'[p].pc # "next" /\ proc[p].pc = "resolve"))
        /\ UNCHANGED <<synced, todo>>
  <2>1. AfterLink(p) \in {"store", "enqueue", "idle"}
    BY AfterLinkType
  <2>. QED  BY <1>0, <1>5, <2>1 DEF ResolveAndLink, ProcTypes, IdleProc, link
<1>6. ASSUME NEW a \in Links, LinkByHints(p, a) PROVE Others /\
        (proc'[p].pc = "idle" \/ (Same /\ proc'[p].pc # "next" /\ proc[p].pc = "hints"))
        /\ UNCHANGED <<synced, todo>>
  <2>1. AfterLink(p) \in {"store", "enqueue", "idle"}
    BY AfterLinkType
  <2>. QED  BY <1>1, <1>6, <2>1 DEF LinkByHints, link
<1>7. CASE FailProducer(p)
  BY <1>0, <1>7 DEF FailProducer, Goto, IdleProc
<1>. QED  BY <1>2, <1>3, <1>4, <1>5, <1>6, <1>7 DEF ProducerStep

\* SyncInv holds as long as initialSyncDone stays and every backfill stops, or
\* keeps its list and its place.
LEMMA SyncKept ==
    ASSUME SyncInv, JobsStay, UNCHANGED synced, TypeInv,
           \A b \in Backfillers :
              \/ proc'[b].pc = "idle"
              \/ proc'[b] = proc[b] /\ todo'[b] = todo[b]
    PROVE  SyncInv'
<1>1. \A c \in Calls, n \in 1..MaxDeliveries : <<c, n>> \in JobIds
  BY ConstantsAssumption DEF JobIds
<1>2. SyncDoneMeansQueued'
  BY <1>1 DEF SyncInv, SyncDoneMeansQueued, JobsStay
<1>3. BackfillInv'
  BY <1>1 DEF SyncInv, BackfillInv, JobsStay
<1>. QED  BY <1>2, <1>3 DEF SyncInv

\* SyncInv holds when one backfill has moved and keeps its promise.
LEMMA SyncMoved ==
    ASSUME SyncInv, JobsStay, TypeInv, NEW p \in Backfillers, SyncDoneMeansQueued',
           \A b \in Backfillers \ {p} : proc'[b] = proc[b] /\ todo'[b] = todo[b],
           proc'[p].kind = "backfill", proc'[p].run \in 1..MaxDeliveries,
           \A c \in Calls \ todo'[p] :
               \/ job'[<<c, proc'[p].run>>].state # "none"
               \/ proc'[p].pc # "next" /\ proc'[p].call = c
    PROVE  SyncInv'
<1>1. \A c \in Calls, n \in 1..MaxDeliveries : <<c, n>> \in JobIds
  BY ConstantsAssumption DEF JobIds
<1>2. ASSUME NEW b \in Backfillers, proc'[b].pc # "idle"
      PROVE  /\ proc'[b].kind = "backfill" /\ proc'[b].run \in 1..MaxDeliveries
             /\ \A c \in Calls \ todo'[b] :
                  \/ job'[<<c, proc'[b].run>>].state # "none"
                  \/ proc'[b].pc # "next" /\ proc'[b].call = c
  <2>1. CASE b = p
    BY <2>1
  <2>2. CASE b # p
    BY <1>1, <1>2, <2>2 DEF SyncInv, BackfillInv, JobsStay
  <2>. QED  BY <2>1, <2>2
<1>3. BackfillInv'
  BY <1>2 DEF BackfillInv
<1>. QED  BY <1>3 DEF SyncInv

\* A backfill is done only after its list is empty.
LEMMA NextSyncInv == TypeInv /\ SyncInv /\ [Next]_vars => SyncInv'
<1>. SUFFICES ASSUME TypeInv, SyncInv, [Next]_vars PROVE SyncInv'
  OBVIOUS
<1>0. /\ JobsStay /\ Backfillers \subseteq Procs /\ Backfillers \cap Handlers = {}
      /\ proc \in [Procs -> ProcTypes] /\ todo \in [Backfillers -> SUBSET Calls]
      /\ \A c \in Calls, n \in 1..MaxDeliveries : <<c, n>> \in JobIds
  BY JobsAreKept, ConstantsAssumption DEF Procs, TypeInv, TypeOK, JobIds
<1>1. CASE Quiet \/ UNCHANGED vars
  BY <1>0, <1>1, SyncKept DEF Quiet, vars, link
<1>2. CASE \E w \in Workers : WorkerNext(w)
  <2>1. UNCHANGED <<synced, todo, proc>>
    BY <1>2 DEF WorkerNext, WorkerStep, TakeJob, LoadTranscript, WriteChunk, ReadForTagging,
       SaveTags, ReadForIndexing, IndexChunk, FailJob, StallJob, link
  <2>. QED  BY <1>0, <2>1, SyncKept
<1>3. ASSUME NEW p \in Procs, ProducerStep(p) \/ FailProducer(p) PROVE SyncInv'
  <2>0. /\ \A q \in Procs : q # p => proc'[q] = proc[q]
        /\ UNCHANGED <<synced, todo>>
    BY <1>3, SameRun
  <2>1. CASE p \notin Backfillers \/ proc'[p].pc = "idle"
    BY <1>0, <2>0, <2>1, SyncKept
  <2>2. CASE p \in Backfillers /\ proc'[p].pc # "idle"
    <3>1. /\ proc[p].pc \notin {"idle", "next"}
          /\ proc'[p].call = proc[p].call /\ proc'[p].kind = proc[p].kind
          /\ proc'[p].run = proc[p].run
          /\ proc'[p].pc = "next" => Enqueue(p)
      BY <1>3, <2>2, SameRun
    <3>2. /\ proc[p].kind = "backfill" /\ proc[p].run \in 1..MaxDeliveries
          /\ \A c \in Calls \ todo[p] :
               job[<<c, proc[p].run>>].state # "none" \/ proc[p].call = c
      BY <2>2, <3>1 DEF SyncInv, BackfillInv
    <3>3. ASSUME NEW c \in Calls \ todo[p]
          PROVE  job'[<<c, proc[p].run>>].state # "none"
                 \/ (proc'[p].pc # "next" /\ proc[p].call = c)
      <4>1. CASE job[<<c, proc[p].run>>].state # "none"
        BY <1>0, <3>2, <4>1 DEF JobsStay
      <4>2. CASE proc[p].call = c /\ proc'[p].pc # "next"
        BY <4>2
      <4>3. CASE proc[p].call = c /\ proc'[p].pc = "next"
        <5>1. Enqueue(p) /\ JobId(p) = <<c, proc[p].run>>
          BY <3>1, <3>2, <4>3 DEF JobId, Webhooks
        <5>2. JobId(p) \in JobIds /\ job \in [JobIds -> JobTypes]
          BY <1>0, <3>2, <5>1 DEF TypeInv, TypeOK
        <5>3. job'[JobId(p)].state # "none"
          BY <5>1, <5>2 DEF Enqueue
        <5>. QED  BY <5>1, <5>3
      <4>. QED  BY <3>2, <4>1, <4>2, <4>3
    <3>4. SyncDoneMeansQueued'
      BY <1>0, <2>0 DEF SyncInv, SyncDoneMeansQueued, JobsStay
    <3>. QED  BY <1>0, <2>0, <2>2, <3>1, <3>2, <3>3, <3>4, SyncMoved
  <2>. QED  BY <2>1, <2>2
<1>4. ASSUME NEW h \in Handlers, NEW k, NEW label, NEW c, NEW t, Begin(h, k, label, c, t),
             UNCHANGED link
      PROVE  SyncInv'
  <2>1. \A b \in Backfillers : proc'[b] = proc[b] /\ todo'[b] = todo[b]
    BY <1>0, <1>4 DEF Begin, link
  <2>. QED  BY <1>0, <1>4, <2>1, SyncKept DEF link
<1>5. CASE \E h \in Handlers, c \in Calls, e \in Events, t \in Texts :
             ReceiveMerge(h, c, e, t) \/ \E k \in Producers : ReceiveDirect(h, k, c, e, t)
  BY <1>4, <1>5 DEF ReceiveMerge, ReceiveDirect, ReceiveWebhook
<1>6. CASE \E m \in marks : ExpireMark(m)
  BY <1>0, <1>6, SyncKept DEF ExpireMark, link
<1>7. CASE \E h \in Handlers, c \in Calls, t \in Texts : BeginSync(h, c, t)
  BY <1>4, <1>7 DEF BeginSync
<1>8. ASSUME NEW b \in Backfillers, ConnectAccount(b) PROVE SyncInv'
  <2>1. CASE synced
    BY <1>0, <1>8, <2>1, SyncKept DEF ConnectAccount
  <2>2. CASE ~synced
    <3>1. /\ proc'[b].kind = "backfill" /\ proc'[b].run = deliveries + 1
          /\ deliveries + 1 \in 1..MaxDeliveries /\ todo'[b] = Calls /\ synced' = synced
          /\ \A a \in Backfillers \ {b} : proc'[a] = proc[a] /\ todo'[a] = todo[a]
      BY <1>0, <1>8, <2>2, ConstantsAssumption DEF ConnectAccount, Begin, TypeInv, TypeOK
    <3>2. SyncDoneMeansQueued'
      BY <2>2, <3>1 DEF SyncDoneMeansQueued
    <3>. QED  BY <1>0, <3>1, <3>2, SyncMoved
  <2>. QED  BY <2>1, <2>2
<1>9. ASSUME NEW b \in Backfillers, NEW t \in Texts, BackfillNext(b, t) PROVE SyncInv'
  <2>1. /\ proc[b].pc = "next" /\ proc[b].kind = "backfill" /\ proc[b].run \in 1..MaxDeliveries
        /\ \A c \in Calls \ todo[b] : job[<<c, proc[b].run>>].state # "none"
        /\ UNCHANGED job /\ proc[b] \in ProcTypes
    BY <1>0, <1>9 DEF BackfillNext, SyncInv, BackfillInv
  <2>2. CASE todo[b] = {}
    <3>1. /\ proc'[b].pc = "idle" /\ UNCHANGED todo
          /\ \A a \in Backfillers \ {b} : proc'[a] = proc[a]
      BY <1>0, <1>9, <2>2 DEF BackfillNext, Goto, IdleProc
    <3>2. SyncDoneMeansQueued'
      BY <2>1, <2>2 DEF SyncDoneMeansQueued
    <3>3. BackfillInv'
      BY <2>1, <3>1 DEF SyncInv, BackfillInv
    <3>. QED  BY <3>2, <3>3 DEF SyncInv
  <2>3. CASE todo[b] # {}
    <3>1. PICK c \in todo[b] :
            /\ todo' = [todo EXCEPT ![b] = todo[b] \ {c}] /\ UNCHANGED synced
            /\ proc' = [proc EXCEPT ![b] =
                           [@ EXCEPT !.pc = "upsert", !.call = c, !.text = t]]
      BY <1>9, <2>3 DEF BackfillNext
    <3>2. /\ proc'[b].pc = "upsert" /\ proc'[b].call = c
          /\ proc'[b].kind = proc[b].kind /\ proc'[b].run = proc[b].run
          /\ todo'[b] = todo[b] \ {c}
          /\ \A a \in Backfillers \ {b} : proc'[a] = proc[a] /\ todo'[a] = todo[a]
      BY <1>0, <2>1, <3>1 DEF ProcTypes
    <3>3. SyncDoneMeansQueued'
      BY <2>1, <3>1 DEF SyncInv, SyncDoneMeansQueued
    <3>. QED  BY <1>0, <2>1, <3>2, <3>3, SyncMoved
  <2>. QED  BY <2>2, <2>3
<1>. QED  BY <1>1, <1>2, <1>3, <1>5, <1>6, <1>7, <1>8, <1>9 DEF Next, Start

\* initialSyncDone is never set before one run of the backfill queued a job for
\* every recording, however runs fail and accounts are connected again.
THEOREM SyncIsComplete ==
    ASSUME "backfill" \in Producers
    PROVE  Spec => []SyncDoneMeansQueued
<1>1. Init => SyncInv
  <2>. SUFFICES ASSUME Init PROVE SyncInv
    OBVIOUS
  <2>1. synced = ("backfill" \notin Producers) /\ proc = [p \in Procs |-> IdleProc]
    BY DEF Init
  <2>2. ~synced
    BY <2>1, Zenon
  <2>3. \A b \in Backfillers : proc[b].pc = "idle"
    BY <2>1 DEF IdleProc, Procs
  <2>. QED  BY <2>2, <2>3 DEF SyncInv, SyncDoneMeansQueued, BackfillInv
<1>2. SyncInv => SyncDoneMeansQueued
  BY DEF SyncInv
<1>. QED  BY <1>1, <1>2, NextSyncInv, TypeInvariant, PTL DEF Spec

-----------------------------------------------------------------------------
(* The index of a call *)

\* Every row but those in S has, among the vectors ve, the vector of its text in
\* ch under the account a.
Indexed(ch, ve, S, a) ==
    \A r \in Rows \ S : ch[r] # 0 => ve[r] = [text |-> ch[r], account |-> a]

\* In the queue q, job j is the only job of its call.
Alone(q, j) ==
    \A i \in JobIds : (i[1] = j[1] /\ q[i].state # "none") => i = j

\* The worker of a call's only job, once it indexes, has read the rows as they
\* are and has them all indexed but those it has left.
IndexInv ==
    /\ \A w \in Workers :
         (worker[w].pc = "embed" /\ Alone(job, worker[w].job)) =>
           /\ worker[w].seen = chunks[CallOf(w)]
           /\ Indexed(chunks[CallOf(w)], vectors[CallOf(w)], worker[w].left,
                      TheJob(w).account)
    /\ \A j \in JobIds :
         (job[j].state = "completed" /\ job[j].account # NoAccount /\ Alone(job, j)) =>
           Indexed(chunks[j[1]], vectors[j[1]], {}, job[j].account)

\* A job that is alone has always been.
LEMMA AloneBefore == ASSUME JobsStay, NEW j, Alone(job', j) PROVE Alone(job, j)
BY DEF JobsStay, Alone

\* Steps of the producers only queue new jobs.
LEMMA ProducerIndexInv ==
    ASSUME TypeInv, IndexInv, JobsStay,
           Start \/ \E p \in Procs : ProducerStep(p) \/ FailProducer(p)
    PROVE  IndexInv'
<1>0. job \in [JobIds -> JobTypes] /\ worker \in [Workers -> WorkerTypes]
  BY DEF TypeInv, TypeOK
<1>1. /\ UNCHANGED <<worker, chunks, vectors>>
      /\ job' = job \/ \E p \in Procs : Enqueue(p)
  BY DEF Start, ReceiveMerge, ReceiveDirect, ReceiveWebhook, ExpireMark, BeginSync,
     ConnectAccount, BackfillNext, ProducerStep, UpsertCall, UpsertParticipants,
     CreateParticipants, FindCall, PersistCall, ResolveAndLink, LinkByHints,
     StoreTranscript, Enqueue, FailProducer, results
<1>2. \A i \in JobIds : /\ job[i].state # "none" => job'[i] = job[i]
                        /\ job'[i].state = "completed" => job'[i] = job[i]
  BY <1>0, <1>1 DEF Enqueue, JobTypes
<1>3. ASSUME NEW w \in Workers, worker'[w].pc = "embed", Alone(job', worker'[w].job)
      PROVE  /\ worker'[w].seen = chunks'[CallOf(w)']
             /\ Indexed(chunks'[CallOf(w)'], vectors'[CallOf(w)'], worker'[w].left,
                        TheJob(w)'.account)
  <2>1. worker[w].job \in JobIds /\ job[worker[w].job].state = "active"
    BY <1>0, <1>1, <1>3 DEF TypeInv, QueueInv, WorkerTypes
  <2>2. CallOf(w)' = CallOf(w) /\ TheJob(w)' = TheJob(w)
    BY <1>1, <1>2, <2>1 DEF CallOf, TheJob
  <2>3. Alone(job, worker[w].job)
    BY <1>1, <1>3, AloneBefore
  <2>. QED  BY <1>1, <1>3, <2>2, <2>3 DEF IndexInv
<1>4. ASSUME NEW j \in JobIds, job'[j].state = "completed", job'[j].account # NoAccount,
             Alone(job', j)
      PROVE  Indexed(chunks'[j[1]], vectors'[j[1]], {}, job'[j].account)
  BY <1>1, <1>2, <1>4, AloneBefore DEF IndexInv
<1>. QED  BY <1>3, <1>4 DEF IndexInv

\* What the owner of an active job may change: the rows and vectors of its call
\* only; every other job that is alone is a job of another call.
LEMMA OwnCallOnly ==
    ASSUME TypeInv, IndexInv, JobsStay, NEW w \in Workers, worker[w].pc # "idle",
           \A c \in Calls : c # CallOf(w) =>
               chunks'[c] = chunks[c] /\ vectors'[c] = vectors[c],
           \A v \in Workers : v # w => worker'[v] = worker[v],
           \A j \in JobIds : j # worker[w].job => job'[j] = job[j],
           (worker'[w].pc = "embed" /\ Alone(job, worker[w].job)) =>
               /\ worker'[w].job = worker[w].job
               /\ worker'[w].seen = chunks'[CallOf(w)]
               /\ Indexed(chunks'[CallOf(w)], vectors'[CallOf(w)], worker'[w].left,
                          job'[worker[w].job].account),
           worker'[w].pc = "embed" => worker'[w].job = worker[w].job,
           (/\ job'[worker[w].job].state = "completed"
            /\ job'[worker[w].job].account # NoAccount
            /\ Alone(job, worker[w].job))
               => Indexed(chunks'[CallOf(w)], vectors'[CallOf(w)], {},
                          job'[worker[w].job].account)
    PROVE  IndexInv'
<1>0. /\ worker \in [Workers -> WorkerTypes] /\ job \in [JobIds -> JobTypes]
      /\ worker[w].job \in JobIds /\ job[worker[w].job].state = "active"
      /\ CallOf(w) = worker[w].job[1]
      /\ \A j \in JobIds : j[1] \in Calls
  BY DEF TypeInv, TypeOK, QueueInv, WorkerTypes, JobIds, CallOf
<1>1. ASSUME NEW j \in JobIds, j # worker[w].job, Alone(job', j)
      PROVE  /\ Alone(job, j) /\ job'[j] = job[j]
             /\ chunks'[j[1]] = chunks[j[1]] /\ vectors'[j[1]] = vectors[j[1]]
  <2>1. Alone(job, j)
    BY <1>1, AloneBefore
  <2>2. j[1] # CallOf(w)
    BY <1>0, <1>1, <2>1 DEF Alone
  <2>. QED  BY <1>0, <1>1, <2>1, <2>2
<1>2. ASSUME NEW v \in Workers, worker'[v].pc = "embed", Alone(job', worker'[v].job)
      PROVE  /\ worker'[v].seen = chunks'[CallOf(v)']
             /\ Indexed(chunks'[CallOf(v)'], vectors'[CallOf(v)'], worker'[v].left,
                        TheJob(v)'.account)
  <2>1. CASE v = w
    <3>1. worker'[w].job = worker[w].job /\ Alone(job, worker[w].job)
      BY <1>2, <2>1, AloneBefore
    <3>2. CallOf(w)' = CallOf(w) /\ TheJob(w)' = job'[worker[w].job]
      BY <3>1 DEF CallOf, TheJob
    <3>. QED  BY <1>2, <2>1, <3>1, <3>2
  <2>2. CASE v # w
    <3>1. /\ worker'[v] = worker[v] /\ worker[v].pc = "embed" /\ worker[v].job \in JobIds
          /\ worker[v].job # worker[w].job
      BY <1>0, <1>2, <2>2 DEF TypeInv, QueueInv, WorkerTypes
    <3>2. PICK j \in JobIds : j = worker[v].job
      BY <3>1
    <3>3. /\ Alone(job, j) /\ job'[j] = job[j]
          /\ chunks'[j[1]] = chunks[j[1]] /\ vectors'[j[1]] = vectors[j[1]]
      BY <1>1, <1>2, <3>1, <3>2
    <3>4. CallOf(v)' = j[1] /\ CallOf(v) = j[1] /\ TheJob(v)' = job'[j] /\ TheJob(v) = job[j]
      BY <3>1, <3>2 DEF CallOf, TheJob
    <3>. QED  BY <3>1, <3>2, <3>3, <3>4 DEF IndexInv
  <2>. QED  BY <2>1, <2>2
<1>3. ASSUME NEW j \in JobIds, job'[j].state = "completed", job'[j].account # NoAccount,
             Alone(job', j)
      PROVE  Indexed(chunks'[j[1]], vectors'[j[1]], {}, job'[j].account)
  <2>1. CASE j = worker[w].job
    BY <1>0, <1>3, <2>1, AloneBefore
  <2>2. CASE j # worker[w].job
    BY <1>1, <1>3, <2>2 DEF IndexInv
  <2>. QED  BY <2>1, <2>2
<1>. QED  BY <1>2, <1>3 DEF IndexInv

\* The workers keep IndexInv.
LEMMA WorkerIndexInv ==
    ASSUME TypeInv, TagInv, IndexInv, JobsStay, NEW w \in Workers, WorkerNext(w)
    PROVE  IndexInv'
<1>0. /\ worker \in [Workers -> WorkerTypes] /\ job \in [JobIds -> JobTypes]
      /\ worker[w] \in WorkerTypes /\ worker[w].job \in JobIds /\ TheJob(w) \in JobTypes
      /\ CallOf(w) \in Calls /\ worker[w].job[1] = CallOf(w)
      /\ chunks \in [Calls -> [Rows -> Texts]]
      /\ vectors \in [Calls -> [Rows -> [text : Texts, account : Links]]]
      /\ worker[w].seen \in [Rows -> Texts]
  BY DEF TypeInv, TypeOK, WorkerTypes, JobIds, CallOf, TheJob
\* A step that leaves rows and vectors of other calls alone and goes on.
<1>a. ASSUME worker[w].pc # "idle", NEW rec \in WorkerTypes, Advance(w, rec),
             rec.job = worker[w].job,
             \A c \in Calls : c # CallOf(w) =>
                 chunks'[c] = chunks[c] /\ vectors'[c] = vectors[c],
             (rec.pc = "embed" /\ Alone(job, worker[w].job)) =>
                 /\ rec.seen = chunks'[CallOf(w)]
                 /\ Indexed(chunks'[CallOf(w)], vectors'[CallOf(w)], rec.left,
                            TheJob(w).account)
      PROVE  IndexInv'
  <2>1. /\ worker'[w] = rec /\ \A v \in Workers : v # w => worker'[v] = worker[v]
        /\ job' = job /\ job'[worker[w].job] = TheJob(w)
    BY <1>0, <1>a DEF Advance, TheJob
  <2>2. job[worker[w].job].state = "active"
    BY <1>a DEF TypeInv, QueueInv
  <2>. QED  BY <1>0, <1>a, <2>1, <2>2, OwnCallOnly
\* A step that hands the job back.
<1>b. ASSUME worker[w].pc # "idle", NEW j, Settle(w, j),
             \A c \in Calls : c # CallOf(w) =>
                 chunks'[c] = chunks[c] /\ vectors'[c] = vectors[c],
             (/\ j.state = "completed" /\ j.account # NoAccount
              /\ Alone(job, worker[w].job)) =>
                 Indexed(chunks'[CallOf(w)], vectors'[CallOf(w)], {}, j.account)
      PROVE  IndexInv'
  <2>1. /\ worker'[w].pc = "idle" /\ \A v \in Workers : v # w => worker'[v] = worker[v]
        /\ job'[worker[w].job] = j
        /\ \A i \in JobIds : i # worker[w].job => job'[i] = job[i]
    BY <1>0, <1>b DEF Settle, IdleWorker
  <2>. QED  BY <1>0, <1>b, <2>1, OwnCallOnly
<1>2. ASSUME NEW j \in JobIds, TakeJob(w, j) PROVE IndexInv'
  <2>1. /\ \A i \in JobIds : i # j => job'[i] = job[i]
        /\ job[j].state = "waiting" /\ job'[j].state = "active"
        /\ \A v \in Workers : v # w => worker'[v] = worker[v]
        /\ worker'[w].pc = "load" /\ UNCHANGED <<chunks, vectors>>
    BY <1>0, <1>2 DEF TakeJob, JobTypes, WorkerTypes, results
  <2>2. ASSUME NEW v \in Workers, worker'[v].pc = "embed", Alone(job', worker'[v].job)
        PROVE  /\ worker'[v].seen = chunks'[CallOf(v)']
               /\ Indexed(chunks'[CallOf(v)'], vectors'[CallOf(v)'], worker'[v].left,
                          TheJob(v)'.account)
    <3>1. /\ worker'[v] = worker[v] /\ worker[v].job \in JobIds
          /\ job[worker[v].job].state = "active"
      BY <1>0, <2>1, <2>2 DEF TypeInv, QueueInv, WorkerTypes
    <3>2. CallOf(v)' = CallOf(v) /\ TheJob(v)' = TheJob(v)
      BY <2>1, <3>1 DEF CallOf, TheJob
    <3>3. Alone(job, worker[v].job)
      BY <2>2, <3>1, AloneBefore
    <3>. QED  BY <2>1, <2>2, <3>1, <3>2, <3>3 DEF IndexInv
  <2>3. ASSUME NEW i \in JobIds, job'[i].state = "completed", job'[i].account # NoAccount,
               Alone(job', i)
        PROVE  Indexed(chunks'[i[1]], vectors'[i[1]], {}, job'[i].account)
    BY <2>1, <2>3, AloneBefore DEF IndexInv
  <2>. QED  BY <2>2, <2>3 DEF IndexInv
\* Completing a job.
<1>c. ASSUME worker[w].pc # "idle", Complete(w),
             \A c \in Calls : c # CallOf(w) =>
                 chunks'[c] = chunks[c] /\ vectors'[c] = vectors[c],
             (TheJob(w).account # NoAccount /\ Alone(job, worker[w].job)) =>
                 Indexed(chunks'[CallOf(w)], vectors'[CallOf(w)], {}, TheJob(w).account)
      PROVE  IndexInv'
  <2>. DEFINE j == [TheJob(w) EXCEPT !.state = "completed"]
  <2>1. Settle(w, j) /\ j.state = "completed" /\ j.account = TheJob(w).account
    BY <1>0, <1>c DEF Complete, JobTypes
  <2>. HIDE DEF j
  <2>. QED  BY <1>b, <1>c, <2>1
<1>3. CASE LoadTranscript(w)
  <2>. DEFINE rec == [worker[w] EXCEPT !.pc = "chunk", !.row = 1,
                                       !.text = transcript[CallOf(w)]]
  <2>1. worker[w].pc = "load" /\ UNCHANGED <<chunks, vectors>>
    BY <1>3 DEF LoadTranscript, results
  <2>2. CASE transcript[CallOf(w)] = 0
    <3>1. \A r \in Rows : chunks[CallOf(w)][r] = 0
      BY <1>0, <2>2 DEF TagInv
    <3>2. Indexed(chunks'[CallOf(w)], vectors'[CallOf(w)], {}, TheJob(w).account)
      BY <2>1, <3>1 DEF Indexed
    <3>. QED  BY <1>3, <1>c, <2>1, <2>2, <3>2 DEF LoadTranscript
  <2>3. CASE transcript[CallOf(w)] # 0
    <3>1. transcript[CallOf(w)] \in Texts /\ 1 \in Nat \ {0}
      BY <1>0 DEF TypeInv, TypeOK
    <3>2. rec \in WorkerTypes /\ rec.job = worker[w].job /\ rec.pc = "chunk"
      BY <1>0, <3>1 DEF WorkerTypes
    <3>3. Advance(w, rec)
      BY <1>3, <2>3 DEF LoadTranscript
    <3>. HIDE DEF rec
    <3>. QED  BY <1>a, <2>1, <3>2, <3>3
  <2>. QED  BY <2>2, <2>3
<1>4. CASE WriteChunk(w)
  <2>. DEFINE r == worker[w].row
              more == [worker[w] EXCEPT !.row = r + 1]
              done == [worker[w] EXCEPT !.pc = "tag", !.row = 1]
  <2>1. /\ worker[w].pc = "chunk" /\ UNCHANGED vectors
        /\ \A c \in Calls : c # CallOf(w) => chunks'[c] = chunks[c]
        /\ Advance(w, more) \/ Advance(w, done)
    BY <1>0, <1>4 DEF WriteChunk
  <2>2. r + 1 \in Nat \ {0} /\ 1 \in Nat \ {0}
    BY <1>0 DEF WorkerTypes
  <2>3. /\ more \in WorkerTypes /\ more.job = worker[w].job /\ more.pc = "chunk"
        /\ done \in WorkerTypes /\ done.job = worker[w].job /\ done.pc = "tag"
    BY <1>0, <2>1, <2>2 DEF WorkerTypes
  <2>. HIDE DEF more, done
  <2>. QED  BY <1>a, <2>1, <2>3
<1>5. CASE ReadForTagging(w)
  <2>. DEFINE rec == [worker[w] EXCEPT !.pc = "saveTags", !.seen = chunks[CallOf(w)]]
  <2>1. worker[w].pc = "tag" /\ UNCHANGED <<chunks, vectors>> /\ Advance(w, rec)
    BY <1>5 DEF ReadForTagging, results
  <2>2. rec \in WorkerTypes /\ rec.job = worker[w].job /\ rec.pc = "saveTags"
    BY <1>0 DEF WorkerTypes
  <2>. HIDE DEF rec
  <2>. QED  BY <1>a, <2>1, <2>2
<1>6. CASE SaveTags(w)
  <2>. DEFINE rec == [worker[w] EXCEPT !.pc = "index", !.seen = NoRows]
  <2>1. worker[w].pc = "saveTags" /\ UNCHANGED <<chunks, vectors>>
    BY <1>6 DEF SaveTags
  <2>2. CASE TheJob(w).account = NoAccount
    BY <1>6, <1>c, <2>1, <2>2 DEF SaveTags
  <2>3. CASE TheJob(w).account # NoAccount
    <3>1. NoRows \in [Rows -> Texts]
      BY ConstantsAssumption DEF NoRows, Texts
    <3>2. rec \in WorkerTypes /\ rec.job = worker[w].job /\ rec.pc = "index"
      BY <1>0, <3>1 DEF WorkerTypes
    <3>3. Advance(w, rec)
      BY <1>6, <2>3 DEF SaveTags
    <3>. HIDE DEF rec
    <3>. QED  BY <1>a, <2>1, <3>2, <3>3
  <2>. QED  BY <2>2, <2>3
<1>7. CASE ReadForIndexing(w)
  <2>. DEFINE rows == {r \in Rows : chunks[CallOf(w)][r] # 0}
              rec == [worker[w] EXCEPT !.pc = "embed", !.seen = chunks[CallOf(w)],
                                       !.left = rows]
  <2>1. worker[w].pc = "index" /\ UNCHANGED <<chunks, vectors>> /\ Advance(w, rec)
    BY <1>7 DEF ReadForIndexing, results
  <2>2. /\ rec \in WorkerTypes /\ rec.job = worker[w].job /\ rec.pc = "embed"
        /\ rec.seen = chunks[CallOf(w)] /\ rec.left = rows
    BY <1>0 DEF WorkerTypes
  <2>3. Indexed(chunks'[CallOf(w)], vectors'[CallOf(w)], rows, TheJob(w).account)
    BY <2>1 DEF Indexed
  <2>. HIDE DEF rec, rows
  <2>. QED  BY <1>a, <2>1, <2>2, <2>3
<1>8. ASSUME NEW r \in Rows, IndexChunk(w, r) PROVE IndexInv'
  <2>. DEFINE c == CallOf(w)
              rec == [worker[w] EXCEPT !.left = worker[w].left \ {r}]
  <2>1. /\ worker[w].pc = "embed" /\ UNCHANGED chunks
        /\ Alone(job, worker[w].job) =>
             /\ worker[w].seen = chunks[c]
             /\ Indexed(chunks[c], vectors[c], worker[w].left, TheJob(w).account)
    BY <1>8 DEF IndexChunk, IndexInv
  <2>2. /\ \A d \in Calls : d # c => vectors'[d] = vectors[d]
        /\ vectors'[c][r] = [text |-> worker[w].seen[r], account |-> TheJob(w).account]
        /\ \A i \in Rows : i # r => vectors'[c][i] = vectors[c][i]
    BY <1>0, <1>8 DEF IndexChunk
  <2>3. Alone(job, worker[w].job) =>
          Indexed(chunks'[c], vectors'[c], worker[w].left \ {r}, TheJob(w).account)
    BY <2>1, <2>2 DEF Indexed
  <2>4. /\ rec \in WorkerTypes /\ rec.job = worker[w].job /\ rec.pc = "embed"
        /\ rec.seen = worker[w].seen /\ rec.left = worker[w].left \ {r}
    BY <1>0, <2>1 DEF WorkerTypes
  <2>5. CASE worker[w].left = {r}
    <3>1. Complete(w)
      BY <1>8, <2>5 DEF IndexChunk
    <3>. QED  BY <1>c, <2>1, <2>2, <2>3, <2>5, <3>1
  <2>6. CASE worker[w].left # {r}
    <3>1. Advance(w, rec)
      BY <1>8, <2>6 DEF IndexChunk
    <3>. HIDE DEF rec
    <3>. QED  BY <1>a, <2>1, <2>2, <2>3, <2>4, <3>1
  <2>. QED  BY <2>5, <2>6
<1>9. CASE FailJob(w) \/ StallJob(w)
  <2>1. PICK j : Settle(w, j) /\ j.state \in {"waiting", "failed"}
    <3>. DEFINE retry == [TheJob(w) EXCEPT
                            !.attempts = TheJob(w).attempts + 1,
                            !.state = IF TheJob(w).attempts + 1 < MaxAttempts
                                        THEN "waiting" ELSE "failed"]
                again == [TheJob(w) EXCEPT
                            !.stalls = TheJob(w).stalls + 1,
                            !.state = IF TheJob(w).stalls = 0
                                        THEN "waiting" ELSE "failed"]
    <3>1. Settle(w, retry) \/ Settle(w, again)
      BY <1>9 DEF FailJob, StallJob
    <3>2. retry.state \in {"waiting", "failed"} /\ again.state \in {"waiting", "failed"}
      BY <1>0 DEF JobTypes
    <3>. HIDE DEF retry, again
    <3>. QED  BY <3>1, <3>2
  <2>2. worker[w].pc # "idle" /\ UNCHANGED <<chunks, vectors>>
    BY <1>9 DEF FailJob, StallJob, results
  <2>. QED  BY <1>b, <2>1, <2>2
<1>. QED  BY <1>2, <1>3, <1>4, <1>5, <1>6, <1>7, <1>8, <1>9 DEF WorkerNext, WorkerStep

\* Whoever ingests a recording: once its only job has completed, every chunk
\* row of a linked call is indexed under the account the job named, whatever
\* later deliveries, retries and stalls there are.
THEOREM CompletedCallsIndexed == Spec => []CompletedJobIsIndexed
<1>1. Init => IndexInv
  BY DEF Init, IndexInv, IdleWorker
<1>2. TypeInv /\ TagInv /\ IndexInv /\ [Next]_vars => IndexInv'
  <2>. SUFFICES ASSUME TypeInv, TagInv, IndexInv, [Next]_vars PROVE IndexInv'
    OBVIOUS
  <2>1. CASE Quiet \/ UNCHANGED vars
    BY <2>1 DEF Quiet, vars, results, IndexInv, CallOf, TheJob
  <2>2. JobsStay
    BY JobsAreKept
  <2>. QED  BY <2>1, <2>2, ProducerIndexInv, WorkerIndexInv DEF Next
<1>3. IndexInv => CompletedJobIsIndexed
  <2>1. \A j \in JobIds : JobsOf(j[1]) = {j} => Alone(job, j)
    BY DEF JobsOf, Alone
  <2>. QED  BY <2>1 DEF IndexInv, Indexed, CompletedJobIsIndexed
<1>. QED
  BY <1>1, <1>2, <1>3, InitTagInv, NextTagInv, TypeInvariant, PTL DEF Spec
=============================================================================
