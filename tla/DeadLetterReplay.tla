-------------------------- MODULE DeadLetterReplay --------------------------
(***************************************************************************)
(* Automatic replay of dead letters of the call-processing queue.          *)
(*                                                                         *)
(* A process-call job that used up its attempts stays in the failed set.   *)
(* The replay cron (services/call-processing-dead-letter-replay.ts) takes  *)
(* a snapshot of the newest failed jobs and calls job.retry() on the ones  *)
(* its policy allows.  Every worker process runs the cron and a run is not *)
(* stopped by the next tick, so several runs can be in the loop at once,   *)
(* each deciding from its own snapshot.                                    *)
(*                                                                         *)
(* Data abstraction.  A failure is "transient" when its message matches    *)
(* one of the retryable patterns and "permanent" otherwise.  Every queued  *)
(* job has a callId and an organizationId (the payload is validated when   *)
(* it is queued), and the cron names no organization, so these two skips   *)
(* are left out.  The age of a job is that of its creation: BullMQ jobs    *)
(* have no failedOn and retry() keeps the timestamp.                       *)
(***************************************************************************)
EXTENDS Naturals, Sequences, FiniteSets

CONSTANTS
    Jobs,         \* process-call jobs
    Calls,        \* calls
    CallOf,       \* CallOf[j]: the callId of job j's payload
    Runs,         \* replay runs that can be in progress at once
    Limit,        \* batch size of a run
    Cap,          \* replayAttemptCap
    MaxAttempts   \* "attempts" of a process-call job

ASSUME ReplayAssumption ==
    /\ CallOf \in [Jobs -> Calls]
    /\ IsFiniteSet(Runs)
    /\ Limit \in Nat \ {0}
    /\ Cap \in Nat \ {0}
    /\ MaxAttempts \in Nat \ {0}

VARIABLES
    state,     \* where BullMQ keeps the job
    attempts,  \* attemptsMade
    reason,    \* failedReason
    old,       \* jobs created longer ago than the replay window
    failed,    \* the failed set, newest first
    run        \* the replay runs

vars == <<state, attempts, reason, old, failed, run>>

Entries == [job : Jobs, attempts : Nat, reason : {"none", "transient", "permanent"},
            old : BOOLEAN]

\* batch: the snapshot; next: the loop index; seen: seenCallIds.
RunTypes == [active : BOOLEAN, batch : Seq(Entries), next : Nat \ {0},
             seen : SUBSET Calls]

TypeOK ==
    /\ state \in [Jobs -> {"waiting", "active", "failed", "completed"}]
    /\ attempts \in [Jobs -> Nat]
    /\ reason \in [Jobs -> {"none", "transient", "permanent"}]
    /\ old \subseteq Jobs
    /\ failed \in Seq(Jobs)
    /\ run \in [Runs -> RunTypes]

IdleRun == [active |-> FALSE, batch |-> <<>>, next |-> 1, seen |-> {}]

Init ==
    /\ state = [j \in Jobs |-> "waiting"]
    /\ attempts = [j \in Jobs |-> 0]
    /\ reason = [j \in Jobs |-> "none"]
    /\ old = {} /\ failed = <<>>
    /\ run = [r \in Runs |-> IdleRun]

-----------------------------------------------------------------------------
(* The queue *)

\* A worker takes a waiting job ...
TakeJob(j) ==
    /\ state[j] = "waiting"
    /\ state' = [state EXCEPT ![j] = "active"]
    /\ UNCHANGED <<attempts, reason, old, failed, run>>

\* ... and completes it,
CompleteJob(j) ==
    /\ state[j] = "active"
    /\ state' = [state EXCEPT ![j] = "completed"]
    /\ UNCHANGED <<attempts, reason, old, failed, run>>

\* or throws: the attempt is counted, and when none is left the job becomes
\* the newest dead letter.  A replayed job has one attempt.
FailJob(j, why) ==
    /\ state[j] = "active"
    /\ attempts' = [attempts EXCEPT ![j] = @ + 1]
    /\ reason' = [reason EXCEPT ![j] = why]
    /\ IF attempts[j] + 1 < MaxAttempts
         THEN /\ state' = [state EXCEPT ![j] = "waiting"]
              /\ UNCHANGED failed
         ELSE /\ state' = [state EXCEPT ![j] = "failed"]
              /\ failed' = <<j>> \o failed
    /\ UNCHANGED <<old, run>>

\* A job that stalled once too often fails without counting an attempt; the
\* message BullMQ gives matches no retryable pattern.
StallOut(j) ==
    /\ state[j] = "active"
    /\ reason' = [reason EXCEPT ![j] = "permanent"]
    /\ state' = [state EXCEPT ![j] = "failed"]
    /\ failed' = <<j>> \o failed
    /\ UNCHANGED <<attempts, old, run>>

\* The job's timestamp leaves the replay window.
GrowOld(j) ==
    /\ j \notin old
    /\ old' = old \cup {j}
    /\ UNCHANGED <<state, attempts, reason, failed, run>>

-----------------------------------------------------------------------------
(* A replay run *)

Smaller(m, n) == IF m < n THEN m ELSE n

\* getJobs(["failed"], 0, limit - 1): the newest failed jobs as they are now.
Snapshot ==
    [i \in 1..Smaller(Limit, Len(failed)) |->
        [job |-> failed[i], attempts |-> attempts[failed[i]],
         reason |-> reason[failed[i]], old |-> failed[i] \in old]]

\* The cron fires.
BeginRun(r) ==
    /\ ~run[r].active
    /\ run' = [run EXCEPT ![r] = [active |-> TRUE, batch |-> Snapshot,
                                  next |-> 1, seen |-> {}]]
    /\ UNCHANGED <<state, attempts, reason, old, failed>>

Entry(r) == run[r].batch[run[r].next]

InLoop(r) == run[r].active /\ run[r].next <= Len(run[r].batch)

\* Fault: a job at the cap is replayed once more.
EligibleAtCap(r) ==
    /\ CallOf[Entry(r).job] \notin run[r].seen
    /\ ~Entry(r).old
    /\ Entry(r).attempts <= Cap
    /\ Entry(r).reason = "transient"

\* The checks of the loop, in terms of the snapshot.
Eligible(r) ==
    /\ CallOf[Entry(r).job] \notin run[r].seen
    /\ ~Entry(r).old
    /\ Entry(r).attempts < Cap
    /\ Entry(r).reason = "transient"

\* The loop goes on; the call counts as seen whatever becomes of the job.
GoOn(r) ==
    run' = [run EXCEPT ![r] =
              [run[r] EXCEPT !.next = @ + 1,
                             !.seen = @ \cup {CallOf[Entry(r).job]}]]

\* A job that a check rejects is skipped.
SkipEntry(r) ==
    /\ InLoop(r)
    /\ ~Eligible(r)
    /\ GoOn(r)
    /\ UNCHANGED <<state, attempts, reason, old, failed>>

\* The list without its k-th element.
Without(s, k) == [i \in 1..(Len(s) - 1) |-> IF i < k THEN s[i] ELSE s[i + 1]]

\* Fault: retry() starts counting attempts again.
RetryEntryResets(r) ==
    /\ InLoop(r)
    /\ Eligible(r)
    /\ state[Entry(r).job] = "failed"
    /\ state' = [state EXCEPT ![Entry(r).job] = "waiting"]
    /\ attempts' = [attempts EXCEPT ![Entry(r).job] = 0]
    /\ failed' = SelectSeq(failed, LAMBDA j : j # Entry(r).job)
    /\ GoOn(r)
    /\ UNCHANGED <<reason, old>>

\* job.retry() moves the job from the failed set back to the waiting list; it
\* keeps attemptsMade.
RetryEntry(r) ==
    LET j == Entry(r).job
    IN /\ InLoop(r)
       /\ Eligible(r)
       /\ state[j] = "failed"
       /\ state' = [state EXCEPT ![j] = "waiting"]
       /\ \E k \in 1..Len(failed) : failed[k] = j /\ failed' = Without(failed, k)
       /\ GoOn(r)
       /\ UNCHANGED <<attempts, reason, old>>

\* job.retry() throws: the job is no longer a failed one, or Redis has an
\* error.  The run counts a replay_error and goes on.
RetryError(r) ==
    /\ InLoop(r)
    /\ Eligible(r)
    /\ GoOn(r)
    /\ UNCHANGED <<state, attempts, reason, old, failed>>

\* The loop is done ...
EndRun(r) ==
    /\ run[r].active /\ ~InLoop(r)
    /\ run' = [run EXCEPT ![r] = IdleRun]
    /\ UNCHANGED <<state, attempts, reason, old, failed>>

\* ... or the process of the run dies in it.
CrashRun(r) ==
    /\ InLoop(r)
    /\ run' = [run EXCEPT ![r] = IdleRun]
    /\ UNCHANGED <<state, attempts, reason, old, failed>>

-----------------------------------------------------------------------------
Work(j) == CompleteJob(j) \/ StallOut(j)
           \/ \E why \in {"transient", "permanent"} : FailJob(j, why)

LoopStep(r) == SkipEntry(r) \/ RetryEntry(r) \/ RetryError(r)

Next ==
    \/ \E j \in Jobs : TakeJob(j) \/ Work(j) \/ GrowOld(j)
    \/ \E r \in Runs : BeginRun(r) \/ LoopStep(r) \/ EndRun(r) \/ CrashRun(r)

Spec == Init /\ [][Next]_vars

\* Workers take jobs and finish them, the cron fires again and again, and a
\* run does not die in its loop each time.  A retry that Redis can perform is
\* not refused for ever.  Nothing makes a job grow old.
Fairness ==
    /\ \A j \in Jobs : WF_vars(TakeJob(j)) /\ WF_vars(Work(j))
    /\ \A r \in Runs :
         /\ WF_vars(BeginRun(r)) /\ WF_vars(EndRun(r))
         /\ SF_vars(LoopStep(r)) /\ SF_vars(RetryEntry(r))

FairSpec == Spec /\ Fairness

-----------------------------------------------------------------------------
(* Properties *)

\* Attempts a job can still be given that its counter does not show yet.
InFlight(j) == IF state[j] \in {"waiting", "active"} THEN 1 ELSE 0

\* However many runs decide from stale snapshots, a job is tried at most once
\* per concurrent run beyond the last attempt the cap allows; a job whose own
\* attempts reach the cap is never replayed at all.
AttemptsBounded ==
    \A j \in Jobs :
        attempts[j] <= IF MaxAttempts < Cap THEN Cap - 1 + Cardinality(Runs)
                                            ELSE MaxAttempts

\* The failed set and the states agree while workers fail jobs and runs retry
\* them: a dead letter is listed exactly once, and nothing else is listed.
FailedListExact ==
    \A j \in Jobs :
        Cardinality({k \in 1..Len(failed) : failed[k] = j})
            = IF state[j] = "failed" THEN 1 ELSE 0

\* Replay comes to an end: every job is eventually completed for good or a
\* dead letter for good.
JobsComeToRest ==
    \A j \in Jobs : <>[](state[j] \in {"failed", "completed"})
=============================================================================
