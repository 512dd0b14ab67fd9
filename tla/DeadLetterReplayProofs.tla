----------------------- MODULE DeadLetterReplayProofs -----------------------
(***************************************************************************)
(* Proofs about DeadLetterReplay, for every set of jobs, every finite set  *)
(* of concurrent runs, every batch size and every cap.                     *)
(***************************************************************************)
EXTENDS DeadLetterReplay, FiniteSetTheorems, TLAPS

\* The failed list names failed jobs only, each once.
ListInv ==
    /\ \A k \in 1..Len(failed) : state[failed[k]] = "failed"
    /\ \A i, k \in 1..Len(failed) : failed[i] = failed[k] => i = k

\* A dead letter with a transient error has used up its own attempts, and so
\* have those in the snapshots.
UsedUpInv ==
    /\ \A j \in Jobs : state[j] = "failed" /\ reason[j] = "transient"
                           => attempts[j] >= MaxAttempts
    /\ \A r \in Runs : \A i \in 1..Len(run[r].batch) :
         run[r].batch[i].reason = "transient"
            => run[r].batch[i].attempts >= MaxAttempts

\* The attempts a job has had, and the one it is about to have.
Tries(j) == attempts[j] + InFlight(j)

\* The runs that may still replay job j from a snapshot below the cap.
Holds(r, j) ==
    /\ CallOf[j] \notin run[r].seen
    /\ \E i \in 1..Len(run[r].batch) :
         /\ i >= run[r].next
         /\ run[r].batch[i].job = j
         /\ run[r].batch[i].attempts < Cap

Holders(j) == {r \in Runs : Holds(r, j)}

\* Every try at or beyond the cap was paid for by a run that no longer holds
\* a snapshot of the job.
CapInv ==
    \A j \in Jobs :
        IF MaxAttempts < Cap
          THEN Tries(j) >= Cap
                 => Tries(j) + Cardinality(Holders(j)) <= Cap - 1 + Cardinality(Runs)
          ELSE Tries(j) <= MaxAttempts

LEMMA IdleRunType == IdleRun \in RunTypes
BY DEF IdleRun, RunTypes

LEMMA InitTypeOK == Init => TypeOK
BY IdleRunType DEF Init, TypeOK

LEMMA SnapshotType ==
    ASSUME TypeOK
    PROVE  /\ Snapshot \in Seq(Entries)
           /\ Len(Snapshot) <= Limit /\ Len(Snapshot) <= Len(failed)
           /\ \A i \in 1..Len(Snapshot) :
                Snapshot[i] = [job |-> failed[i], attempts |-> attempts[failed[i]],
                               reason |-> reason[failed[i]], old |-> failed[i] \in old]
<1>. DEFINE n == Smaller(Limit, Len(failed))
<1>1. n \in Nat /\ n <= Len(failed) /\ n <= Limit
  BY ReplayAssumption DEF TypeOK, Smaller
<1>2. \A i \in 1..n : [job |-> failed[i], attempts |-> attempts[failed[i]],
          reason |-> reason[failed[i]], old |-> failed[i] \in old] \in Entries
  BY <1>1 DEF TypeOK, Entries
<1>3. Snapshot \in [1..n -> Entries]
  BY <1>2 DEF Snapshot
<1>4. Snapshot \in Seq(Entries) /\ Len(Snapshot) = n
  BY <1>1, <1>3
<1>. QED  BY <1>1, <1>4 DEF Snapshot

LEMMA WithoutType ==
    ASSUME NEW S, NEW s \in Seq(S), NEW k \in 1..Len(s)
    PROVE  /\ Without(s, k) \in Seq(S)
           /\ Len(Without(s, k)) = Len(s) - 1
           /\ \A i \in 1..(Len(s) - 1) :
                Without(s, k)[i] = IF i < k THEN s[i] ELSE s[i + 1]
<1>1. Without(s, k) \in [1..(Len(s) - 1) -> S] /\ Len(s) - 1 \in Nat
  BY DEF Without
<1>2. Without(s, k) \in Seq(S) /\ Len(Without(s, k)) = Len(s) - 1
  BY <1>1
<1>. QED  BY <1>2 DEF Without

\* What the loop does to its run.
LEMMA GoOnFacts ==
    ASSUME TypeOK, NEW r \in Runs, InLoop(r), GoOn(r)
    PROVE  /\ run' \in [Runs -> RunTypes]
           /\ \A q \in Runs : run'[q].batch = run[q].batch
           /\ \A q \in Runs \ {r} : run'[q] = run[q]
           /\ run'[r].next = run[r].next + 1
           /\ run'[r].seen = run[r].seen \cup {CallOf[Entry(r).job]}
           /\ Entry(r) \in Entries
           /\ Entry(r).job \in Jobs
<1>0. /\ run[r] \in RunTypes /\ run[r].batch \in Seq(Entries)
      /\ run[r].next \in Nat \ {0} /\ run[r].seen \subseteq Calls
  BY DEF TypeOK, RunTypes
<1>1. run[r].next \in 1..Len(run[r].batch)
  BY <1>0 DEF InLoop
<1>2. Entry(r) \in Entries /\ Entry(r).job \in Jobs
  <2>1. Entry(r) \in Entries
    BY <1>0, <1>1 DEF Entry
  <2>. QED  BY <2>1 DEF Entries
<1>3. CallOf[Entry(r).job] \in Calls
  BY <1>2, ReplayAssumption
<1>4. [run[r] EXCEPT !.next = @ + 1, !.seen = @ \cup {CallOf[Entry(r).job]}] \in RunTypes
  <2>1. run[r].next + 1 \in Nat \ {0} /\ run[r].seen \cup {CallOf[Entry(r).job]} \subseteq Calls
    BY <1>0, <1>3
  <2>. QED  BY <1>0, <2>1 DEF RunTypes
<1>. DEFINE rec == [run[r] EXCEPT !.next = @ + 1, !.seen = @ \cup {CallOf[Entry(r).job]}]
<1>5. /\ rec.batch = run[r].batch /\ rec.next = run[r].next + 1
      /\ rec.seen = run[r].seen \cup {CallOf[Entry(r).job]}
  BY <1>0 DEF RunTypes
<1>6. run' = [run EXCEPT ![r] = rec] /\ run \in [Runs -> RunTypes] /\ rec \in RunTypes
  BY <1>4 DEF GoOn, TypeOK
<1>. HIDE DEF rec
<1>. QED  BY <1>2, <1>5, <1>6

LEMMA NextTypeOK == TypeOK /\ [Next]_vars => TypeOK'
<1>. SUFFICES ASSUME TypeOK, [Next]_vars PROVE TypeOK'
  OBVIOUS
<1>1. ASSUME NEW j \in Jobs, TakeJob(j) \/ CompleteJob(j) PROVE TypeOK'
  BY <1>1 DEF TypeOK, TakeJob, CompleteJob
<1>2. ASSUME NEW j \in Jobs, NEW why \in {"transient", "permanent"}, FailJob(j, why)
      PROVE  TypeOK'
  <2>1. <<j>> \o failed \in Seq(Jobs)
    BY DEF TypeOK
  <2>2. failed' \in Seq(Jobs)
    BY <1>2, <2>1 DEF TypeOK, FailJob
  <2>3. state' \in [Jobs -> {"waiting", "active", "failed", "completed"}]
    BY <1>2 DEF TypeOK, FailJob
  <2>4. attempts' \in [Jobs -> Nat] /\ reason' \in [Jobs -> {"none", "transient", "permanent"}]
    BY <1>2 DEF TypeOK, FailJob
  <2>. QED  BY <1>2, <2>2, <2>3, <2>4 DEF TypeOK, FailJob
<1>3. ASSUME NEW j \in Jobs, StallOut(j) PROVE TypeOK'
  <2>1. <<j>> \o failed \in Seq(Jobs)
    BY DEF TypeOK
  <2>. QED  BY <1>3, <2>1 DEF TypeOK, StallOut
<1>4. ASSUME NEW j \in Jobs, GrowOld(j) PROVE TypeOK'
  BY <1>4 DEF TypeOK, GrowOld
<1>5. ASSUME NEW r \in Runs, BeginRun(r) PROVE TypeOK'
  <2>1. [active |-> TRUE, batch |-> Snapshot, next |-> 1, seen |-> {}] \in RunTypes
    BY SnapshotType DEF RunTypes
  <2>. QED  BY <1>5, <2>1 DEF TypeOK, BeginRun
<1>6. ASSUME NEW r \in Runs, SkipEntry(r) \/ RetryError(r) PROVE TypeOK'
  BY <1>6, GoOnFacts DEF TypeOK, SkipEntry, RetryError
<1>7. ASSUME NEW r \in Runs, RetryEntry(r) PROVE TypeOK'
  <2>1. failed' \in Seq(Jobs)
    BY <1>7, WithoutType DEF RetryEntry, TypeOK
  <2>2. Entry(r).job \in Jobs /\ run' \in [Runs -> RunTypes]
    BY <1>7, GoOnFacts DEF RetryEntry
  <2>. QED  BY <1>7, <2>1, <2>2 DEF TypeOK, RetryEntry
<1>8. ASSUME NEW r \in Runs, EndRun(r) \/ CrashRun(r) PROVE TypeOK'
  BY <1>8, IdleRunType DEF TypeOK, EndRun, CrashRun
<1>9. CASE UNCHANGED vars
  BY <1>9 DEF TypeOK, vars
<1>. QED
  BY <1>1, <1>2, <1>3, <1>4, <1>5, <1>6, <1>7, <1>8, <1>9 DEF Next, Work, LoopStep

\* Type correctness.
THEOREM TypeCorrect == Spec => []TypeOK
BY InitTypeOK, NextTypeOK, PTL DEF Spec

-----------------------------------------------------------------------------
(* The failed list *)

LEMMA AppendListInv ==
    ASSUME TypeOK, ListInv, NEW j \in Jobs, state[j] = "active",
           state' = [state EXCEPT ![j] = "failed"], failed' = <<j>> \o failed
    PROVE  ListInv'
<1>1. /\ failed' \in Seq(Jobs) /\ Len(failed') = Len(failed) + 1
      /\ failed'[1] = j
      /\ \A i \in 2..Len(failed') : failed'[i] = failed[i - 1]
  BY DEF TypeOK
<1>2. \A k \in 1..Len(failed) : failed[k] # j /\ failed[k] \in Jobs
  BY DEF ListInv, TypeOK
<1>3. \A k \in 1..Len(failed') : state'[failed'[k]] = "failed"
  BY <1>1, <1>2 DEF TypeOK, ListInv
<1>4. ASSUME NEW i \in 1..Len(failed'), NEW k \in 1..Len(failed'),
             failed'[i] = failed'[k]
      PROVE  i = k
  BY <1>1, <1>2, <1>4 DEF TypeOK, ListInv
<1>. QED  BY <1>3, <1>4 DEF ListInv

LEMMA NextListInv == TypeOK /\ ListInv /\ [Next]_vars => ListInv'
<1>. SUFFICES ASSUME TypeOK, ListInv, [Next]_vars PROVE ListInv'
  OBVIOUS
<1>0. failed \in Seq(Jobs) /\ state \in [Jobs -> {"waiting", "active", "failed", "completed"}]
  BY DEF TypeOK
<1>1. ASSUME NEW j \in Jobs, TakeJob(j) \/ CompleteJob(j) PROVE ListInv'
  BY <1>0, <1>1 DEF ListInv, TakeJob, CompleteJob
<1>2. ASSUME NEW j \in Jobs, NEW why \in {"transient", "permanent"}, FailJob(j, why)
      PROVE  ListInv'
  <2>1. CASE failed' = failed /\ state' = [state EXCEPT ![j] = "waiting"]
    BY <1>0, <1>2, <2>1 DEF ListInv, FailJob
  <2>2. CASE state' = [state EXCEPT ![j] = "failed"] /\ failed' = <<j>> \o failed
    BY <1>2, <2>2, AppendListInv DEF FailJob
  <2>. QED  BY <1>2, <2>1, <2>2 DEF FailJob
<1>3. ASSUME NEW j \in Jobs, StallOut(j) PROVE ListInv'
  BY <1>3, AppendListInv DEF StallOut
<1>4. ASSUME UNCHANGED <<state, failed>> PROVE ListInv'
  BY <1>4 DEF ListInv
<1>5. ASSUME NEW r \in Runs, RetryEntry(r) PROVE ListInv'
  <2>. DEFINE j == Entry(r).job
  <2>1. j \in Jobs /\ state' = [state EXCEPT ![j] = "waiting"]
    BY <1>5, GoOnFacts DEF RetryEntry
  <2>2. PICK k \in 1..Len(failed) : failed[k] = j /\ failed' = Without(failed, k)
    BY <1>5 DEF RetryEntry
  <2>3. /\ Len(failed') = Len(failed) - 1
        /\ \A i \in 1..(Len(failed) - 1) :
             failed'[i] = IF i < k THEN failed[i] ELSE failed[i + 1]
    BY <1>0, <2>2, WithoutType
  <2>4. Len(failed) \in Nat
    BY <1>0
  <2>. HIDE DEF j
  <2>5. \A i \in 1..Len(failed) : failed[i] = j => i = k
    BY <2>2 DEF ListInv
  <2>6. \A i \in 1..Len(failed') : state'[failed'[i]] = "failed"
    <3>. SUFFICES ASSUME NEW i \in 1..Len(failed') PROVE state'[failed'[i]] = "failed"
      OBVIOUS
    <3>1. i \in 1..(Len(failed) - 1) /\ i \in 1..Len(failed) /\ i + 1 \in 1..Len(failed)
      BY <2>3, <2>4
    <3>2. PICK m \in 1..Len(failed) : m # k /\ failed'[i] = failed[m]
      BY <2>3, <2>4, <3>1
    <3>3. failed[m] # j /\ failed[m] \in Jobs /\ state[failed[m]] = "failed"
      BY <1>0, <2>5, <3>2 DEF ListInv
    <3>. QED  BY <1>0, <2>1, <3>2, <3>3
  <2>7. ASSUME NEW i \in 1..Len(failed'), NEW m \in 1..Len(failed'),
               failed'[i] = failed'[m]
        PROVE  i = m
    <3>1. /\ i \in 1..(Len(failed) - 1) /\ i \in 1..Len(failed) /\ i + 1 \in 1..Len(failed)
          /\ m \in 1..(Len(failed) - 1) /\ m \in 1..Len(failed) /\ m + 1 \in 1..Len(failed)
      BY <2>3, <2>4
    <3>. QED  BY <2>3, <2>4, <2>7, <3>1 DEF ListInv
  <2>. QED  BY <2>6, <2>7 DEF ListInv
<1>. QED
  BY <1>1, <1>2, <1>3, <1>4, <1>5 DEF Next, Work, LoopStep, GrowOld, BeginRun,
     SkipEntry, RetryError, EndRun, CrashRun, vars

LEMMA NextUsedUpInv == TypeOK /\ ListInv /\ UsedUpInv /\ [Next]_vars => UsedUpInv'
<1>. SUFFICES ASSUME TypeOK, ListInv, UsedUpInv, [Next]_vars PROVE UsedUpInv'
  OBVIOUS
<1>0. /\ state \in [Jobs -> {"waiting", "active", "failed", "completed"}]
      /\ attempts \in [Jobs -> Nat] /\ failed \in Seq(Jobs)
      /\ reason \in [Jobs -> {"none", "transient", "permanent"}]
      /\ run \in [Runs -> RunTypes] /\ MaxAttempts \in Nat
  BY ReplayAssumption DEF TypeOK
<1>1. ASSUME NEW j \in Jobs, TakeJob(j) \/ CompleteJob(j) PROVE UsedUpInv'
  BY <1>0, <1>1 DEF UsedUpInv, TakeJob, CompleteJob
<1>2. ASSUME NEW j \in Jobs, NEW why \in {"transient", "permanent"}, FailJob(j, why)
      PROVE  UsedUpInv'
  <2>1. \A i \in Jobs : state'[i] = "failed" /\ reason'[i] = "transient"
                           => attempts'[i] >= MaxAttempts
    <3>. SUFFICES ASSUME NEW i \in Jobs, state'[i] = "failed", reason'[i] = "transient"
                  PROVE  attempts'[i] >= MaxAttempts
      OBVIOUS
    <3>1. CASE i = j
      BY <1>0, <1>2, <3>1 DEF FailJob
    <3>2. CASE i # j
      <4>1. state'[i] = state[i] /\ reason'[i] = reason[i] /\ attempts'[i] = attempts[i]
        BY <1>0, <1>2, <3>2 DEF FailJob
      <4>. QED  BY <4>1 DEF UsedUpInv
    <3>. QED  BY <3>1, <3>2
  <2>. QED  BY <1>2, <2>1 DEF UsedUpInv, FailJob
<1>3. ASSUME NEW j \in Jobs, StallOut(j) PROVE UsedUpInv'
  BY <1>0, <1>3 DEF UsedUpInv, StallOut
<1>4. ASSUME NEW j \in Jobs, GrowOld(j) PROVE UsedUpInv'
  BY <1>4 DEF UsedUpInv, GrowOld
<1>5. ASSUME NEW r \in Runs, BeginRun(r) PROVE UsedUpInv'
  <2>1. \A i \in 1..Len(Snapshot) :
          Snapshot[i].reason = "transient" => Snapshot[i].attempts >= MaxAttempts
    <3>. SUFFICES ASSUME NEW i \in 1..Len(Snapshot), Snapshot[i].reason = "transient"
                  PROVE  Snapshot[i].attempts >= MaxAttempts
      OBVIOUS
    <3>1. i \in 1..Len(failed)
      BY <1>0, SnapshotType
    <3>2. Snapshot[i].attempts = attempts[failed[i]] /\ Snapshot[i].reason = reason[failed[i]]
      <4>1. Snapshot[i] = [job |-> failed[i], attempts |-> attempts[failed[i]],
                           reason |-> reason[failed[i]], old |-> failed[i] \in old]
        BY SnapshotType
      <4>. QED  BY <4>1
    <3>3. failed[i] \in Jobs /\ state[failed[i]] = "failed"
      BY <1>0, <3>1 DEF ListInv
    <3>. QED  BY <3>2, <3>3 DEF UsedUpInv
  <2>2. /\ run'[r].batch = Snapshot /\ \A q \in Runs \ {r} : run'[q] = run[q]
        /\ UNCHANGED <<state, attempts, reason>>
    BY <1>0, <1>5 DEF BeginRun
  <2>. QED  BY <2>1, <2>2 DEF UsedUpInv
<1>6. ASSUME NEW r \in Runs, SkipEntry(r) \/ RetryError(r) PROVE UsedUpInv'
  BY <1>6, GoOnFacts DEF UsedUpInv, SkipEntry, RetryError
<1>7. ASSUME NEW r \in Runs, RetryEntry(r) PROVE UsedUpInv'
  <2>1. /\ Entry(r).job \in Jobs
        /\ \A q \in Runs : run'[q].batch = run[q].batch
    BY <1>7, GoOnFacts DEF RetryEntry
  <2>2. /\ state' = [state EXCEPT ![Entry(r).job] = "waiting"]
        /\ UNCHANGED <<attempts, reason>>
    BY <1>7 DEF RetryEntry
  <2>. QED  BY <1>0, <2>1, <2>2 DEF UsedUpInv
<1>8. ASSUME NEW r \in Runs, EndRun(r) \/ CrashRun(r) PROVE UsedUpInv'
  <2>1. run' = [run EXCEPT ![r] = IdleRun] /\ UNCHANGED <<state, attempts, reason>>
    BY <1>8 DEF EndRun, CrashRun
  <2>2. IdleRun.batch = <<>> /\ Len(<<>>) = 0
    BY DEF IdleRun
  <2>. QED  BY <1>0, <2>1, <2>2 DEF UsedUpInv
<1>9. CASE UNCHANGED vars
  BY <1>9 DEF UsedUpInv, vars
<1>. QED
  BY <1>1, <1>2, <1>3, <1>4, <1>5, <1>6, <1>7, <1>8, <1>9 DEF Next, Work, LoopStep

-----------------------------------------------------------------------------
(* The cap *)

LEMMA HoldersFinite ==
    \A j \in Jobs : /\ IsFiniteSet(Holders(j))
                    /\ Cardinality(Holders(j)) \in Nat
                    /\ Cardinality(Holders(j)) <= Cardinality(Runs)
<1>. TAKE j \in Jobs
<1>1. Holders(j) \in SUBSET Runs
  BY DEF Holders
<1>2. IsFiniteSet(Holders(j)) /\ Cardinality(Holders(j)) <= Cardinality(Runs)
  BY <1>1, FS_Subset, ReplayAssumption
<1>. QED  BY <1>2, FS_CardinalityType

\* A step that gives job j no new try and no new holder keeps the cap.
LEMMA NoNewTry ==
    ASSUME TypeOK, TypeOK', NEW j \in Jobs, CapInv,
           Tries(j)' <= Tries(j), Tries(j)' \in Nat, Tries(j) \in Nat,
           Holders(j)' \subseteq Holders(j)
    PROVE  IF MaxAttempts < Cap
             THEN Tries(j)' >= Cap
               => Tries(j)' + Cardinality(Holders(j)') <= Cap - 1 + Cardinality(Runs)
             ELSE Tries(j)' <= MaxAttempts
<1>1. IsFiniteSet(Holders(j)) /\ Cardinality(Holders(j)) \in Nat
  BY HoldersFinite
<1>2. Cardinality(Holders(j)') \in Nat /\ Cardinality(Holders(j)') <= Cardinality(Holders(j))
  <2>1. Holders(j)' \in SUBSET Holders(j)
    OBVIOUS
  <2>. QED  BY <1>1, <2>1, FS_Subset, FS_CardinalityType
<1>3. Cardinality(Runs) \in Nat /\ Cap \in Nat /\ MaxAttempts \in Nat
  BY ReplayAssumption, FS_CardinalityType
<1>4. CASE MaxAttempts < Cap
  <2>1. Tries(j) >= Cap => Tries(j) + Cardinality(Holders(j)) <= Cap - 1 + Cardinality(Runs)
    BY <1>4 DEF CapInv
  <2>. QED  BY <1>1, <1>2, <1>3, <1>4, <2>1
<1>5. CASE ~(MaxAttempts < Cap)
  <2>1. Tries(j) <= MaxAttempts
    BY <1>5 DEF CapInv
  <2>. QED  BY <1>3, <1>5, <2>1
<1>. QED  BY <1>4, <1>5

LEMMA TriesNat == TypeOK => \A j \in Jobs : Tries(j) \in Nat
BY DEF TypeOK, Tries, InFlight

\* Runs that leave a snapshot alone, or go on in it, hold no job they did not.
LEMMA GoOnHolders ==
    ASSUME TypeOK, NEW r \in Runs, InLoop(r), GoOn(r)
    PROVE  /\ \A j \in Jobs : Holders(j)' \subseteq Holders(j)
           /\ \A j \in Jobs : j = Entry(r).job => ~Holds(r, j)'
<1>1. run[r].next \in Nat
  BY DEF TypeOK, RunTypes
<1>2. \A q \in Runs, j \in Jobs : Holds(q, j)' => Holds(q, j)
  <2>. SUFFICES ASSUME NEW q \in Runs, NEW j \in Jobs, Holds(q, j)' PROVE Holds(q, j)
    OBVIOUS
  <2>1. CASE q # r
    BY <2>1, GoOnFacts DEF Holds
  <2>2. CASE q = r
    <3>1. PICK i \in 1..Len(run'[r].batch) :
             /\ i >= run'[r].next /\ run'[r].batch[i].job = j
             /\ run'[r].batch[i].attempts < Cap
      BY <2>2 DEF Holds
    <3>2. i \in 1..Len(run[r].batch) /\ i >= run[r].next
      BY <1>1, <3>1, GoOnFacts
    <3>. QED  BY <2>2, <3>1, <3>2, GoOnFacts DEF Holds
  <2>. QED  BY <2>1, <2>2
<1>3. \A j \in Jobs : j = Entry(r).job => ~Holds(r, j)'
  BY GoOnFacts DEF Holds
<1>. QED  BY <1>2, <1>3 DEF Holders

\* What CapInv says of one job.
CapOf(j) ==
    IF MaxAttempts < Cap
      THEN Tries(j) >= Cap
             => Tries(j) + Cardinality(Holders(j)) <= Cap - 1 + Cardinality(Runs)
      ELSE Tries(j) <= MaxAttempts

\* Steps of the queue leave the snapshots alone.
LEMMA QueueCapInv ==
    ASSUME TypeOK, TypeOK', CapInv, NEW j \in Jobs, TakeJob(j) \/ Work(j) \/ GrowOld(j)
    PROVE  CapInv'
<1>. SUFFICES ASSUME NEW i \in Jobs PROVE CapOf(i)'
  BY DEF CapInv, CapOf
<1>0. /\ state \in [Jobs -> {"waiting", "active", "failed", "completed"}]
      /\ attempts \in [Jobs -> Nat] /\ MaxAttempts \in Nat /\ Cap \in Nat
  BY ReplayAssumption DEF TypeOK
<1>1. run' = run
  BY DEF TakeJob, Work, CompleteJob, StallOut, FailJob, GrowOld
<1>2. Holders(i)' = Holders(i)
  BY <1>1 DEF Holders, Holds
<1>3. Tries(i) \in Nat /\ Tries(i)' \in Nat
  BY TriesNat DEF TypeOK, Tries, InFlight
<1>4. CASE Tries(i)' <= Tries(i)
  BY <1>2, <1>3, <1>4, NoNewTry DEF CapOf
<1>5. ASSUME NEW why \in {"transient", "permanent"}, FailJob(j, why)
      PROVE  Tries(i)' <= Tries(i) \/ Tries(i)' <= MaxAttempts
  BY <1>0, <1>5 DEF FailJob, Tries, InFlight
<1>6. ASSUME TakeJob(j) \/ CompleteJob(j) \/ StallOut(j) \/ GrowOld(j)
      PROVE  Tries(i)' <= Tries(i)
  BY <1>0, <1>6 DEF TakeJob, CompleteJob, StallOut, GrowOld, Tries, InFlight
<1>7. CASE Tries(i)' <= MaxAttempts
  BY <1>0, <1>3, <1>7 DEF CapOf
<1>. QED  BY <1>4, <1>5, <1>6, <1>7 DEF Work

\* A snapshot taken now holds no job that reached the cap.
LEMMA BeginCapInv ==
    ASSUME TypeOK, TypeOK', ListInv, CapInv, NEW r \in Runs, BeginRun(r)
    PROVE  CapInv'
<1>. SUFFICES ASSUME NEW j \in Jobs PROVE CapOf(j)'
  BY DEF CapInv, CapOf
<1>1. Tries(j)' = Tries(j) /\ Tries(j) \in Nat
  BY TriesNat DEF BeginRun, Tries, InFlight
<1>2. /\ run'[r].batch = Snapshot /\ \A q \in Runs \ {r} : run'[q] = run[q]
  BY DEF BeginRun, TypeOK
<1>3. Tries(j) >= Cap => ~Holds(r, j)'
  <2>. SUFFICES ASSUME Tries(j) >= Cap, Holds(r, j)' PROVE FALSE
    OBVIOUS
  <2>1. PICK i \in 1..Len(Snapshot) : Snapshot[i].job = j /\ Snapshot[i].attempts < Cap
    BY <1>2 DEF Holds
  <2>2. Snapshot[i] = [job |-> failed[i], attempts |-> attempts[failed[i]],
                       reason |-> reason[failed[i]], old |-> failed[i] \in old]
    BY SnapshotType
  <2>3. i \in 1..Len(failed)
    BY SnapshotType DEF TypeOK
  <2>4. failed[i] = j /\ attempts[j] < Cap /\ state[j] = "failed"
    BY <2>1, <2>2, <2>3 DEF ListInv
  <2>. QED  BY <2>4, ReplayAssumption DEF Tries, InFlight, TypeOK
<1>4. Tries(j) >= Cap => Holders(j)' \subseteq Holders(j)
  BY <1>2, <1>3 DEF Holders, Holds
<1>5. CASE Tries(j) >= Cap
  BY <1>1, <1>4, <1>5, NoNewTry DEF CapOf
<1>6. CASE ~(Tries(j) >= Cap)
  BY <1>1, <1>6, ReplayAssumption DEF CapOf, CapInv
<1>. QED  BY <1>5, <1>6

\* The retry: run r pays for the try with the snapshot it held.
LEMMA RetryCapInv ==
    ASSUME TypeOK, TypeOK', UsedUpInv, CapInv, NEW r \in Runs, RetryEntry(r)
    PROVE  CapInv'
<1>. SUFFICES ASSUME NEW i \in Jobs PROVE CapOf(i)'
  BY DEF CapInv, CapOf
<1>0. /\ state \in [Jobs -> {"waiting", "active", "failed", "completed"}]
      /\ attempts \in [Jobs -> Nat] /\ MaxAttempts \in Nat /\ Cap \in Nat
      /\ Cardinality(Runs) \in Nat
  BY ReplayAssumption, FS_CardinalityType DEF TypeOK
<1>1. /\ InLoop(r) /\ GoOn(r) /\ Entry(r) \in Entries /\ Entry(r).job \in Jobs
      /\ CallOf[Entry(r).job] \notin run[r].seen
      /\ Entry(r).attempts < Cap /\ Entry(r).reason = "transient"
  BY GoOnFacts DEF RetryEntry, Eligible
<1>2. /\ state[Entry(r).job] = "failed"
      /\ state' = [state EXCEPT ![Entry(r).job] = "waiting"] /\ attempts' = attempts
  BY DEF RetryEntry
<1>3. Holders(i)' \subseteq Holders(i) /\ (i = Entry(r).job => r \notin Holders(i)')
  BY <1>1, GoOnHolders DEF Holders
<1>4. run[r].next \in 1..Len(run[r].batch)
  BY <1>1 DEF InLoop, TypeOK, RunTypes
<1>5. MaxAttempts < Cap
  <2>1. Entry(r).attempts >= MaxAttempts /\ Entry(r).attempts \in Nat
    BY <1>1, <1>4 DEF UsedUpInv, Entry, Entries
  <2>. QED  BY <1>0, <1>1, <2>1
<1>6. Tries(i) \in Nat /\ Tries(i)' \in Nat
  BY TriesNat DEF TypeOK, Tries, InFlight
<1>7. CASE i # Entry(r).job
  <2>1. Tries(i)' = Tries(i)
    BY <1>0, <1>2, <1>7 DEF Tries, InFlight
  <2>. QED  BY <1>3, <1>6, <2>1, NoNewTry DEF CapOf
<1>8. CASE i = Entry(r).job
  <2>1. Tries(i) = attempts[i] /\ Tries(i)' = attempts[i] + 1
    BY <1>0, <1>1, <1>2, <1>8 DEF Tries, InFlight
  <2>2. r \in Holders(i)
    BY <1>0, <1>1, <1>4, <1>8 DEF Holders, Holds, Entry
  <2>3. /\ IsFiniteSet(Holders(i)) /\ Cardinality(Holders(i)) \in Nat
        /\ Cardinality(Holders(i)) <= Cardinality(Runs)
    BY HoldersFinite
  <2>4. /\ Cardinality(Holders(i)') \in Nat
        /\ Cardinality(Holders(i)') <= Cardinality(Holders(i)) - 1
    <3>1. Holders(i)' \in SUBSET (Holders(i) \ {r})
      BY <1>3, <1>8
    <3>2. /\ IsFiniteSet(Holders(i) \ {r})
          /\ Cardinality(Holders(i) \ {r}) = Cardinality(Holders(i)) - 1
      BY <2>2, <2>3, FS_RemoveElement
    <3>3. IsFiniteSet(Holders(i)') /\ Cardinality(Holders(i)') <= Cardinality(Holders(i) \ {r})
      BY <3>1, <3>2, FS_Subset
    <3>. QED  BY <3>2, <3>3, FS_CardinalityType
  <2>5. Tries(i) >= Cap => Tries(i) + Cardinality(Holders(i)) <= Cap - 1 + Cardinality(Runs)
    BY <1>5 DEF CapInv
  <2>6. Tries(i)' + Cardinality(Holders(i)') <= Cap - 1 + Cardinality(Runs)
    BY <1>0, <2>1, <2>3, <2>4, <2>5
  <2>. QED  BY <1>5, <2>6 DEF CapOf
<1>. QED  BY <1>7, <1>8

LEMMA NextCapInv ==
    TypeOK /\ TypeOK' /\ ListInv /\ UsedUpInv /\ CapInv /\ [Next]_vars => CapInv'
<1>. SUFFICES ASSUME TypeOK, TypeOK', ListInv, UsedUpInv, CapInv, [Next]_vars
              PROVE  CapInv'
  OBVIOUS
<1>1. ASSUME NEW j \in Jobs, TakeJob(j) \/ Work(j) \/ GrowOld(j) PROVE CapInv'
  BY <1>1, QueueCapInv
<1>2. ASSUME NEW r \in Runs, BeginRun(r) PROVE CapInv'
  BY <1>2, BeginCapInv
<1>3. ASSUME NEW r \in Runs, RetryEntry(r) PROVE CapInv'
  BY <1>3, RetryCapInv
<1>4. ASSUME NEW r \in Runs, SkipEntry(r) \/ RetryError(r) PROVE CapInv'
  <2>. SUFFICES ASSUME NEW j \in Jobs PROVE CapOf(j)'
    BY DEF CapInv, CapOf
  <2>1. Tries(j)' = Tries(j) /\ Tries(j) \in Nat
    BY <1>4, TriesNat DEF SkipEntry, RetryError, Tries, InFlight
  <2>2. Holders(j)' \subseteq Holders(j)
    BY <1>4, GoOnHolders DEF SkipEntry, RetryError
  <2>. QED  BY <2>1, <2>2, NoNewTry DEF CapOf
<1>5. ASSUME NEW r \in Runs, EndRun(r) \/ CrashRun(r) PROVE CapInv'
  <2>. SUFFICES ASSUME NEW j \in Jobs PROVE CapOf(j)'
    BY DEF CapInv, CapOf
  <2>1. Tries(j)' = Tries(j) /\ Tries(j) \in Nat
    BY <1>5, TriesNat DEF EndRun, CrashRun, Tries, InFlight
  <2>2. run' = [run EXCEPT ![r] = IdleRun] /\ run \in [Runs -> RunTypes]
    BY <1>5 DEF EndRun, CrashRun, TypeOK
  <2>3. IdleRun.batch = <<>> /\ Len(<<>>) = 0
    BY DEF IdleRun
  <2>4. Holders(j)' \subseteq Holders(j)
    BY <2>2, <2>3 DEF Holders, Holds
  <2>. QED  BY <2>1, <2>4, NoNewTry DEF CapOf
<1>6. CASE UNCHANGED vars
  BY <1>6 DEF CapInv, Tries, InFlight, Holders, Holds, vars
<1>. QED  BY <1>1, <1>2, <1>3, <1>4, <1>5, <1>6 DEF Next, LoopStep

LEMMA InitInv == Init => ListInv /\ UsedUpInv /\ CapInv
<1>. SUFFICES ASSUME Init PROVE ListInv /\ UsedUpInv /\ CapInv
  OBVIOUS
<1>1. failed = <<>> /\ Len(<<>>) = 0 /\ \A r \in Runs : run[r].batch = <<>>
  BY DEF Init, IdleRun
<1>2. ListInv /\ UsedUpInv
  BY <1>1 DEF Init, ListInv, UsedUpInv
<1>3. \A j \in Jobs : Tries(j) = 1
  BY DEF Init, Tries, InFlight
<1>4. CapInv
  BY <1>3, ReplayAssumption DEF CapInv
<1>. QED  BY <1>2, <1>4

\* However many runs decide from stale snapshots, replay cannot try a job more
\* often than the cap and one try per concurrent run.
THEOREM ReplayIsBounded == Spec => []AttemptsBounded
<1>1. TypeOK /\ CapInv => AttemptsBounded
  <2>. SUFFICES ASSUME TypeOK, CapInv, NEW j \in Jobs
                PROVE  attempts[j] <= IF MaxAttempts < Cap
                                        THEN Cap - 1 + Cardinality(Runs) ELSE MaxAttempts
    BY DEF AttemptsBounded
  <2>1. Tries(j) \in Nat /\ attempts[j] \in Nat /\ attempts[j] <= Tries(j)
    BY DEF TypeOK, Tries, InFlight
  <2>2. Cardinality(Holders(j)) \in Nat
    BY HoldersFinite
  <2>3. Cardinality(Runs) \in Nat /\ Cap \in Nat /\ MaxAttempts \in Nat
    BY ReplayAssumption, FS_CardinalityType
  <2>. QED  BY <2>1, <2>2, <2>3 DEF CapInv
<1>. QED
  BY <1>1, InitTypeOK, NextTypeOK, InitInv, NextListInv, NextUsedUpInv, NextCapInv, PTL
     DEF Spec
=============================================================================
