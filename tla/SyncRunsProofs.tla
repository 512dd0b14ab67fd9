--------------------------- MODULE SyncRunsProofs ---------------------------
(***************************************************************************)
(* Proofs about the runs of the sync engine, for any number of concurrent  *)
(* requests, recordings, configurations and replays.                       *)
(***************************************************************************)
EXTENDS SyncRuns, FiniteSetTheorems, SequenceTheorems, TLAPS

-----------------------------------------------------------------------------
(***************************************************************************)
(* What the steps do to the executors.                                     *)
(***************************************************************************)
LEMMA IdleFacts ==
    /\ Idle \in ExecTypes
    /\ Idle.pc = "idle" /\ Idle.from = 0 /\ Idle.run = 0
    /\ Idle.config = 1 /\ Idle.source = 0 /\ Idle.attempt = 0
    /\ ~Idle.more /\ Idle.key \in Key /\ Idle.key.type = "MANUAL"
<1>1. [type |-> "MANUAL", config |-> 1, n |-> 0] \in Key
  BY SyncAssumption DEF Key, RunTypes
<1>2. 1 \in 1..MaxConfig /\ 0 \in Mark /\ 0 \in 0..ReplayCap
  BY SyncAssumption DEF Mark
<1>. QED  BY <1>1, <1>2 DEF Idle, ExecTypes

\* Only e moves, and keeps to the types.
Moved(e) ==
    /\ exec' \in [Executors -> ExecTypes]
    /\ \A d \in Executors \ {e} : exec'[d] = exec[d]

LEMMA MovesTo ==
    ASSUME TypeOK, NEW e \in Executors, NEW rec \in ExecTypes,
           exec' = [exec EXCEPT ![e] = rec]
    PROVE  Moved(e) /\ exec'[e] = rec
BY DEF TypeOK, Moved

\* The numbers two records of an executor share.
SamePlace(x, y) == y.from = x.from /\ y.config = x.config
SameRun(x, y) ==
    y.run = x.run /\ y.source = x.source /\ y.attempt = x.attempt /\ y.key = x.key

LEMMA StartFacts ==
    ASSUME TypeOK, NEW e \in Executors, NEW pc \in {"count", "find", "create"},
           NEW key \in Key, NEW from \in Mark, NEW source \in {0} \cup RunId,
           Start(e, pc, key, from, source)
    PROVE  /\ Moved(e) /\ exec[e].pc = "idle"
           /\ exec'[e].pc = pc /\ exec'[e].from = from
           /\ exec'[e].run = 0 /\ exec'[e].config = config.id
           /\ exec'[e].key = key
           /\ exec'[e].source = source /\ exec'[e].attempt = 0
           /\ ~exec'[e].more
           /\ config.id # 0
<1>. DEFINE rec == [Idle EXCEPT !.pc = pc, !.key = key, !.config = config.id,
                                !.from = from, !.source = source]
<1>1. config.id \in 1..MaxConfig
  BY DEF Start, TypeOK, ConfigTypes
<1>2. /\ rec \in ExecTypes /\ rec.pc = pc /\ rec.from = from /\ rec.key = key
      /\ rec.run = 0 /\ rec.config = config.id /\ rec.source = source
      /\ rec.attempt = 0 /\ ~rec.more
  BY <1>1, IdleFacts DEF ExecTypes
<1>3. exec' = [exec EXCEPT ![e] = rec]
  BY DEF Start
<1>. HIDE DEF rec
<1>. QED  BY <1>2, <1>3, MovesTo DEF Start

LEMMA ExecType == ASSUME TypeOK, NEW e \in Executors PROVE exec[e] \in ExecTypes
BY DEF TypeOK

\* A change of place alone.
LEMMA GotoFacts ==
    ASSUME NEW x \in ExecTypes,
           NEW pc \in {"idle", "count", "find", "restart", "create", "fetch",
                       "cursor", "complete", "finish", "fail", "error"}
    PROVE  LET y == [x EXCEPT !.pc = pc]
           IN y \in ExecTypes /\ y.pc = pc /\ SamePlace(x, y) /\ SameRun(x, y)
              /\ y.more = x.more
BY DEF ExecTypes, SamePlace, SameRun

LEMMA EndedFacts ==
    ASSUME NEW x \in ExecTypes, NEW pc \in {"fail", "finish"}
    PROVE  /\ Ended(x, pc) \in ExecTypes /\ Ended(x, pc).pc = pc
           /\ Ended(x, pc).from = 0 /\ ~Ended(x, pc).more
           /\ Ended(x, pc).config = x.config /\ SameRun(x, Ended(x, pc))
<1>1. 0 \in Mark
  BY SyncAssumption DEF Mark
<1>. QED  BY <1>1 DEF ExecTypes, Ended, SameRun

LEMMA RunningFacts ==
    ASSUME NEW x \in ExecTypes, NEW i \in {0} \cup RunId
    PROVE  /\ Running(x, i) \in ExecTypes /\ Running(x, i).pc = "fetch"
           /\ Running(x, i).run = i /\ SamePlace(x, Running(x, i))
           /\ Running(x, i).source = 0 /\ Running(x, i).attempt = 0
           /\ Running(x, i).key = Idle.key
<1>1. 0 \in 0..ReplayCap /\ Idle.key \in Key
  BY SyncAssumption, IdleFacts
<1>. HIDE DEF Idle
<1>. QED  BY <1>1 DEF ExecTypes, Running, SamePlace

\* What is left of an executor whose sync has failed.
Errored(x, y) ==
    /\ y.pc \in {"idle", "error"} /\ y.from = 0 /\ y.run = 0 /\ y.source = 0
    /\ y.config \in {1, x.config} /\ y.key = Idle.key

LEMMA AfterErrorFacts ==
    ASSUME TypeOK, NEW e \in Executors
    PROVE  AfterError(e) \in ExecTypes /\ Errored(exec[e], AfterError(e))
<1>. DEFINE rec == [Idle EXCEPT !.pc = "error", !.config = exec[e].config]
<1>1. exec[e].config \in 1..MaxConfig
  BY ExecType DEF ExecTypes
<1>2. /\ rec \in ExecTypes /\ rec.pc = "error" /\ rec.from = 0 /\ rec.run = 0
      /\ rec.source = 0 /\ rec.config = exec[e].config /\ rec.key = Idle.key
  <2>. HIDE DEF Idle
  <2>. QED  BY <1>1, IdleFacts DEF ExecTypes
<1>3. AfterError(e) \in {rec, Idle}
  BY DEF AfterError
<1>. HIDE DEF rec, Idle
<1>. QED  BY <1>2, <1>3, IdleFacts DEF Errored

-----------------------------------------------------------------------------
(***************************************************************************)
(* The steps of a run.                                                     *)
(***************************************************************************)
LEMMA ReplaysType ==
    ASSUME TypeOK, NEW i
    PROVE  Replays(i) \in Nat /\ IsFiniteSet({j \in DOMAIN runs : runs[j].source = i})
<1>1. DOMAIN runs = 1..Len(runs) /\ Len(runs) \in Nat
  BY DEF TypeOK
<1>2. IsFiniteSet(DOMAIN runs)
  BY <1>1, FS_Interval
<1>3. {j \in DOMAIN runs : runs[j].source = i} \subseteq DOMAIN runs
  OBVIOUS
<1>4. IsFiniteSet({j \in DOMAIN runs : runs[j].source = i})
  BY <1>2, <1>3, FS_Subset
<1>. QED  BY <1>4, FS_CardinalityType DEF Replays

LEMMA CountReplaysStep ==
    ASSUME TypeOK, NEW e \in Executors, CountReplays(e)
    PROVE  /\ Moved(e)
           /\ \/ exec'[e] = Idle
              \/ /\ exec'[e].pc = "create" /\ SamePlace(exec[e], exec'[e])
                 /\ exec'[e].run = exec[e].run /\ exec'[e].source = exec[e].source
                 /\ exec'[e].attempt = Replays(exec[e].source) + 1
                 /\ exec'[e].key = exec[e].key
<1>. DEFINE n == Replays(exec[e].source)
            rec == [exec[e] EXCEPT !.pc = "create", !.attempt = n + 1]
<1>1. n \in Nat
  BY ReplaysType
<1>2. CASE n >= ReplayCap
  <2>1. exec' = [exec EXCEPT ![e] = Idle]
    BY <1>2 DEF CountReplays
  <2>. QED  BY <2>1, IdleFacts, MovesTo
<1>3. CASE ~(n >= ReplayCap)
  <2>1. exec' = [exec EXCEPT ![e] = rec]
    BY <1>3 DEF CountReplays, TypeOK
  <2>2. n + 1 \in 0..ReplayCap
    BY <1>1, <1>3, SyncAssumption
  <2>3. /\ rec \in ExecTypes /\ rec.pc = "create" /\ SamePlace(exec[e], rec)
        /\ rec.run = exec[e].run /\ rec.source = exec[e].source
        /\ rec.attempt = n + 1 /\ rec.key = exec[e].key
    <3>. HIDE DEF n
    <3>. QED  BY <2>2, ExecType DEF ExecTypes, SamePlace
  <2>. HIDE DEF rec
  <2>. QED  BY <2>1, <2>3, MovesTo
<1>. QED  BY <1>2, <1>3

LEMMA FindRunStep ==
    ASSUME TypeOK, NEW e \in Executors, FindRun(e)
    PROVE  /\ Moved(e)
           /\ \/ exec'[e] = Idle
              \/ /\ exec'[e].pc = "create" /\ SamePlace(exec[e], exec'[e])
                 /\ SameRun(exec[e], exec'[e])
              \/ /\ exec'[e].pc = "restart" /\ SamePlace(exec[e], exec'[e])
                 /\ exec'[e].source = exec[e].source /\ exec'[e].key = exec[e].key
                 /\ exec'[e].run \in DOMAIN runs
                 /\ ~Skipped(runs[exec'[e].run].status)
<1>. DEFINE found == WithKey(exec[e].key)
            i == CHOOSE i \in found : TRUE
            rec == [exec[e] EXCEPT !.pc = "restart", !.run = i]
<1>1. CASE found = {}
  <2>1. exec' = [exec EXCEPT ![e] = [exec[e] EXCEPT !.pc = "create"]]
    BY <1>1 DEF FindRun, TypeOK
  <2>2. /\ [exec[e] EXCEPT !.pc = "create"] \in ExecTypes
        /\ [exec[e] EXCEPT !.pc = "create"].pc = "create"
        /\ SamePlace(exec[e], [exec[e] EXCEPT !.pc = "create"])
        /\ SameRun(exec[e], [exec[e] EXCEPT !.pc = "create"])
    BY ExecType, GotoFacts
  <2>. QED  BY <2>1, <2>2, MovesTo
<1>2. CASE found # {} /\ Skipped(runs[i].status)
  <2>1. exec' = [exec EXCEPT ![e] = Idle]
    BY <1>2 DEF FindRun, TypeOK
  <2>. QED  BY <2>1, IdleFacts, MovesTo
<1>3. CASE found # {} /\ ~Skipped(runs[i].status)
  <2>1. exec' = [exec EXCEPT ![e] = rec]
    BY <1>3 DEF FindRun, TypeOK
  <2>2. i \in found
    BY <1>3
  <2>3. i \in DOMAIN runs /\ i \in RunId
    BY <2>2 DEF WithKey, RunId, TypeOK
  <2>4. /\ rec \in ExecTypes /\ rec.pc = "restart" /\ SamePlace(exec[e], rec)
        /\ rec.run = i /\ rec.source = exec[e].source /\ rec.key = exec[e].key
    <3>. HIDE DEF i
    <3>. QED  BY <2>3, ExecType DEF ExecTypes, SamePlace
  <2>. HIDE DEF rec, i
  <2>. QED  BY <1>3, <2>1, <2>3, <2>4, MovesTo
<1>. QED  BY <1>1, <1>2, <1>3

LEMMA RestartRunStep ==
    ASSUME TypeOK, NEW e \in Executors, RestartRun(e)
    PROVE  /\ Moved(e)
           /\ exec'[e].pc = "fetch" /\ SamePlace(exec[e], exec'[e])
           /\ exec'[e].run = exec[e].run /\ exec'[e].source = 0
           /\ exec'[e].key = Idle.key
<1>1. exec' = [exec EXCEPT ![e] = Running(exec[e], exec[e].run)]
  BY DEF RestartRun, TypeOK
<1>2. exec[e] \in ExecTypes /\ exec[e].run \in {0} \cup RunId
  BY DEF TypeOK, ExecTypes
<1>3. /\ Running(exec[e], exec[e].run) \in ExecTypes
      /\ Running(exec[e], exec[e].run).pc = "fetch"
      /\ Running(exec[e], exec[e].run).run = exec[e].run
      /\ SamePlace(exec[e], Running(exec[e], exec[e].run))
      /\ Running(exec[e], exec[e].run).source = 0
      /\ Running(exec[e], exec[e].run).key = Idle.key
  BY <1>2, RunningFacts
<1>4. Moved(e) /\ exec'[e] = Running(exec[e], exec[e].run)
  BY <1>1, <1>3, MovesTo
<1>. QED  BY <1>3, <1>4

\* The row of a new run.
NewRun(e) == [key |-> Kept(exec[e].key), status |-> "RUNNING",
              config |-> exec[e].config, source |-> exec[e].source,
              attempt |-> exec[e].attempt, by |-> e]

LEMMA CreateRunStep ==
    ASSUME TypeOK, NEW e \in Executors, CreateRun(e)
    PROVE  /\ Moved(e)
           /\ \/ /\ runs' = Append(runs, NewRun(e)) /\ NewRun(e) \in RunRows
                 /\ exec'[e].pc = "fetch" /\ SamePlace(exec[e], exec'[e])
                 /\ exec'[e].run = Len(runs) + 1 /\ exec'[e].source = 0
                 /\ exec'[e].key = Idle.key
                 /\ missed' = missed \cup PassesOver(exec[e])
              \/ /\ runs' = runs /\ missed' = missed
                 /\ Errored(exec[e], exec'[e])
<1>0. exec[e] \in ExecTypes
  BY ExecType
<1>1. CASE WithKey(exec[e].key) = {} /\ config.id = exec[e].config
  <2>1. exec' = [exec EXCEPT ![e] = Running(exec[e], Len(runs) + 1)]
        /\ runs' = Append(runs, NewRun(e))
        /\ missed' = missed \cup PassesOver(exec[e])
    BY <1>1 DEF CreateRun, TypeOK, NewRun
  <2>2. Len(runs) + 1 \in {0} \cup RunId
    BY DEF TypeOK, RunId
  <2>3. NewRun(e) \in RunRows
    <3>1. Kept(exec[e].key) \in Key
      BY <1>0, IdleFacts DEF Kept, ExecTypes
    <3>. QED  BY <1>0, <3>1, SyncAssumption DEF NewRun, ExecTypes, RunRows
  <2>4. /\ Running(exec[e], Len(runs) + 1) \in ExecTypes
        /\ Running(exec[e], Len(runs) + 1).pc = "fetch"
        /\ Running(exec[e], Len(runs) + 1).run = Len(runs) + 1
        /\ SamePlace(exec[e], Running(exec[e], Len(runs) + 1))
        /\ Running(exec[e], Len(runs) + 1).source = 0
        /\ Running(exec[e], Len(runs) + 1).key = Idle.key
    BY <1>0, <2>2, RunningFacts
  <2>5. Moved(e) /\ exec'[e] = Running(exec[e], Len(runs) + 1)
    BY <2>1, <2>4, MovesTo
  <2>. QED  BY <2>1, <2>3, <2>4, <2>5
<1>2. CASE ~(WithKey(exec[e].key) = {} /\ config.id = exec[e].config)
  <2>1. exec' = [exec EXCEPT ![e] = AfterError(e)] /\ runs' = runs
        /\ missed' = missed
    BY <1>2 DEF CreateRun
  <2>. QED  BY <2>1, AfterErrorFacts, MovesTo
<1>. QED  BY <1>1, <1>2

\* A nonempty set of numbers has a least one.
LEMMA LeastNat ==
    ASSUME NEW T, T \subseteq Nat, T # {}
    PROVE  \E x \in T : \A y \in T : x <= y
<1>1. PICK R : R = OpToRel(<, Nat)
  OBVIOUS
<1>2. IsWellFoundedOn(R, Nat)
  BY <1>1, NatLessThanWellFounded
<1>3. PICK x \in T : \A y \in T : ~ (<<y, x>> \in R)
  BY <1>2, WFMin
<1>4. ASSUME NEW y \in T PROVE x <= y
  <2>1. x \in Nat /\ y \in Nat
    BY <1>3
  <2>2. y < x => <<y, x>> \in R
    BY <1>1, <2>1 DEF OpToRel
  <2>. QED  BY <1>3, <2>1, <2>2
<1>. QED  BY <1>3, <1>4

\* The page: the first recording listed after the run's position, if any.
LEMMA FetchPageStep ==
    ASSUME TypeOK, NEW e \in Executors, FetchPage(e)
    PROVE  /\ Moved(e) /\ exec[e].pc = "fetch"
           /\ exec'[e].pc = "cursor" /\ SameRun(exec[e], exec'[e])
           /\ exec'[e].config = exec[e].config
           /\ stored \subseteq stored' /\ stored' \subseteq listed
           /\ \/ /\ exec'[e].more
                 /\ \A r \in listed : r <= exec'[e].from =>
                       r <= exec[e].from \/ r \in stored'
              \/ /\ ~exec'[e].more /\ exec'[e].from = 0
                 /\ \A r \in listed : r <= exec[e].from \/ r \in stored'
<1>. DEFINE x == exec[e]
            left == Ahead(x)
            next == {r \in left : \A q \in left : r <= q}
            page == IF next = {} THEN 0 ELSE CHOOSE r \in next : TRUE
            more == left # next
            cursor == NextCursor(page, more)
            rec == [x EXCEPT !.pc = "cursor", !.more = more, !.from = cursor]
<1>0. x \in ExecTypes /\ x.from \in Nat
  BY ExecType DEF ExecTypes, Mark
<1>1. exec' = [exec EXCEPT ![e] = rec] /\ stored' = stored \cup next
      /\ exec[e].pc = "fetch"
  BY DEF FetchPage, TypeOK
<1>2. left \subseteq listed /\ listed \subseteq Mark /\ Mark \subseteq Nat /\ 0 \in Mark
  BY SyncAssumption DEF Ahead, TypeOK, Mark
<1>3. left # {} => next # {}
  <2>1. left # {} => \E r \in left : \A q \in left : r <= q
    BY <1>2, LeastNat
  <2>. QED  BY <2>1
<1>4. page \in Mark /\ (next # {} => page \in next)
  BY <1>2
<1>5. cursor \in Mark /\ more \in BOOLEAN
      /\ (more => cursor = page) /\ (~more => cursor = 0)
  BY <1>2, <1>4 DEF NextCursor
<1>6. \A r \in next : r = page
  <2>. SUFFICES ASSUME NEW r \in next PROVE r = page
    OBVIOUS
  <2>1. page \in next /\ page \in Nat /\ r \in Nat
    BY <1>2, <1>4
  <2>2. r <= page /\ page <= r
    BY <2>1
  <2>. QED  BY <2>1, <2>2
<1>7. stored \subseteq stored' /\ stored' \subseteq listed
  BY <1>1, <1>2 DEF TypeOK
<1>8. \A r \in listed : r <= x.from \/ r \in left
  BY <1>0, <1>2 DEF Ahead
<1>9. more => \A r \in listed : r <= page => r <= x.from \/ r \in stored'
  <2>. SUFFICES ASSUME more, NEW r \in listed, r <= page, r \in left
                PROVE  r \in stored'
    BY <1>8
  <2>1. page \in next
    BY <1>3, <1>4
  <2>2. page <= r /\ page \in Nat /\ r \in Nat
    BY <1>2, <1>4, <2>1
  <2>3. r = page
    BY <2>2
  <2>. QED  BY <1>1, <2>1, <2>3
<1>10. ~more => \A r \in listed : r <= x.from \/ r \in stored'
  BY <1>1, <1>8
<1>. HIDE DEF more, page, next, left, cursor
<1>11. /\ rec \in ExecTypes /\ rec.pc = "cursor" /\ SameRun(x, rec)
       /\ rec.from = cursor /\ rec.config = x.config /\ rec.more = more
  BY <1>0, <1>5 DEF ExecTypes, SameRun
<1>. HIDE DEF rec
<1>12. Moved(e) /\ exec'[e] = rec
  BY <1>1, <1>11, MovesTo
<1>. QED  BY <1>1, <1>5, <1>7, <1>9, <1>10, <1>11, <1>12

\* The cursor is saved before the next page is fetched.
LEMMA SaveCursorStep ==
    ASSUME TypeOK, NEW e \in Executors, SaveCursor(e)
    PROVE  /\ Moved(e) /\ SameRun(exec[e], exec'[e])
           /\ exec'[e].config = exec[e].config
           /\ \/ /\ exec'[e].pc = IF exec[e].more THEN "fetch" ELSE "complete"
                 /\ exec'[e].from = exec[e].from /\ config.id = exec[e].config
                 /\ config' = [config EXCEPT !.cursor = exec[e].from]
              \/ /\ exec'[e].pc = "fail" /\ exec'[e].from = 0
                 /\ config' = config
<1>. DEFINE x == exec[e]
            pc == IF x.more THEN "fetch" ELSE "complete"
            rec == [x EXCEPT !.pc = pc, !.more = FALSE]
<1>0. x \in ExecTypes
  BY ExecType
<1>1. CASE config.id = x.config
  <2>1. exec' = [exec EXCEPT ![e] = rec]
        /\ config' = [config EXCEPT !.cursor = x.from]
    BY <1>1 DEF SaveCursor, NextPage, TypeOK
  <2>2. /\ rec \in ExecTypes /\ rec.pc = pc /\ SameRun(x, rec)
        /\ rec.from = x.from /\ rec.config = x.config
    <3>1. pc \in {"fetch", "complete"}
      OBVIOUS
    <3>. HIDE DEF pc, x
    <3>. QED  BY <1>0, <3>1 DEF ExecTypes, SameRun
  <2>. HIDE DEF rec
  <2>3. Moved(e) /\ exec'[e] = rec
    BY <2>1, <2>2, MovesTo
  <2>. QED  BY <1>1, <2>1, <2>2, <2>3
<1>2. CASE config.id # x.config
  <2>1. exec' = [exec EXCEPT ![e] = Ended(x, "fail")] /\ config' = config
    BY <1>2 DEF SaveCursor, TypeOK
  <2>2. Moved(e) /\ exec'[e] = Ended(x, "fail")
    BY <1>0, <2>1, EndedFacts, MovesTo
  <2>. QED  BY <1>0, <2>1, <2>2, EndedFacts
<1>. QED  BY <1>1, <1>2

LEMMA CompleteStep ==
    ASSUME TypeOK, NEW e \in Executors, Complete(e)
    PROVE  /\ Moved(e) /\ SameRun(exec[e], exec'[e])
           /\ exec'[e].config = exec[e].config
           /\ exec'[e].pc \in {"finish", "fail"}
           /\ exec'[e].from = 0
           /\ \/ config' = Synced(config) /\ config.id = exec[e].config
              \/ config' = config
<1>0. exec[e] \in ExecTypes
  BY ExecType
<1>1. CASE config.id = exec[e].config
  <2>1. exec' = [exec EXCEPT ![e] = Ended(exec[e], "finish")]
        /\ config' = Synced(config)
    BY <1>1 DEF Complete, TypeOK
  <2>2. Moved(e) /\ exec'[e] = Ended(exec[e], "finish")
    BY <1>0, <2>1, EndedFacts, MovesTo
  <2>. QED  BY <1>0, <1>1, <2>1, <2>2, EndedFacts
<1>2. CASE config.id # exec[e].config
  <2>1. exec' = [exec EXCEPT ![e] = Ended(exec[e], "fail")] /\ config' = config
    BY <1>2 DEF Complete, TypeOK
  <2>2. Moved(e) /\ exec'[e] = Ended(exec[e], "fail")
    BY <1>0, <2>1, EndedFacts, MovesTo
  <2>. QED  BY <1>0, <2>1, <2>2, EndedFacts
<1>. QED  BY <1>1, <1>2

LEMMA ThrowStep ==
    ASSUME TypeOK, NEW e \in Executors, Throw(e)
    PROVE  /\ Moved(e) /\ SameRun(exec[e], exec'[e])
           /\ exec'[e].config = exec[e].config
           /\ exec'[e].pc = "fail" /\ exec'[e].from = 0
<1>1. exec' = [exec EXCEPT ![e] = Ended(exec[e], "fail")]
  BY DEF Throw, TypeOK
<1>2. Moved(e) /\ exec'[e] = Ended(exec[e], "fail")
  BY <1>1, ExecType, EndedFacts, MovesTo
<1>. QED  BY <1>2, ExecType, EndedFacts

LEMMA FinishStep ==
    ASSUME TypeOK, NEW e \in Executors, Finish(e)
    PROVE  Moved(e) /\ exec'[e] = Idle
BY IdleFacts, MovesTo DEF Finish

LEMMA FailStep ==
    ASSUME TypeOK, NEW e \in Executors, Fail(e)
    PROVE  Moved(e) /\ Errored(exec[e], exec'[e])
<1>1. exec' = [exec EXCEPT ![e] = AfterError(e)]
  BY DEF Fail
<1>. QED  BY <1>1, AfterErrorFacts, MovesTo

LEMMA ThrowOutsideStep ==
    ASSUME TypeOK, NEW e \in Executors, ThrowOutside(e)
    PROVE  Moved(e) /\ Errored(exec[e], exec'[e])
<1>1. exec' = [exec EXCEPT ![e] = Idle] \/ exec' = [exec EXCEPT ![e] = AfterError(e)]
  BY DEF ThrowOutside, TypeOK
<1>2. Idle \in ExecTypes /\ Errored(exec[e], Idle)
  BY IdleFacts DEF Errored
<1>. QED  BY <1>1, <1>2, AfterErrorFacts, MovesTo

LEMMA RecordErrorStep ==
    ASSUME TypeOK, RecordError
    PROVE  Worker \in Executors /\ Moved(Worker) /\ exec'[Worker] = Idle
<1>1. Worker \in Executors
  BY DEF Executors
<1>. QED  BY <1>1, IdleFacts, MovesTo DEF RecordError

-----------------------------------------------------------------------------
(***************************************************************************)
(* Types.                                                                  *)
(***************************************************************************)
\* A new status keeps the rows rows.
LEMMA StatusFacts ==
    ASSUME runs \in Seq(RunRows), NEW i,
           NEW status \in {"RUNNING", "COMPLETED", "FAILED"},
           runs' = [runs EXCEPT ![i].status = status]
    PROVE  /\ runs' \in Seq(RunRows) /\ Len(runs') = Len(runs)
           /\ DOMAIN runs' = DOMAIN runs
           /\ \A j \in DOMAIN runs :
                /\ j # i => runs'[j] = runs[j]
                /\ j = i => runs'[j].status = status
                /\ runs'[j].source = runs[j].source
                /\ runs'[j].attempt = runs[j].attempt
                /\ runs'[j].by = runs[j].by
<1>1. \A j \in DOMAIN runs : runs[j] \in RunRows
  OBVIOUS
<1>2. \A j \in DOMAIN runs : [runs[j] EXCEPT !.status = status] \in RunRows
  BY <1>1 DEF RunRows
<1>3. runs' \in [DOMAIN runs -> RunRows]
  BY <1>1, <1>2
<1>4. DOMAIN runs = 1..Len(runs) /\ Len(runs) \in Nat
  OBVIOUS
<1>5. runs' \in Seq(RunRows) /\ Len(runs') = Len(runs) /\ DOMAIN runs' = DOMAIN runs
  BY <1>3, <1>4
<1>6. \A j \in DOMAIN runs :
         runs'[j] = IF j = i THEN [runs[j] EXCEPT !.status = status] ELSE runs[j]
  OBVIOUS
<1>7. \A j \in DOMAIN runs :
         LET y == [runs[j] EXCEPT !.status = status]
         IN /\ y.status = status /\ y.source = runs[j].source
            /\ y.attempt = runs[j].attempt /\ y.by = runs[j].by
  BY <1>1 DEF RunRows
<1>. QED  BY <1>5, <1>6, <1>7

\* A step of one executor keeps the types if these are kept.
LEMMA StepTypes ==
    ASSUME TypeOK, NEW e \in Executors, Moved(e), exec'[e].run <= Len(runs'),
           runs' \in Seq(RunRows), Len(runs) <= Len(runs'),
           config' \in ConfigTypes, stored' \subseteq listed,
           missed' \subseteq listed, begun' \in 0..MaxBegun,
           orphans' \subseteq Nat,
           UNCHANGED <<recorded, listed, hour, created>>
    PROVE  TypeOK'
<1>1. \A d \in Executors : exec'[d].run <= Len(runs')
  <2>1. \A d \in Executors \ {e} :
          exec'[d].run = exec[d].run /\ exec[d].run <= Len(runs) /\ exec[d].run \in Nat
    BY DEF Moved, TypeOK, ExecTypes, RunId
  <2>2. Len(runs) \in Nat /\ Len(runs') \in Nat
    BY DEF TypeOK
  <2>. QED  BY <2>1, <2>2
<1>. QED  BY <1>1 DEF TypeOK, Moved

LEMMA IdleRun == ASSUME TypeOK PROVE Idle.run <= Len(runs) /\ Len(runs) \in Nat
BY IdleFacts DEF TypeOK

LEMMA RunStepTypes ==
    ASSUME TypeOK, NEW e \in Executors, RunStep(e) \/ Throw(e) \/ ThrowOutside(e)
    PROVE  TypeOK'
<1>0. /\ exec[e].run <= Len(runs) /\ Len(runs) \in Nat /\ runs \in Seq(RunRows)
      /\ config \in ConfigTypes /\ stored \subseteq listed
      /\ missed \subseteq listed /\ begun \in 0..MaxBegun /\ orphans \subseteq Nat
      /\ exec[e].run \in Nat
  BY DEF TypeOK, ExecTypes, RunId
<1>1. CASE CountReplays(e)
  <2>1. Moved(e) /\ exec'[e].run <= Len(runs)
    BY <1>0, <1>1, CountReplaysStep, IdleRun
  <2>. QED  BY <1>0, <1>1, <2>1, StepTypes DEF CountReplays
<1>2. CASE FindRun(e)
  <2>1. Moved(e) /\ exec'[e].run <= Len(runs)
    BY <1>0, <1>2, FindRunStep, IdleRun DEF SameRun
  <2>2. UNCHANGED <<recorded, listed, stored, config, runs, hour, begun, created,
                    missed, orphans>>
    BY <1>2 DEF FindRun
  <2>. QED  BY <1>0, <2>1, <2>2, StepTypes
<1>3. CASE RestartRun(e)
  <2>1. runs' \in Seq(RunRows) /\ Len(runs') = Len(runs)
    BY <1>0, <1>3, StatusFacts DEF RestartRun
  <2>2. Moved(e) /\ exec'[e].run <= Len(runs')
    BY <1>0, <1>3, <2>1, RestartRunStep
  <2>3. missed' \subseteq listed
    BY <1>0, <1>3 DEF RestartRun, PassesOver
  <2>. QED  BY <1>0, <1>3, <2>1, <2>2, <2>3, StepTypes DEF RestartRun
<1>4. CASE CreateRun(e)
  <2>1. /\ Moved(e) /\ exec'[e].run <= Len(runs') /\ runs' \in Seq(RunRows)
        /\ Len(runs) <= Len(runs') /\ missed' \subseteq listed
    <3>1. CASE runs' = Append(runs, NewRun(e)) /\ NewRun(e) \in RunRows
               /\ exec'[e].run = Len(runs) + 1
               /\ missed' = missed \cup PassesOver(exec[e])
      BY <1>0, <1>4, <3>1, CreateRunStep DEF PassesOver
    <3>2. CASE runs' = runs /\ missed' = missed /\ Errored(exec[e], exec'[e])
      BY <1>0, <1>4, <3>2, CreateRunStep DEF Errored
    <3>. QED  BY <1>4, <3>1, <3>2, CreateRunStep
  <2>. QED  BY <1>0, <1>4, <2>1, StepTypes DEF CreateRun
<1>5. CASE FetchPage(e)
  <2>1. Moved(e) /\ exec'[e].run <= Len(runs)
    BY <1>0, <1>5, FetchPageStep DEF SameRun
  <2>2. stored' \subseteq listed
    BY <1>5, FetchPageStep
  <2>. QED  BY <1>0, <1>5, <2>1, <2>2, StepTypes DEF FetchPage
<1>6. CASE SaveCursor(e)
  <2>1. Moved(e) /\ exec'[e].run <= Len(runs)
    BY <1>0, <1>6, SaveCursorStep DEF SameRun
  <2>2. config' \in ConfigTypes
    <3>1. exec[e].from \in Mark
      BY DEF TypeOK, ExecTypes
    <3>2. [config EXCEPT !.cursor = exec[e].from] \in ConfigTypes
      BY <1>0, <3>1 DEF ConfigTypes
    <3>. QED  BY <1>0, <1>6, <3>2, SaveCursorStep
  <2>. QED  BY <1>0, <1>6, <2>1, <2>2, StepTypes DEF SaveCursor
<1>7. CASE Complete(e)
  <2>1. Moved(e) /\ exec'[e].run <= Len(runs)
    BY <1>0, <1>7, CompleteStep DEF SameRun
  <2>2. config' \in ConfigTypes
    <3>1. 0 \in Mark /\ recorded \in Mark
      BY SyncAssumption DEF Mark, TypeOK
    <3>2. Synced(config) \in ConfigTypes
      BY <1>0, <3>1 DEF ConfigTypes, Synced
    <3>. QED  BY <1>0, <1>7, <3>2, CompleteStep
  <2>. QED  BY <1>0, <1>7, <2>1, <2>2, StepTypes DEF Complete
<1>8. CASE Finish(e)
  <2>1. runs' \in Seq(RunRows) /\ Len(runs') = Len(runs)
    BY <1>0, <1>8, StatusFacts DEF Finish, SetStatus
  <2>2. Moved(e) /\ exec'[e].run <= Len(runs')
    BY <1>8, <2>1, FinishStep, IdleRun
  <2>. QED  BY <1>0, <1>8, <2>1, <2>2, StepTypes DEF Finish
<1>9. CASE Fail(e)
  <2>1. runs' \in Seq(RunRows) /\ Len(runs') = Len(runs)
    BY <1>0, <1>9, StatusFacts DEF Fail, SetStatus
  <2>2. Moved(e) /\ exec'[e].run <= Len(runs')
    BY <1>0, <1>9, <2>1, FailStep DEF Errored
  <2>. QED  BY <1>0, <1>9, <2>1, <2>2, StepTypes DEF Fail
<1>10. CASE Throw(e)
  <2>1. Moved(e) /\ exec'[e].run <= Len(runs)
    BY <1>0, <1>10, ThrowStep DEF SameRun
  <2>. QED  BY <1>0, <1>10, <2>1, StepTypes DEF Throw
<1>11. CASE e = Worker /\ RecordError
  <2>1. Moved(e) /\ exec'[e].run <= Len(runs)
    BY <1>11, RecordErrorStep, IdleRun
  <2>2. config' \in ConfigTypes
    <3>1. [config EXCEPT !.status = "ERROR"] \in ConfigTypes
      BY <1>0 DEF ConfigTypes
    <3>. QED  BY <1>0, <1>11, <3>1 DEF RecordError
  <2>. QED  BY <1>0, <1>11, <2>1, <2>2, StepTypes DEF RecordError
<1>12. CASE ThrowOutside(e)
  <2>1. Moved(e) /\ exec'[e].run <= Len(runs)
    BY <1>0, <1>12, ThrowOutsideStep DEF Errored
  <2>2. orphans' \subseteq Nat
    BY <1>0, <1>12 DEF ThrowOutside
  <2>. QED  BY <1>0, <1>12, <2>1, <2>2, StepTypes DEF ThrowOutside
<1>. QED  BY <1>1, <1>2, <1>3, <1>4, <1>5, <1>6, <1>7, <1>8, <1>9, <1>10, <1>11,
             <1>12 DEF RunStep

-----------------------------------------------------------------------------
(***************************************************************************)
(* Coverage.  What is listed and lies behind a position of the             *)
(* configuration, or of a run of it, is stored or was passed over by name; *)
(* a run that has fetched its last page has everything.  A backfill's      *)
(* start date counts as a position only once the backfill runs.            *)
(***************************************************************************)
Covered(n, list, have) == \A r \in list : r <= n => r \in have
Have == stored \cup missed

\* x, an executor; id, the configuration there is.
RunCovered(x, id, made, list, have) ==
    /\ x.config <= made
    /\ x.pc \in {"fetch", "cursor", "complete"} => x.key.type # "BACKFILL"
    /\ x.config = id =>
        /\ x.key.type # "BACKFILL" => Covered(x.from, list, have)
        /\ LastFetched(x) => list \subseteq have

CoverInv ==
    /\ Covered(config.lastSync, listed, Have)
    /\ Covered(config.cursor, listed, Have)
    /\ config.id \in {0, created}
    /\ \A e \in Executors : RunCovered(exec[e], config.id, created, listed, Have)

\* What is covered stays covered.
LEMMA CoveredStays ==
    ASSUME NEW n, NEW list, NEW h, NEW h2, Covered(n, list, h), h \subseteq h2
    PROVE  Covered(n, list, h2)
BY DEF Covered

\* A call that is listed once nothing has passed it, or is noted.
LEMMA CoveredMore ==
    ASSUME NEW n, NEW list, NEW h, NEW h2, NEW r, Covered(n, list, h),
           h \subseteq h2, r <= n => r \in h2
    PROVE  Covered(n, list \cup {r}, h2)
BY DEF Covered

LEMMA CoveredZero == ASSUME TypeOK, NEW h PROVE Covered(0, listed, h)
<1>1. listed \subseteq 1..recorded /\ recorded \in Nat
  BY DEF TypeOK, Mark
<1>. QED  BY <1>1 DEF Covered

LEMMA Numbers ==
    ASSUME TypeOK
    PROVE  /\ recorded \in Nat /\ config.lastSync \in Nat /\ config.cursor \in Nat
           /\ created \in Nat /\ config.id \in Nat /\ listed \subseteq Nat
           /\ \A e \in Executors : exec[e].from \in Nat /\ exec[e].config \in Nat
<1>1. recorded \in Nat /\ listed \subseteq Nat
  BY DEF TypeOK, Mark
<1>2. config.lastSync \in Nat /\ config.cursor \in Nat /\ config.id \in Nat
  BY DEF TypeOK, ConfigTypes, Mark
<1>3. created \in Nat
  BY DEF TypeOK
<1>4. \A e \in Executors : exec[e].from \in Nat /\ exec[e].config \in Nat
  BY DEF TypeOK, ExecTypes, Mark
<1>. QED  BY <1>1, <1>2, <1>3, <1>4

LEMMA RunCoveredStays ==
    ASSUME NEW x, NEW id, NEW made, NEW list, NEW h, NEW h2,
           RunCovered(x, id, made, list, h), h \subseteq h2
    PROVE  RunCovered(x, id, made, list, h2)
BY CoveredStays DEF RunCovered

\* A step of one executor.
LEMMA StepCover ==
    ASSUME TypeOK, CoverInv, NEW e \in Executors, Moved(e),
           UNCHANGED <<listed, created>>, Have \subseteq Have',
           config'.id = config.id,
           Covered(config'.lastSync, listed, Have'),
           Covered(config'.cursor, listed, Have'),
           RunCovered(exec'[e], config.id, created, listed, Have')
    PROVE  CoverInv'
<1>. DEFINE h == Have
<1>1. PICK h2 : h2 = h'
  OBVIOUS
<1>2. \A d \in Executors \ {e} : RunCovered(exec[d], config.id, created, listed, h2)
  <2>1. \A d \in Executors : RunCovered(exec[d], config.id, created, listed, h)
    BY DEF CoverInv
  <2>2. h \subseteq h2
    BY <1>1
  <2>. HIDE DEF h
  <2>. QED  BY <2>1, <2>2, RunCoveredStays
<1>3. \A d \in Executors : RunCovered(exec'[d], config.id, created, listed, h2)
  BY <1>1, <1>2 DEF Moved
<1>4. \A d \in Executors :
         RunCovered(exec'[d], config'.id, created', listed', Have')
  BY <1>1, <1>3
<1>. QED  BY <1>4 DEF CoverInv

\* The same for a step that leaves the configuration, behind which the run
\* either lies at the start or has passed over what is noted.
LEMMA QuietCover ==
    ASSUME TypeOK, CoverInv, NEW e \in Executors, Moved(e),
           UNCHANGED <<listed, created, stored, config>>, missed \subseteq missed',
           exec'[e].config <= created, exec'[e].pc \notin {"cursor", "complete"},
           exec'[e].pc = "fetch" => exec'[e].key.type # "BACKFILL",
           exec'[e].config = config.id /\ exec'[e].key.type # "BACKFILL"
               => Covered(exec'[e].from, listed, Have')
    PROVE  CoverInv'
<1>1. Have \subseteq Have'
  BY DEF Have
<1>2. /\ Covered(config.lastSync, listed, Have')
      /\ Covered(config.cursor, listed, Have')
  BY <1>1, CoveredStays DEF CoverInv
<1>3. RunCovered(exec'[e], config.id, created, listed, Have')
  BY DEF RunCovered, LastFetched
<1>. QED  BY <1>1, <1>2, <1>3, StepCover

LEMMA IdleCover ==
    ASSUME TypeOK
    PROVE  /\ Idle.config <= created /\ ~LastFetched(Idle)
           /\ \A id, h : RunCovered(Idle, id, created, listed, h)
<1>1. Idle.config <= created /\ ~LastFetched(Idle)
  BY IdleFacts DEF TypeOK, LastFetched
<1>2. \A h : Covered(0, listed, h)
  BY CoveredZero
<1>. QED  BY <1>1, <1>2, IdleFacts DEF RunCovered

LEMMA RunStepCover ==
    ASSUME TypeOK, CoverInv, NEW e \in Executors,
           RunStep(e) \/ Throw(e) \/ ThrowOutside(e)
    PROVE  CoverInv'
<1>. DEFINE x == exec[e]
<1>0. /\ x.from \in Nat /\ x.config <= created /\ 1 <= created
      /\ listed \subseteq Nat
      /\ RunCovered(x, config.id, created, listed, Have)
      /\ Covered(config.lastSync, listed, Have)
      /\ Covered(config.cursor, listed, Have)
  <2>1. RunCovered(x, config.id, created, listed, Have)
    BY DEF CoverInv
  <2>2. x.config <= created /\ 1 <= created
    BY <2>1 DEF RunCovered, TypeOK
  <2>. QED  BY <2>1, <2>2, Numbers DEF CoverInv
<1>00. \A h : Covered(0, listed, h)
  BY CoveredZero
<1>1. ASSUME Moved(e), UNCHANGED <<listed, created, stored, missed, config>>,
             exec'[e].config \in {1, x.config},
             \/ exec'[e].from = 0 /\ exec'[e].pc \in {"idle", "error", "fail", "finish"}
             \/ /\ SamePlace(x, exec'[e]) /\ exec'[e].key = x.key
                /\ exec'[e].pc \in {"create", "restart"}
      PROVE  CoverInv'
  <2>1. Have' = Have
    BY <1>1 DEF Have
  <2>2. exec'[e].config = config.id /\ exec'[e].key.type # "BACKFILL"
            => Covered(exec'[e].from, listed, Have)
    BY <1>0, <1>00, <1>1 DEF SamePlace, RunCovered
  <2>3. /\ exec'[e].config <= created /\ exec'[e].pc # "fetch"
        /\ exec'[e].pc \notin {"cursor", "complete"}
    BY <1>0, <1>1
  <2>. QED  BY <1>1, <2>1, <2>2, <2>3, QuietCover
\* The run begins to fetch.
<1>2. ASSUME Moved(e), UNCHANGED <<listed, created, stored, config>>,
             missed' = missed \cup PassesOver(x), SamePlace(x, exec'[e]),
             exec'[e].pc = "fetch", exec'[e].key = Idle.key
      PROVE  CoverInv'
  <2>1. Have \subseteq Have' /\ PassesOver(x) \subseteq Have'
    BY <1>2 DEF Have
  <2>2. x.key.type = "BACKFILL" => Covered(x.from, listed, Have')
    BY <1>2, <2>1 DEF PassesOver, Covered, Have
  <2>3. x.config = config.id => Covered(x.from, listed, Have')
    BY <1>0, <2>1, <2>2, CoveredStays DEF RunCovered
  <2>4. exec'[e].key.type # "BACKFILL"
    BY <1>2, IdleFacts
  <2>5. exec'[e].from = x.from /\ exec'[e].config = x.config
        /\ exec'[e].config <= created /\ exec'[e].pc \notin {"cursor", "complete"}
    BY <1>0, <1>2 DEF SamePlace
  <2>. QED  BY <1>2, <2>3, <2>4, <2>5, QuietCover
<1>3. CASE CountReplays(e)
  <2>1. UNCHANGED <<listed, created, stored, missed, config>>
    BY <1>3 DEF CountReplays
  <2>. QED  BY <1>1, <1>3, <2>1, CountReplaysStep, IdleFacts DEF SamePlace
<1>4. CASE FindRun(e)
  <2>1. UNCHANGED <<listed, created, stored, missed, config>>
    BY <1>4 DEF FindRun
  <2>. QED  BY <1>1, <1>4, <2>1, FindRunStep, IdleFacts DEF SamePlace, SameRun
<1>5. CASE RestartRun(e)
  <2>1. UNCHANGED <<listed, created, stored, config>>
        /\ missed' = missed \cup PassesOver(x)
    BY <1>5 DEF RestartRun
  <2>. QED  BY <1>2, <1>5, <2>1, RestartRunStep
<1>6. CASE CreateRun(e)
  <2>1. UNCHANGED <<listed, created, stored, config>>
    BY <1>6 DEF CreateRun
  <2>2. CASE Errored(x, exec'[e]) /\ missed' = missed
    BY <1>1, <1>6, <2>1, <2>2, CreateRunStep DEF Errored
  <2>3. CASE ~(Errored(x, exec'[e]) /\ missed' = missed)
    BY <1>2, <1>6, <2>1, <2>3, CreateRunStep
  <2>. QED  BY <2>2, <2>3
<1>7. CASE FetchPage(e)
  <2>1. UNCHANGED <<listed, created, config, missed>>
    BY <1>7 DEF FetchPage
  <2>2. /\ Moved(e) /\ x.pc = "fetch" /\ exec'[e].pc = "cursor"
        /\ exec'[e].config = x.config /\ exec'[e].key = x.key
        /\ stored \subseteq stored'
        /\ \/ /\ exec'[e].more
              /\ \A r \in listed : r <= exec'[e].from => r <= x.from \/ r \in stored'
           \/ /\ ~exec'[e].more /\ exec'[e].from = 0
              /\ \A r \in listed : r <= x.from \/ r \in stored'
    BY <1>7, FetchPageStep DEF SameRun
  <2>3. Have \subseteq Have' /\ stored' \subseteq Have'
    BY <2>1, <2>2 DEF Have
  <2>4. /\ Covered(config.lastSync, listed, Have')
        /\ Covered(config.cursor, listed, Have')
    BY <1>0, <2>3, CoveredStays
  <2>5. x.key.type # "BACKFILL"
        /\ (x.config = config.id => Covered(x.from, listed, Have'))
    BY <1>0, <2>2, <2>3, CoveredStays DEF RunCovered
  <2>6. CASE exec'[e].more
    <3>1. x.config = config.id => Covered(exec'[e].from, listed, Have')
      BY <2>2, <2>3, <2>5, <2>6 DEF Covered
    <3>2. ~LastFetched(exec'[e])
      BY <2>2, <2>6 DEF LastFetched
    <3>3. RunCovered(exec'[e], config.id, created, listed, Have')
      BY <1>0, <2>2, <2>5, <3>1, <3>2 DEF RunCovered
    <3>. QED  BY <2>1, <2>2, <2>3, <2>4, <3>3, StepCover
  <2>7. CASE ~exec'[e].more
    <3>1. x.config = config.id => listed \subseteq Have'
      BY <2>2, <2>3, <2>5, <2>7 DEF Covered
    <3>2. RunCovered(exec'[e], config.id, created, listed, Have')
      BY <1>0, <1>00, <2>2, <2>5, <2>7, <3>1 DEF RunCovered
    <3>. QED  BY <2>1, <2>2, <2>3, <2>4, <3>2, StepCover
  <2>. QED  BY <2>6, <2>7
<1>8. CASE SaveCursor(e)
  <2>1. UNCHANGED <<listed, created, stored, missed>> /\ Have' = Have
        /\ x.pc = "cursor"
    BY <1>8 DEF SaveCursor, Have
  <2>2. config \in ConfigTypes
    BY DEF TypeOK
  <2>3. CASE /\ exec'[e].pc = IF x.more THEN "fetch" ELSE "complete"
             /\ exec'[e].from = x.from /\ config.id = x.config
             /\ config' = [config EXCEPT !.cursor = x.from]
    <3>1. config'.id = config.id /\ config'.lastSync = config.lastSync
          /\ config'.cursor = x.from
      BY <2>2, <2>3 DEF ConfigTypes
    <3>2. LastFetched(exec'[e]) => LastFetched(x)
      BY <2>1, <2>3 DEF LastFetched
    <3>3. Moved(e) /\ exec'[e].config = x.config /\ exec'[e].key = x.key
      BY <1>8, SaveCursorStep DEF SameRun
    <3>4. x.key.type # "BACKFILL" /\ Covered(x.from, listed, Have)
      BY <1>0, <2>1, <2>3 DEF RunCovered
    <3>5. RunCovered(exec'[e], config.id, created, listed, Have)
      BY <1>0, <2>3, <3>2, <3>3, <3>4 DEF RunCovered
    <3>. QED  BY <1>0, <2>1, <3>1, <3>3, <3>4, <3>5, StepCover
  <2>4. CASE exec'[e].pc = "fail" /\ exec'[e].from = 0 /\ config' = config
    BY <1>1, <1>8, <2>1, <2>4, SaveCursorStep
  <2>. QED  BY <1>8, <2>3, <2>4, SaveCursorStep
<1>9. CASE Complete(e)
  <2>1. UNCHANGED <<listed, created, stored, missed>> /\ Have' = Have
        /\ x.pc = "complete"
    BY <1>9 DEF Complete, Have
  <2>2. CASE config' = config
    BY <1>1, <1>9, <2>1, <2>2, CompleteStep
  <2>3. CASE config' = Synced(config) /\ config.id = x.config
    <3>1. config'.id = config.id /\ config'.lastSync = recorded /\ config'.cursor = 0
      BY <2>3 DEF Synced, TypeOK, ConfigTypes
    <3>2. listed \subseteq Have
      BY <1>0, <2>1, <2>3 DEF RunCovered, LastFetched
    <3>3. Covered(config'.lastSync, listed, Have)
      BY <3>2 DEF Covered
    <3>4. Moved(e) /\ exec'[e].config = x.config /\ exec'[e].key = x.key
          /\ exec'[e].pc \in {"finish", "fail"} /\ exec'[e].from = 0
      BY <1>9, CompleteStep DEF SameRun
    <3>5. RunCovered(exec'[e], config.id, created, listed, Have)
      BY <1>0, <1>00, <3>4 DEF RunCovered, LastFetched
    <3>. QED  BY <1>00, <2>1, <3>1, <3>3, <3>4, <3>5, StepCover
  <2>. QED  BY <1>9, <2>2, <2>3, CompleteStep
<1>10. CASE Finish(e)
  BY <1>1, <1>10, FinishStep, IdleFacts DEF Finish
<1>11. CASE Fail(e)
  BY <1>1, <1>11, FailStep DEF Fail, Errored
<1>12. CASE Throw(e)
  BY <1>1, <1>12, ThrowStep DEF Throw
<1>13. CASE ThrowOutside(e)
  BY <1>1, <1>13, ThrowOutsideStep DEF ThrowOutside, Errored
<1>14. CASE e = Worker /\ RecordError
  <2>1. UNCHANGED <<listed, created, stored, missed>> /\ Have' = Have
    BY <1>14 DEF RecordError, Have
  <2>2. config'.id = config.id /\ config'.lastSync = config.lastSync
        /\ config'.cursor = config.cursor
    BY <1>14 DEF RecordError, TypeOK, ConfigTypes
  <2>3. Moved(e) /\ exec'[e] = Idle
    BY <1>14, RecordErrorStep
  <2>4. RunCovered(exec'[e], config.id, created, listed, Have)
    BY <2>3, IdleCover
  <2>. QED  BY <1>0, <2>1, <2>2, <2>3, <2>4, StepCover
<1>. QED  BY <1>3, <1>4, <1>5, <1>6, <1>7, <1>8, <1>9, <1>10, <1>11, <1>12, <1>13,
             <1>14 DEF RunStep

-----------------------------------------------------------------------------
(***************************************************************************)
(* Beginning a run.                                                        *)
(***************************************************************************)
\* Where a run may begin, and what that leaves behind.
LEMMA BeginFacts ==
    ASSUME TypeOK, CoverInv, NEW e \in Executors,
           NEW pc \in {"count", "find", "create"}, NEW key \in Key,
           NEW from \in Mark, NEW source \in {0} \cup RunId,
           Start(e, pc, key, from, source),
           key.type # "BACKFILL" => Covered(from, listed, Have),
           UNCHANGED <<recorded, listed, stored, config, runs, hour, created, missed,
                       orphans>>
    PROVE  TypeOK' /\ CoverInv'
<1>1. /\ Moved(e) /\ exec'[e].pc = pc /\ exec'[e].from = from
      /\ exec'[e].key = key
      /\ exec'[e].run = 0 /\ exec'[e].config = config.id /\ config.id # 0
  BY StartFacts
<1>2. begun' \in 0..MaxBegun
  BY SyncAssumption DEF Start, Count, TypeOK
<1>3. /\ Len(runs) \in Nat /\ runs \in Seq(RunRows) /\ config \in ConfigTypes
      /\ stored \subseteq listed /\ missed \subseteq listed /\ orphans \subseteq Nat
  BY DEF TypeOK
<1>4. TypeOK'
  BY <1>1, <1>2, <1>3, StepTypes
<1>5. Have' = Have
  BY DEF Have
<1>6. config.id <= created
  BY <1>1, Numbers DEF CoverInv
<1>7. CoverInv'
  BY <1>1, <1>5, <1>6, QuietCover
<1>. QED  BY <1>4, <1>7

LEMMA PositionFacts ==
    ASSUME TypeOK, CoverInv
    PROVE  Position \in Mark /\ Covered(Position, listed, Have)
<1>1. config.lastSync \in Mark /\ config.cursor \in Mark
  BY DEF TypeOK, ConfigTypes
<1>. QED  BY <1>1 DEF Position, Later, CoverInv

LEMMA KeyFacts ==
    ASSUME TypeOK, config.id # 0, NEW type \in RunTypes,
           NEW n \in {Own, 1, hour + 1}
    PROVE  KeyOf(type, n) \in Key /\ KeyOf(type, n).type = type
<1>1. n \in 0..MaxHour + 1
  BY SyncAssumption DEF TypeOK, Own
<1>2. config.id \in 1..MaxConfig
  BY DEF TypeOK, ConfigTypes
<1>. QED  BY <1>1, <1>2 DEF KeyOf, Key

LEMMA BeginSteps ==
    ASSUME TypeOK, CoverInv, NEW e \in Executors,
           \/ BeginScheduled
           \/ BeginManual(e)
           \/ \E from \in 0..recorded : BeginBackfill(e, from)
           \/ \E i \in DOMAIN runs : BeginReplay(e, i)
    PROVE  TypeOK' /\ CoverInv'
<1>0. /\ Position \in Mark /\ Covered(Position, listed, Have)
      /\ 0 \in {0} \cup RunId /\ Worker \in Executors
  BY PositionFacts DEF Executors
<1>1. CASE BeginScheduled
  <2>1. config.id # 0
    BY <1>1 DEF BeginScheduled, Start
  <2>2. KeyOf("SCHEDULED", hour + 1) \in Key
    BY <2>1, KeyFacts DEF RunTypes
  <2>. QED  BY <1>0, <1>1, <2>2, BeginFacts DEF BeginScheduled
<1>2. CASE BeginManual(e)
  <2>1. config.id # 0
    BY <1>2 DEF BeginManual, Start
  <2>2. KeyOf("MANUAL", 1) \in Key /\ KeyOf("MANUAL", Own) \in Key
    BY <2>1, KeyFacts DEF RunTypes
  <2>3. UNCHANGED <<recorded, listed, stored, config, runs, hour, created, missed,
                    orphans>>
    BY <1>2 DEF BeginManual
  <2>4. CASE Start(e, "find", KeyOf("MANUAL", 1), Position, 0)
    BY <1>0, <2>2, <2>3, <2>4, BeginFacts
  <2>5. CASE Start(e, "create", KeyOf("MANUAL", Own), Position, 0)
    BY <1>0, <2>2, <2>3, <2>5, BeginFacts
  <2>. QED  BY <1>2, <2>4, <2>5 DEF BeginManual
<1>3. ASSUME NEW from \in 0..recorded, BeginBackfill(e, from)
      PROVE  TypeOK' /\ CoverInv'
  <2>1. config.id # 0
    BY <1>3 DEF BeginBackfill, Start
  <2>2. /\ KeyOf("BACKFILL", Own) \in Key /\ KeyOf("BACKFILL", Own).type = "BACKFILL"
        /\ KeyOf("BACKFILL", 1) \in Key /\ KeyOf("BACKFILL", 1).type = "BACKFILL"
    BY <2>1, KeyFacts DEF RunTypes
  <2>3. from \in Mark
    BY SyncAssumption DEF TypeOK, Mark
  <2>4. UNCHANGED <<recorded, listed, stored, config, runs, hour, created, missed,
                    orphans>>
    BY <1>3 DEF BeginBackfill
  <2>5. CASE Start(e, "find", KeyOf("BACKFILL", 1), from, 0)
    BY <1>0, <2>2, <2>3, <2>4, <2>5, BeginFacts
  <2>6. CASE Start(e, "create", KeyOf("BACKFILL", Own), from, 0)
    BY <1>0, <2>2, <2>3, <2>4, <2>6, BeginFacts
  <2>. QED  BY <1>3, <2>5, <2>6 DEF BeginBackfill
<1>4. ASSUME NEW i \in DOMAIN runs, BeginReplay(e, i)
      PROVE  TypeOK' /\ CoverInv'
  <2>1. config.id # 0
    BY <1>4 DEF BeginReplay, Start
  <2>2. KeyOf("REPLAY", Own) \in Key
    BY <2>1, KeyFacts DEF RunTypes
  <2>3. i \in {0} \cup RunId
    BY DEF TypeOK, RunId
  <2>. QED  BY <1>0, <1>4, <2>2, <2>3, BeginFacts DEF BeginReplay
<1>. QED  BY <1>1, <1>2, <1>3, <1>4

-----------------------------------------------------------------------------
(***************************************************************************)
(* The provider, the clock and the settings.                               *)
(***************************************************************************)
LEMMA RecordStep ==
    ASSUME TypeOK, CoverInv, NEW r \in 1..recorded, Record(r)
    PROVE  TypeOK' /\ CoverInv'
<1>1. /\ UNCHANGED <<recorded, stored, config, runs, exec, hour, begun, created,
                     orphans>>
      /\ listed' = listed \cup {r}
      /\ missed \subseteq missed' /\ missed' \subseteq missed \cup {r}
      /\ (Passed(r) => r \in missed')
  BY DEF Record
<1>2. TypeOK'
  BY <1>1 DEF TypeOK
<1>. DEFINE h == Have
<1>3. PICK h2 : h2 = Have'
  OBVIOUS
<1>4. h \subseteq h2 /\ (Passed(r) => r \in h2)
  BY <1>1, <1>3 DEF Have
<1>5. \A n : Covered(n, listed, h) /\ (r <= n => Passed(r)) => Covered(n, listed', h2)
  BY <1>1, <1>4, CoveredMore
<1>6. ASSUME NEW e \in Executors
      PROVE  RunCovered(exec[e], config.id, created, listed', h2)
  <2>1. RunCovered(exec[e], config.id, created, listed, h)
    BY DEF CoverInv
  <2>2. exec[e].config = config.id /\ exec[e].key.type # "BACKFILL" /\ r <= exec[e].from
        => Passed(r)
    BY DEF Passed
  <2>3. exec[e].config = config.id /\ LastFetched(exec[e]) => Passed(r)
    BY DEF Passed
  <2>4. exec[e].config = config.id /\ LastFetched(exec[e]) => listed' \subseteq h2
    BY <1>1, <1>4, <2>1, <2>3 DEF RunCovered
  <2>5. exec[e].config = config.id /\ exec[e].key.type # "BACKFILL"
        => Covered(exec[e].from, listed', h2)
    BY <1>5, <2>1, <2>2 DEF RunCovered
  <2>. QED  BY <2>1, <2>4, <2>5 DEF RunCovered
<1>7. Covered(config.lastSync, listed', h2) /\ Covered(config.cursor, listed', h2)
  BY <1>5 DEF CoverInv, Passed
<1>8. \A e \in Executors : RunCovered(exec'[e], config'.id, created', listed', Have')
  BY <1>1, <1>3, <1>6
<1>9. CoverInv'
  BY <1>1, <1>3, <1>7, <1>8 DEF CoverInv
<1>. QED  BY <1>2, <1>9

\* Settings: the configuration keeps its marks, or there is a new one that
\* no executor knows.
LEMMA SettingsStep ==
    ASSUME TypeOK, CoverInv,
           UNCHANGED <<listed, stored, exec, missed>>,
           \/ /\ config'.id = config.id /\ created' = created
              /\ config'.lastSync = config.lastSync /\ config'.cursor = config.cursor
           \/ /\ config'.lastSync = 0 /\ config'.cursor = 0
              /\ \/ config'.id = 0 /\ created' = created
                 \/ config'.id = created + 1 /\ created' = created + 1
    PROVE  CoverInv'
<1>1. Have' = Have
  BY DEF Have
<1>2. Covered(0, listed, Have)
  BY CoveredZero
<1>3. \A e \in Executors : RunCovered(exec[e], config.id, created, listed, Have)
  BY DEF CoverInv
<1>4. \A e \in Executors : exec[e].config # 0
  BY DEF TypeOK, ExecTypes
<1>5. created \in Nat /\ \A e \in Executors : exec[e].config \in Nat
  BY Numbers
<1>6. CASE config'.id = config.id /\ created' = created
           /\ config'.lastSync = config.lastSync /\ config'.cursor = config.cursor
  BY <1>1, <1>6 DEF CoverInv
<1>7. CASE config'.lastSync = 0 /\ config'.cursor = 0
           /\ config'.id = 0 /\ created' = created
  <2>1. \A e \in Executors : RunCovered(exec[e], 0, created, listed, Have)
    BY <1>3, <1>4 DEF RunCovered
  <2>2. \A e \in Executors : RunCovered(exec'[e], config'.id, created', listed', Have')
    BY <1>1, <1>7, <2>1
  <2>. QED  BY <1>1, <1>2, <1>7, <2>2 DEF CoverInv
<1>8. CASE config'.lastSync = 0 /\ config'.cursor = 0
           /\ config'.id = created + 1 /\ created' = created + 1
  <2>1. ASSUME NEW e \in Executors
        PROVE  RunCovered(exec[e], created + 1, created + 1, listed, Have)
    <3>1. exec[e].config <= created /\ exec[e].config \in Nat
      BY <1>3, <1>5 DEF RunCovered
    <3>2. exec[e].config # created + 1 /\ exec[e].config <= created + 1
      BY <1>5, <3>1
    <3>. QED  BY <1>3, <3>2 DEF RunCovered
  <2>2. \A e \in Executors : RunCovered(exec'[e], config'.id, created', listed', Have')
    BY <1>1, <1>8, <2>1
  <2>. QED  BY <1>1, <1>2, <1>8, <2>2 DEF CoverInv
<1>. QED  BY <1>6, <1>7, <1>8

\* Deleting the configuration takes it off the rows.
LEMMA DeleteRuns ==
    ASSUME TypeOK, DeleteConfig
    PROVE  /\ runs' \in Seq(RunRows) /\ Len(runs') = Len(runs)
           /\ DOMAIN runs' = DOMAIN runs
           /\ \A j \in DOMAIN runs :
                /\ runs'[j].status = runs[j].status
                /\ runs'[j].source = runs[j].source
                /\ runs'[j].attempt = runs[j].attempt
                /\ runs'[j].by = runs[j].by
<1>1. DOMAIN runs = 1..Len(runs) /\ Len(runs) \in Nat
      /\ \A j \in DOMAIN runs : runs[j] \in RunRows
  BY DEF TypeOK
<1>2. \A j \in DOMAIN runs :
        LET y == [runs[j] EXCEPT !.config = 0]
        IN /\ y \in RunRows /\ y.status = runs[j].status
           /\ y.source = runs[j].source /\ y.attempt = runs[j].attempt
           /\ y.by = runs[j].by
  BY <1>1, SyncAssumption DEF RunRows
<1>3. runs' = [i \in DOMAIN runs |-> [runs[i] EXCEPT !.config = 0]]
  BY DEF DeleteConfig
<1>4. runs' \in [1..Len(runs) -> RunRows]
  BY <1>1, <1>2, <1>3
<1>5. runs' \in Seq(RunRows) /\ Len(runs') = Len(runs) /\ DOMAIN runs' = DOMAIN runs
  BY <1>1, <1>4
<1>. QED  BY <1>2, <1>3, <1>5

LEMMA SettingsSteps ==
    ASSUME TypeOK, CoverInv,
           \/ \E b \in BOOLEAN : SetEnabled(b) \/ TestCredentials(b)
           \/ DeleteConfig \/ CreateConfig
    PROVE  TypeOK' /\ CoverInv'
<1>0. config \in ConfigTypes /\ 0 \in Mark
  BY SyncAssumption DEF TypeOK, Mark
<1>1. begun' \in 0..MaxBegun
  <2>1. Count
    BY DEF SetEnabled, TestCredentials, DeleteConfig, CreateConfig
  <2>. QED  BY <2>1, SyncAssumption DEF Count, TypeOK
<1>2. ASSUME NEW b \in BOOLEAN, SetEnabled(b) PROVE TypeOK' /\ CoverInv'
  <2>1. /\ config' \in ConfigTypes /\ config'.id = config.id
        /\ config'.lastSync = config.lastSync /\ config'.cursor = config.cursor
    BY <1>0, <1>2 DEF SetEnabled, ConfigTypes
  <2>2. CoverInv'
    BY <1>2, <2>1, SettingsStep DEF SetEnabled
  <2>. QED  BY <1>1, <1>2, <2>1, <2>2 DEF SetEnabled, TypeOK
<1>3. ASSUME NEW b \in BOOLEAN, TestCredentials(b) PROVE TypeOK' /\ CoverInv'
  <2>1. /\ config' \in ConfigTypes /\ config'.id = config.id
        /\ config'.lastSync = config.lastSync /\ config'.cursor = config.cursor
    BY <1>0, <1>3 DEF TestCredentials, ConfigTypes
  <2>2. CoverInv'
    BY <1>3, <2>1, SettingsStep DEF TestCredentials
  <2>. QED  BY <1>1, <1>3, <2>1, <2>2 DEF TestCredentials, TypeOK
<1>4. CASE DeleteConfig
  <2>1. /\ config' \in ConfigTypes /\ config'.id = 0
        /\ config'.lastSync = 0 /\ config'.cursor = 0
    <3>1. config' = [NewConfig(0) EXCEPT !.enabled = FALSE]
      BY <1>4 DEF DeleteConfig
    <3>2. config' = [id |-> 0, enabled |-> FALSE, lastSync |-> 0, cursor |-> 0,
                     status |-> "PENDING_SETUP"]
      BY <3>1 DEF NewConfig
    <3>3. 0 \in 0..MaxConfig
      BY SyncAssumption
    <3>. QED  BY <1>0, <3>2, <3>3 DEF ConfigTypes
  <2>2. CoverInv'
    BY <1>4, <2>1, SettingsStep DEF DeleteConfig
  <2>3. runs' \in Seq(RunRows) /\ Len(runs') = Len(runs)
    BY <1>4, DeleteRuns
  <2>. QED  BY <1>1, <1>4, <2>1, <2>2, <2>3 DEF DeleteConfig, TypeOK
<1>5. CASE CreateConfig
  <2>1. created + 1 \in 1..MaxConfig
    BY <1>5, SyncAssumption DEF CreateConfig, TypeOK
  <2>2. /\ config' \in ConfigTypes /\ config'.id = created + 1
        /\ config'.lastSync = 0 /\ config'.cursor = 0
    BY <1>0, <1>5, <2>1 DEF CreateConfig, NewConfig, ConfigTypes
  <2>3. CoverInv'
    BY <1>5, <2>2, SettingsStep DEF CreateConfig
  <2>. QED  BY <1>1, <1>5, <2>1, <2>2, <2>3 DEF CreateConfig, TypeOK
<1>. QED  BY <1>2, <1>3, <1>4, <1>5

LEMMA CrashStep ==
    ASSUME TypeOK, CoverInv, Crash PROVE TypeOK' /\ CoverInv'
<1>1. exec' \in [Executors -> ExecTypes] /\ \A e \in Executors : exec'[e] = Idle
  BY IdleFacts DEF Crash
<1>2. orphans' \subseteq Nat
  BY DEF Crash, TypeOK, ExecTypes, RunId
<1>3. begun' \in 0..MaxBegun
  BY SyncAssumption DEF Crash, Count, TypeOK
<1>4. \A e \in Executors : exec'[e].run <= Len(runs)
  BY <1>1, IdleRun
<1>5. TypeOK'
  BY <1>1, <1>2, <1>3, <1>4 DEF Crash, TypeOK
<1>6. Have' = Have /\ UNCHANGED <<listed, config, created>>
  BY DEF Crash, Have
<1>7. \A e \in Executors : RunCovered(exec'[e], config'.id, created', listed', Have')
  BY <1>1, <1>6, IdleCover
<1>8. CoverInv'
  BY <1>6, <1>7 DEF CoverInv
<1>. QED  BY <1>5, <1>8

LEMMA SyncInit == Init => TypeOK /\ CoverInv
<1>. SUFFICES ASSUME Init PROVE TypeOK /\ CoverInv
  OBVIOUS
<1>1. 0 \in Mark /\ 0 \in 0..MaxHour /\ 0 \in 0..MaxBegun /\ 1 \in 1..MaxConfig
      /\ 1 \in 0..MaxConfig
  BY SyncAssumption DEF Mark
<1>2. /\ config \in ConfigTypes /\ config.lastSync = 0 /\ config.cursor = 0
      /\ config.id = 1
  BY <1>1 DEF Init, NewConfig, ConfigTypes
<1>3. exec \in [Executors -> ExecTypes] /\ \A e \in Executors : exec[e] = Idle
  BY IdleFacts DEF Init
<1>4. runs \in Seq(RunRows) /\ Len(runs) = 0
  BY DEF Init
<1>5. TypeOK
  BY <1>1, <1>2, <1>3, <1>4, IdleFacts DEF Init, TypeOK
<1>6. CoverInv
  BY <1>2, <1>3, <1>5, IdleCover, CoveredZero DEF CoverInv, Init
<1>. QED  BY <1>5, <1>6

LEMMA SyncNext == TypeOK /\ CoverInv /\ [Next]_vars => (TypeOK /\ CoverInv)'
<1>. SUFFICES ASSUME TypeOK, CoverInv, [Next]_vars PROVE TypeOK' /\ CoverInv'
  OBVIOUS
<1>1. CASE BeginScheduled
  <2>1. Worker \in Executors
    BY DEF Executors
  <2>. QED  BY <1>1, <2>1, BeginSteps
<1>2. ASSUME NEW e \in Requests,
             \/ BeginManual(e)
             \/ \E from \in 0..recorded : BeginBackfill(e, from)
             \/ \E i \in DOMAIN runs : BeginReplay(e, i)
      PROVE  TypeOK' /\ CoverInv'
  <2>1. e \in Executors
    BY DEF Executors
  <2>. QED  BY <1>2, <2>1, BeginSteps
<1>3. ASSUME NEW e \in Executors, RunStep(e) \/ Throw(e) \/ ThrowOutside(e)
      PROVE  TypeOK' /\ CoverInv'
  BY <1>3, RunStepTypes, RunStepCover
<1>4. CASE Crash
  BY <1>4, CrashStep
<1>5. ASSUME NEW r \in 1..recorded, Record(r) PROVE TypeOK' /\ CoverInv'
  BY <1>5, RecordStep
<1>6. CASE StartCall \/ NextHour
  <2>1. UNCHANGED <<listed, stored, config, runs, exec, created, missed, orphans>>
    BY <1>6 DEF StartCall, NextHour
  <2>2. recorded' \in Mark /\ hour' \in 0..MaxHour /\ begun' \in 0..MaxBegun
    BY <1>6, SyncAssumption DEF StartCall, NextHour, Count, TypeOK, Mark
  <2>3. 1..recorded \subseteq 1..recorded'
    BY <1>6 DEF StartCall, NextHour, TypeOK, Mark
  <2>4. TypeOK'
    BY <2>1, <2>2, <2>3 DEF TypeOK
  <2>. QED  BY <2>1, <2>4, SettingsStep
<1>7. CASE \/ \E b \in BOOLEAN : SetEnabled(b) \/ TestCredentials(b)
           \/ DeleteConfig \/ CreateConfig
  BY <1>7, SettingsSteps
<1>8. CASE UNCHANGED vars
  <2>1. UNCHANGED <<recorded, listed, stored, config, runs, exec, hour, begun,
                    created, missed, orphans>>
    BY <1>8 DEF vars
  <2>. QED  BY <2>1, SettingsStep DEF TypeOK
<1>. QED  BY <1>1, <1>2, <1>3, <1>4, <1>5, <1>6, <1>7, <1>8 DEF Next

(***************************************************************************)
(* The configuration, the ledger and the executors keep their types; no    *)
(* executor works on a run the ledger does not have.                       *)
(***************************************************************************)
THEOREM SyncTypes == Spec => []TypeOK
BY SyncInit, SyncNext, PTL DEF Spec

(***************************************************************************)
(* Whatever runs of syncCallRecordingProvider overlap, fail, crash or      *)
(* outlive their configuration, what lies before lastSyncAt and before     *)
(* syncCursor was stored, but for the three windows kept in missed.        *)
(***************************************************************************)
THEOREM SyncSkipsNothing == Spec => []NothingSkipped
<1>1. CoverInv => NothingSkipped
  BY DEF CoverInv, Covered, Have, NothingSkipped
<1>. QED  BY <1>1, SyncInit, SyncNext, PTL DEF Spec

-----------------------------------------------------------------------------
(***************************************************************************)
(* The ledger.  An executor holds a row from the moment it makes it        *)
(* RUNNING to the moment it ends it.                                       *)
(***************************************************************************)
Busy(x) == x.pc \in {"fetch", "cursor", "complete", "finish", "fail"}

LedgerInv ==
    /\ \A e \in Executors :
         /\ exec[e].pc \in {"idle", "count", "find", "create", "error"} => exec[e].run = 0
         /\ Busy(exec[e]) \/ exec[e].pc = "restart" => exec[e].run # 0
    /\ \A i \in DOMAIN runs : runs[i].status = "RUNNING" =>
         i \in orphans \/ \E e \in Executors : exec[e].run = i /\ Busy(exec[e])

\* A step that leaves the rows alone and lets no row go.
LEMMA LedgerKept ==
    ASSUME TypeOK, LedgerInv, NEW e \in Executors, Moved(e),
           orphans \subseteq orphans', DOMAIN runs' = DOMAIN runs,
           \A i \in DOMAIN runs : runs'[i].status = runs[i].status,
           Busy(exec[e]) => \/ Busy(exec'[e]) /\ exec'[e].run = exec[e].run
                            \/ exec[e].run \in orphans',
           exec'[e].pc \in {"idle", "count", "find", "create", "error"} => exec'[e].run = 0,
           Busy(exec'[e]) \/ exec'[e].pc = "restart" => exec'[e].run # 0
    PROVE  LedgerInv'
<1>1. \A d \in Executors :
        Busy(exec[d]) => \/ Busy(exec'[d]) /\ exec'[d].run = exec[d].run
                         \/ exec[d].run \in orphans'
  BY DEF Moved
<1>2. \A d \in Executors :
         /\ exec'[d].pc \in {"idle", "count", "find", "create", "error"} => exec'[d].run = 0
         /\ Busy(exec'[d]) \/ exec'[d].pc = "restart" => exec'[d].run # 0
  BY DEF Moved, LedgerInv
<1>3. \A i \in DOMAIN runs : runs'[i].status = "RUNNING" =>
         i \in orphans' \/ \E d \in Executors : exec'[d].run = i /\ Busy(exec'[d])
  BY <1>1 DEF LedgerInv
<1>. QED  BY <1>2, <1>3 DEF LedgerInv, Busy

\* An executor ends the row it holds, or starts it again.
LEMMA LedgerStatus ==
    ASSUME TypeOK, LedgerInv, NEW e \in Executors, Moved(e), orphans' = orphans,
           NEW status \in {"RUNNING", "COMPLETED", "FAILED"},
           runs' = [runs EXCEPT ![exec[e].run].status = status],
           status = "RUNNING" => Busy(exec'[e]) /\ exec'[e].run = exec[e].run,
           exec'[e].pc \in {"idle", "count", "find", "create", "error"} => exec'[e].run = 0,
           Busy(exec'[e]) \/ exec'[e].pc = "restart" => exec'[e].run # 0
    PROVE  LedgerInv'
<1>1. /\ DOMAIN runs' = DOMAIN runs
      /\ \A j \in DOMAIN runs :
           /\ j # exec[e].run => runs'[j].status = runs[j].status
           /\ j = exec[e].run => runs'[j].status = status
  BY StatusFacts DEF TypeOK
<1>2. \A d \in Executors :
         /\ exec'[d].pc \in {"idle", "count", "find", "create", "error"} => exec'[d].run = 0
         /\ Busy(exec'[d]) \/ exec'[d].pc = "restart" => exec'[d].run # 0
  BY DEF Moved, LedgerInv
<1>3. \A i \in DOMAIN runs : runs'[i].status = "RUNNING" =>
         i \in orphans \/ \E d \in Executors : exec'[d].run = i /\ Busy(exec'[d])
  BY <1>1 DEF LedgerInv, Moved
<1>. QED  BY <1>1, <1>2, <1>3 DEF LedgerInv, Busy

LEMMA IdleLedger ==
    /\ Idle.pc \in {"idle", "count", "find", "create", "error"} => Idle.run = 0
    /\ ~(Busy(Idle) \/ Idle.pc = "restart")
BY IdleFacts DEF Busy

LEMMA RunStepLedger ==
    ASSUME TypeOK, LedgerInv, NEW e \in Executors,
           RunStep(e) \/ Throw(e) \/ ThrowOutside(e)
    PROVE  LedgerInv'
<1>0. /\ exec[e].pc \in {"idle", "count", "find", "create", "error"} => exec[e].run = 0
      /\ Busy(exec[e]) \/ exec[e].pc = "restart" => exec[e].run # 0
      /\ Len(runs) \in Nat /\ DOMAIN runs = 1..Len(runs)
  BY DEF LedgerInv, TypeOK
<1>1. ASSUME Moved(e), UNCHANGED <<runs, orphans>>, exec'[e].run = exec[e].run,
             Busy(exec[e]), Busy(exec'[e])
      PROVE  LedgerInv'
  BY <1>0, <1>1, LedgerKept DEF Busy
<1>2. CASE CountReplays(e)
  <2>1. ~Busy(exec[e]) /\ exec[e].run = 0 /\ UNCHANGED <<runs, orphans>>
    BY <1>0, <1>2 DEF CountReplays, Busy
  <2>2. exec'[e].run = 0 /\ exec'[e].pc \in {"idle", "create"}
    BY <1>2, <2>1, CountReplaysStep, IdleFacts
  <2>. QED  BY <1>2, <2>1, <2>2, CountReplaysStep, LedgerKept DEF Busy
<1>3. CASE FindRun(e)
  <2>1. ~Busy(exec[e]) /\ exec[e].run = 0 /\ UNCHANGED <<runs, orphans>>
    BY <1>0, <1>3 DEF FindRun, Busy
  <2>2. \/ exec'[e].run = 0 /\ exec'[e].pc \in {"idle", "create"}
        \/ exec'[e].run # 0 /\ exec'[e].pc = "restart"
    BY <1>0, <1>3, <2>1, FindRunStep, IdleFacts DEF SameRun
  <2>. QED  BY <1>3, <2>1, <2>2, FindRunStep, LedgerKept DEF Busy
<1>4. CASE RestartRun(e)
  <2>1. /\ runs' = [runs EXCEPT ![exec[e].run].status = "RUNNING"]
        /\ orphans' = orphans /\ exec[e].run # 0
    BY <1>0, <1>4 DEF RestartRun
  <2>2. Moved(e) /\ exec'[e].pc = "fetch" /\ exec'[e].run = exec[e].run
    BY <1>4, RestartRunStep
  <2>. QED  BY <2>1, <2>2, LedgerStatus DEF Busy
<1>5. CASE CreateRun(e)
  <2>1. ~Busy(exec[e]) /\ exec[e].run = 0 /\ orphans' = orphans
    BY <1>0, <1>5 DEF CreateRun, Busy
  <2>2. CASE runs' = runs
    <3>1. exec'[e].pc \in {"idle", "error"} /\ exec'[e].run = 0
      <4>1. runs # Append(runs, NewRun(e))
        BY DEF TypeOK
      <4>. QED  BY <1>5, <2>1, <2>2, <4>1, CreateRunStep DEF Errored
    <3>. QED  BY <1>5, <2>1, <2>2, <3>1, CreateRunStep, LedgerKept DEF Busy
  <2>3. CASE /\ runs' = Append(runs, NewRun(e)) /\ NewRun(e) \in RunRows
             /\ exec'[e].pc = "fetch" /\ exec'[e].run = Len(runs) + 1
    <3>1. /\ DOMAIN runs' = 1..Len(runs) + 1
          /\ \A i \in 1..Len(runs) : runs'[i] = runs[i]
      BY <2>3 DEF TypeOK
    <3>2. \A d \in Executors \ {e} : exec'[d] = exec[d]
      BY <1>5, CreateRunStep DEF Moved
    <3>3. \A i \in DOMAIN runs : runs[i].status = "RUNNING" =>
            i \in orphans \/ \E d \in Executors \ {e} : exec[d].run = i /\ Busy(exec[d])
      BY <2>1 DEF LedgerInv
    <3>4. \A i \in DOMAIN runs' : runs'[i].status = "RUNNING" =>
            i \in orphans \/ \E d \in Executors : exec'[d].run = i /\ Busy(exec'[d])
      <4>. SUFFICES ASSUME NEW i \in DOMAIN runs', runs'[i].status = "RUNNING"
                    PROVE  \/ i \in orphans
                           \/ \E d \in Executors : exec'[d].run = i /\ Busy(exec'[d])
        OBVIOUS
      <4>1. CASE i = Len(runs) + 1
        BY <2>3, <4>1 DEF Busy
      <4>2. CASE i \in 1..Len(runs)
        BY <1>0, <3>1, <3>2, <3>3, <4>2
      <4>. QED  BY <1>0, <3>1, <4>1, <4>2
    <3>5. \A d \in Executors :
            /\ exec'[d].pc \in {"idle", "count", "find", "create", "error"} => exec'[d].run = 0
            /\ Busy(exec'[d]) \/ exec'[d].pc = "restart" => exec'[d].run # 0
      BY <1>0, <2>3, <3>2 DEF LedgerInv
    <3>. QED  BY <2>1, <3>4, <3>5 DEF LedgerInv, Busy
  <2>. QED  BY <1>5, <2>2, <2>3, CreateRunStep
<1>6. CASE FetchPage(e)
  <2>1. Busy(exec[e]) /\ UNCHANGED <<runs, orphans>>
    BY <1>6 DEF FetchPage, Busy
  <2>2. Moved(e) /\ exec'[e].pc = "cursor" /\ exec'[e].run = exec[e].run
    BY <1>6, FetchPageStep DEF SameRun
  <2>. QED  BY <1>1, <2>1, <2>2 DEF Busy
<1>7. CASE SaveCursor(e)
  <2>1. Busy(exec[e]) /\ UNCHANGED <<runs, orphans>>
    BY <1>7 DEF SaveCursor, Busy
  <2>2. /\ Moved(e) /\ exec'[e].pc \in {"fetch", "complete", "fail"}
        /\ exec'[e].run = exec[e].run
    BY <1>7, SaveCursorStep DEF SameRun
  <2>. QED  BY <1>1, <2>1, <2>2 DEF Busy
<1>8. CASE Complete(e)
  <2>1. Busy(exec[e]) /\ UNCHANGED <<runs, orphans>>
    BY <1>8 DEF Complete, Busy
  <2>2. /\ Moved(e) /\ exec'[e].pc \in {"finish", "fail"}
        /\ exec'[e].run = exec[e].run
    BY <1>8, CompleteStep DEF SameRun
  <2>. QED  BY <1>1, <2>1, <2>2 DEF Busy
<1>9. CASE Finish(e)
  <2>1. /\ runs' = [runs EXCEPT ![exec[e].run].status = "COMPLETED"]
        /\ orphans' = orphans
    BY <1>9 DEF Finish, SetStatus
  <2>. QED  BY <1>9, <2>1, FinishStep, IdleLedger, LedgerStatus
<1>10. CASE Fail(e)
  <2>1. /\ runs' = [runs EXCEPT ![exec[e].run].status = "FAILED"]
        /\ orphans' = orphans
    BY <1>10 DEF Fail, SetStatus
  <2>2. Moved(e) /\ exec'[e].pc \in {"idle", "error"} /\ exec'[e].run = 0
    BY <1>10, FailStep DEF Errored
  <2>. QED  BY <2>1, <2>2, LedgerStatus DEF Busy
<1>11. CASE Throw(e)
  <2>1. Busy(exec[e]) /\ UNCHANGED <<runs, orphans>>
    BY <1>11 DEF Throw, Busy
  <2>2. Moved(e) /\ exec'[e].pc = "fail" /\ exec'[e].run = exec[e].run
    BY <1>11, ThrowStep DEF SameRun
  <2>. QED  BY <1>1, <2>1, <2>2 DEF Busy
<1>12. CASE e = Worker /\ RecordError
  <2>1. ~Busy(exec[e]) /\ UNCHANGED <<runs, orphans>>
    BY <1>12 DEF RecordError, Busy
  <2>. QED  BY <1>12, <2>1, RecordErrorStep, IdleLedger, LedgerKept
<1>13. CASE ThrowOutside(e)
  <2>1. /\ UNCHANGED runs /\ orphans \subseteq orphans'
        /\ (Busy(exec[e]) => exec[e].run \in orphans')
    BY <1>13 DEF ThrowOutside, Busy
  <2>2. Moved(e) /\ exec'[e].pc \in {"idle", "error"} /\ exec'[e].run = 0
    BY <1>13, ThrowOutsideStep DEF Errored
  <2>. QED  BY <2>1, <2>2, LedgerKept DEF Busy
<1>. QED  BY <1>2, <1>3, <1>4, <1>5, <1>6, <1>7, <1>8, <1>9, <1>10, <1>11, <1>12,
             <1>13 DEF RunStep

\* A run that begins holds no row yet.
LEMMA BeginMoves ==
    ASSUME TypeOK, CoverInv, NEW e \in Executors,
           \/ e = Worker /\ BeginScheduled
           \/ BeginManual(e)
           \/ \E from \in 0..recorded : BeginBackfill(e, from)
           \/ \E i \in DOMAIN runs : BeginReplay(e, i)
    PROVE  /\ Moved(e) /\ exec[e].pc = "idle" /\ exec'[e].run = 0
           /\ \/ exec'[e].pc = "count"
              \/ exec'[e].pc \in {"find", "create"} /\ exec'[e].source = 0
           /\ UNCHANGED <<runs, orphans>>
<1>0. /\ Position \in Mark /\ 0 \in {0} \cup RunId
      /\ \A i \in DOMAIN runs : i \in {0} \cup RunId
  BY PositionFacts DEF RunId, TypeOK
<1>1. ASSUME NEW pc \in {"count", "find", "create"}, NEW type \in RunTypes,
             NEW n \in {Own, 1, hour + 1}, NEW from \in Mark,
             NEW source \in {0} \cup RunId,
             Start(e, pc, KeyOf(type, n), from, source)
      PROVE  /\ Moved(e) /\ exec[e].pc = "idle" /\ exec'[e].run = 0
             /\ exec'[e].pc = pc /\ exec'[e].source = source
  <2>1. KeyOf(type, n) \in Key
    BY <1>1, KeyFacts DEF Start
  <2>. QED  BY <1>1, <2>1, StartFacts
<1>2. "SCHEDULED" \in RunTypes /\ "MANUAL" \in RunTypes /\ "BACKFILL" \in RunTypes
      /\ "REPLAY" \in RunTypes
  BY DEF RunTypes
<1>3. CASE e = Worker /\ BeginScheduled
  <2>1. Start(e, "find", KeyOf("SCHEDULED", hour + 1), Position, 0)
        /\ UNCHANGED <<runs, orphans>>
    BY <1>3 DEF BeginScheduled
  <2>. QED  BY <1>0, <1>1, <1>2, <2>1
<1>4. CASE BeginManual(e)
  <2>1. /\ \/ Start(e, "find", KeyOf("MANUAL", 1), Position, 0)
           \/ Start(e, "create", KeyOf("MANUAL", Own), Position, 0)
        /\ UNCHANGED <<runs, orphans>>
    BY <1>4 DEF BeginManual
  <2>. QED  BY <1>0, <1>1, <1>2, <2>1
<1>5. ASSUME NEW from \in 0..recorded, BeginBackfill(e, from)
      PROVE  /\ Moved(e) /\ exec[e].pc = "idle" /\ exec'[e].run = 0
             /\ exec'[e].pc \in {"find", "create"} /\ exec'[e].source = 0
             /\ UNCHANGED <<runs, orphans>>
  <2>1. from \in Mark
    BY SyncAssumption DEF TypeOK, Mark
  <2>2. /\ \/ Start(e, "find", KeyOf("BACKFILL", 1), from, 0)
           \/ Start(e, "create", KeyOf("BACKFILL", Own), from, 0)
        /\ UNCHANGED <<runs, orphans>>
    BY <1>5 DEF BeginBackfill
  <2>. QED  BY <1>0, <1>1, <1>2, <2>1, <2>2
<1>6. ASSUME NEW i \in DOMAIN runs, BeginReplay(e, i)
      PROVE  /\ Moved(e) /\ exec[e].pc = "idle" /\ exec'[e].run = 0
             /\ exec'[e].pc = "count" /\ UNCHANGED <<runs, orphans>>
  <2>1. Start(e, "count", KeyOf("REPLAY", Own), Position, i)
        /\ UNCHANGED <<runs, orphans>>
    BY <1>6 DEF BeginReplay
  <2>. QED  BY <1>0, <1>1, <1>2, <2>1
<1>. QED  BY <1>3, <1>4, <1>5, <1>6

LEMMA LedgerNext == TypeOK /\ CoverInv /\ LedgerInv /\ [Next]_vars => LedgerInv'
<1>. SUFFICES ASSUME TypeOK, CoverInv, LedgerInv, [Next]_vars PROVE LedgerInv'
  OBVIOUS
<1>1. ASSUME NEW e \in Executors, Moved(e), exec[e].pc = "idle", exec'[e].run = 0,
             exec'[e].pc \in {"count", "find", "create"}, UNCHANGED <<runs, orphans>>
      PROVE  LedgerInv'
  BY <1>1, LedgerKept DEF Busy
<1>2. ASSUME NEW e \in Executors,
             \/ e = Worker /\ BeginScheduled
             \/ BeginManual(e)
             \/ \E from \in 0..recorded : BeginBackfill(e, from)
             \/ \E i \in DOMAIN runs : BeginReplay(e, i)
      PROVE  LedgerInv'
  BY <1>1, <1>2, BeginMoves
<1>3. ASSUME NEW e \in Executors, RunStep(e) \/ Throw(e) \/ ThrowOutside(e)
      PROVE  LedgerInv'
  BY <1>3, RunStepLedger
<1>4. CASE Crash
  <2>1. \A e \in Executors : exec'[e] = Idle
    BY <1>4 DEF Crash
  <2>2. runs' = runs /\ \A e \in Executors : exec[e].run # 0 => exec[e].run \in orphans'
    BY <1>4 DEF Crash
  <2>3. orphans \subseteq orphans'
    BY <1>4 DEF Crash
  <2>4. \A i \in DOMAIN runs : i # 0
    BY DEF TypeOK
  <2>5. \A i \in DOMAIN runs : runs[i].status = "RUNNING" => i \in orphans'
    BY <2>2, <2>3, <2>4 DEF LedgerInv
  <2>. QED  BY <2>1, <2>2, <2>5, IdleLedger DEF LedgerInv, Busy
<1>5. ASSUME UNCHANGED <<exec, orphans>>, DOMAIN runs' = DOMAIN runs,
             \A i \in DOMAIN runs : runs'[i].status = runs[i].status
      PROVE  LedgerInv'
  BY <1>5 DEF LedgerInv, Busy
<1>6. CASE DeleteConfig
  BY <1>5, <1>6, DeleteRuns DEF DeleteConfig
<1>7. CASE (\E r \in 1..recorded : Record(r)) \/ StartCall \/ NextHour \/ CreateConfig
           \/ UNCHANGED vars
  BY <1>5, <1>7 DEF Record, StartCall, NextHour, CreateConfig, vars
<1>8. ASSUME NEW b \in BOOLEAN, SetEnabled(b) \/ TestCredentials(b)
      PROVE  LedgerInv'
  BY <1>5, <1>8 DEF SetEnabled, TestCredentials
<1>. QED  BY <1>2, <1>3, <1>4, <1>6, <1>7, <1>8 DEF Next, Executors

(***************************************************************************)
(* Every way out of a run ends its row in IntegrationRun, so that nothing  *)
(* else can block the row's key: all but the death of its process and the  *)
(* failure of the catch's own finishIntegrationRun.                        *)
(***************************************************************************)
THEOREM RunningRowsAreExecuted == Spec => []RunningIsExecuted
<1>1. Init => LedgerInv
  BY IdleLedger DEF Init, LedgerInv
<1>2. LedgerInv => RunningIsExecuted
  BY DEF LedgerInv, RunningIsExecuted
<1>. QED  BY <1>1, <1>2, LedgerNext, SyncInit, SyncNext, PTL DEF Spec

-----------------------------------------------------------------------------
(***************************************************************************)
(* A step that takes no completed row.                                     *)
(***************************************************************************)
StaysCompleted ==
    \A i \in DOMAIN runs :
        runs[i].status = "COMPLETED" /\ (\A e \in Executors : exec[e].run # i)
            => runs'[i].status = "COMPLETED" /\ \A e \in Executors : exec'[e].run # i

LEMMA CompletedKept ==
    ASSUME TypeOK, NEW e \in Executors, Moved(e),
           \A i \in DOMAIN runs : i # exec[e].run => runs'[i].status = runs[i].status,
           \/ exec'[e].run \in {0, exec[e].run, Len(runs) + 1}
           \/ exec'[e].run \in DOMAIN runs /\ ~Skipped(runs[exec'[e].run].status)
    PROVE  StaysCompleted
<1>. SUFFICES ASSUME NEW i \in DOMAIN runs, runs[i].status = "COMPLETED",
                     \A d \in Executors : exec[d].run # i
              PROVE  runs'[i].status = "COMPLETED" /\ \A d \in Executors : exec'[d].run # i
  BY DEF StaysCompleted
<1>1. i # 0 /\ i # Len(runs) + 1
  BY DEF TypeOK
<1>2. exec'[e].run # i
  BY <1>1 DEF Skipped
<1>. QED  BY <1>2 DEF Moved

LEMMA RunStepCompleted ==
    ASSUME TypeOK, NEW e \in Executors, RunStep(e) \/ Throw(e) \/ ThrowOutside(e)
    PROVE  StaysCompleted
<1>0. Idle.run = 0
  BY IdleFacts
<1>1. CASE CountReplays(e)
  BY <1>0, <1>1, CountReplaysStep, CompletedKept DEF CountReplays
<1>2. CASE FindRun(e)
  <2>1. runs' = runs
    BY <1>2 DEF FindRun
  <2>. QED  BY <1>0, <1>2, <2>1, FindRunStep, CompletedKept DEF SameRun
<1>3. CASE RestartRun(e)
  <2>1. \A i \in DOMAIN runs : i # exec[e].run => runs'[i].status = runs[i].status
    BY <1>3, StatusFacts DEF RestartRun, TypeOK
  <2>. QED  BY <1>3, <2>1, RestartRunStep, CompletedKept
<1>4. CASE CreateRun(e)
  <2>0. runs' = runs \/ (runs' = Append(runs, NewRun(e)) /\ NewRun(e) \in RunRows)
    BY <1>4, CreateRunStep
  <2>1. \A i \in DOMAIN runs : runs'[i] = runs[i]
    BY <2>0 DEF TypeOK
  <2>2. exec'[e].run \in {0, exec[e].run, Len(runs) + 1}
    BY <1>4, CreateRunStep DEF Errored
  <2>. QED  BY <1>4, <2>1, <2>2, CreateRunStep, CompletedKept
<1>5. CASE FetchPage(e)
  BY <1>5, FetchPageStep, CompletedKept DEF FetchPage, SameRun
<1>6. CASE SaveCursor(e)
  <2>1. runs' = runs
    BY <1>6 DEF SaveCursor
  <2>. QED  BY <1>6, <2>1, SaveCursorStep, CompletedKept DEF SameRun
<1>7. CASE Complete(e)
  <2>1. runs' = runs
    BY <1>7 DEF Complete
  <2>. QED  BY <1>7, <2>1, CompleteStep, CompletedKept DEF SameRun
<1>8. CASE Finish(e)
  <2>1. \A i \in DOMAIN runs : i # exec[e].run => runs'[i].status = runs[i].status
    BY <1>8, StatusFacts DEF Finish, SetStatus, TypeOK
  <2>. QED  BY <1>0, <1>8, <2>1, FinishStep, CompletedKept
<1>9. CASE Fail(e)
  <2>1. \A i \in DOMAIN runs : i # exec[e].run => runs'[i].status = runs[i].status
    BY <1>9, StatusFacts DEF Fail, SetStatus, TypeOK
  <2>. QED  BY <1>9, <2>1, FailStep, CompletedKept DEF Errored
<1>10. CASE Throw(e)
  BY <1>10, ThrowStep, CompletedKept DEF Throw, SameRun
<1>11. CASE e = Worker /\ RecordError
  BY <1>0, <1>11, RecordErrorStep, CompletedKept DEF RecordError
<1>12. CASE ThrowOutside(e)
  BY <1>12, ThrowOutsideStep, CompletedKept DEF ThrowOutside, Errored
<1>. QED  BY <1>1, <1>2, <1>3, <1>4, <1>5, <1>6, <1>7, <1>8, <1>9, <1>10, <1>11,
             <1>12 DEF RunStep

(***************************************************************************)
(* startIntegrationRun never takes a completed row: only an executor that  *)
(* had already taken it may still change it.                               *)
(***************************************************************************)
THEOREM CompletedRowsStay == Spec => CompletedStays
<1>1. TypeOK /\ CoverInv /\ [Next]_vars => [StaysCompleted]_vars
  <2>. SUFFICES ASSUME TypeOK, CoverInv, Next PROVE StaysCompleted
    OBVIOUS
  <2>1. ASSUME NEW e \in Executors,
               \/ e = Worker /\ BeginScheduled
               \/ BeginManual(e)
               \/ \E from \in 0..recorded : BeginBackfill(e, from)
               \/ \E i \in DOMAIN runs : BeginReplay(e, i)
        PROVE  StaysCompleted
    BY <2>1, BeginMoves, CompletedKept
  <2>2. ASSUME NEW e \in Executors, RunStep(e) \/ Throw(e) \/ ThrowOutside(e)
        PROVE  StaysCompleted
    BY <2>2, RunStepCompleted
  <2>3. CASE Crash
    <3>1. runs' = runs /\ \A e \in Executors : exec'[e] = Idle
      BY <2>3 DEF Crash
    <3>2. \A i \in DOMAIN runs : i # 0
      BY DEF TypeOK
    <3>. QED  BY <3>1, <3>2, IdleFacts DEF StaysCompleted
  <2>4. ASSUME exec' = exec,
               \A i \in DOMAIN runs : runs'[i].status = runs[i].status
        PROVE  StaysCompleted
    BY <2>4 DEF StaysCompleted
  <2>5. CASE DeleteConfig
    BY <2>4, <2>5, DeleteRuns DEF DeleteConfig
  <2>6. CASE (\E r \in 1..recorded : Record(r)) \/ StartCall \/ NextHour
             \/ CreateConfig
    BY <2>4, <2>6 DEF Record, StartCall, NextHour, CreateConfig
  <2>7. ASSUME NEW b \in BOOLEAN, SetEnabled(b) \/ TestCredentials(b)
        PROVE  StaysCompleted
    BY <2>4, <2>7 DEF SetEnabled, TestCredentials
  <2>. QED  BY <2>1, <2>2, <2>3, <2>5, <2>6, <2>7 DEF Next, Executors
<1>2. Spec => [][StaysCompleted]_vars
  BY <1>1, SyncInit, SyncNext, PTL DEF Spec
<1>. QED  BY <1>2, PTL DEF CompletedStays, StaysCompleted

-----------------------------------------------------------------------------
(***************************************************************************)
(* Replays.  An attempt is numbered by a count that the rows have reached  *)
(* when it is created, and above all the executor's own attempts.          *)
(***************************************************************************)
ReplayOf(rows, i) == {j \in DOMAIN rows : rows[j].source = i}
Reached(rows, i) == Cardinality(ReplayOf(rows, i))

RowsNumbered(rows) ==
    /\ \A j \in DOMAIN rows : rows[j].source # 0 =>
         rows[j].attempt >= 1 /\ rows[j].attempt <= Reached(rows, rows[j].source)
    /\ \A i, j \in DOMAIN rows :
         i # j /\ rows[i].source # 0 /\ rows[i].source = rows[j].source
            /\ rows[i].attempt = rows[j].attempt
         => rows[i].by # rows[j].by

\* x, an executor e about to create a replay.
Numbered(rows, e, x) ==
    /\ x.pc = "find" => x.source = 0
    /\ x.pc = "create" /\ x.source # 0 =>
        /\ x.attempt >= 1 /\ x.attempt <= Reached(rows, x.source) + 1
        /\ \A j \in ReplayOf(rows, x.source) :
             rows[j].by = e => rows[j].attempt < x.attempt

ReplayInv ==
    /\ RowsNumbered(runs)
    /\ \A e \in Executors : Numbered(runs, e, exec[e])

\* The numbers of the rows stay what they are.
SameNumbers(rows) ==
    /\ DOMAIN rows = DOMAIN runs
    /\ \A j \in DOMAIN runs :
         /\ rows[j].source = runs[j].source
         /\ rows[j].attempt = runs[j].attempt
         /\ rows[j].by = runs[j].by

LEMMA AttemptTypes ==
    ASSUME TypeOK
    PROVE  /\ \A e \in Executors : exec[e].attempt \in Nat
           /\ \A j \in DOMAIN runs : runs[j].attempt \in Nat
<1>1. 0..ReplayCap \subseteq Nat
  BY SyncAssumption
<1>2. \A e \in Executors : exec[e].attempt \in 0..ReplayCap
  BY DEF TypeOK, ExecTypes
<1>3. \A j \in DOMAIN runs : runs[j] \in RunRows
  BY DEF TypeOK
<1>4. \A j \in DOMAIN runs : runs[j].attempt \in 0..ReplayCap
  BY <1>3 DEF RunRows
<1>. QED  BY <1>1, <1>2, <1>4

LEMMA SameNumbersFacts ==
    ASSUME NEW rows, SameNumbers(rows)
    PROVE  /\ \A i : ReplayOf(rows, i) = ReplayOf(runs, i)
                     /\ Reached(rows, i) = Reached(runs, i)
           /\ RowsNumbered(runs) => RowsNumbered(rows)
           /\ \A e, x : Numbered(runs, e, x) => Numbered(rows, e, x)
<1>1. \A i : ReplayOf(rows, i) = ReplayOf(runs, i)
  BY DEF SameNumbers, ReplayOf
<1>2. \A i : Reached(rows, i) = Reached(runs, i)
  BY <1>1 DEF Reached
<1>3. RowsNumbered(runs) => RowsNumbered(rows)
  BY <1>2 DEF RowsNumbered, SameNumbers
<1>4. ASSUME NEW e, NEW x, Numbered(runs, e, x) PROVE Numbered(rows, e, x)
  <2>1. \A j \in ReplayOf(runs, x.source) :
          rows[j].by = runs[j].by /\ rows[j].attempt = runs[j].attempt
    BY DEF SameNumbers, ReplayOf
  <2>. QED  BY <1>1, <1>2, <1>4, <2>1 DEF Numbered
<1>. QED  BY <1>1, <1>2, <1>3, <1>4

\* A step of one executor that creates no row.
LEMMA ReplayKept ==
    ASSUME TypeOK, ReplayInv, SameNumbers(runs'), NEW e \in Executors, Moved(e),
           Numbered(runs, e, exec'[e])
    PROVE  ReplayInv'
<1>1. \A d \in Executors : Numbered(runs, d, exec'[d])
  BY DEF Moved, ReplayInv
<1>2. RowsNumbered(runs') /\ \A d \in Executors : Numbered(runs', d, exec'[d])
  BY <1>1, SameNumbersFacts DEF ReplayInv
<1>3. RowsNumbered(runs)' /\ \A d \in Executors : Numbered(runs, d, exec[d])'
  BY <1>2
<1>. QED  BY <1>3 DEF ReplayInv

\* A replay is created, or a run that is none.
LEMMA ReplayCreated ==
    ASSUME TypeOK, ReplayInv, NEW e \in Executors, Moved(e), exec[e].pc = "create",
           runs' = Append(runs, NewRun(e)), exec'[e].pc = "fetch"
    PROVE  ReplayInv'
<1>. DEFINE n == Len(runs) + 1
            s == exec[e].source
<1>1. /\ n \in Nat /\ DOMAIN runs = 1..Len(runs) /\ DOMAIN runs' = DOMAIN runs \cup {n}
      /\ n \notin DOMAIN runs
      /\ \A j \in DOMAIN runs : runs'[j] = runs[j]
      /\ runs'[n] = NewRun(e)
  BY DEF TypeOK
<1>2. runs'[n].source = s /\ runs'[n].attempt = exec[e].attempt /\ runs'[n].by = e
  BY <1>1 DEF NewRun
<1>. HIDE DEF n
<1>3. \A i : ReplayOf(runs', i) = IF i = s THEN ReplayOf(runs, i) \cup {n}
                                  ELSE ReplayOf(runs, i)
  BY <1>1, <1>2 DEF ReplayOf
<1>4. \A i : IsFiniteSet(ReplayOf(runs, i)) /\ Reached(runs, i) \in Nat
            /\ n \notin ReplayOf(runs, i)
  <2>. SUFFICES ASSUME NEW i
                PROVE  /\ IsFiniteSet(ReplayOf(runs, i)) /\ Reached(runs, i) \in Nat
                       /\ n \notin ReplayOf(runs, i)
    OBVIOUS
  <2>1. IsFiniteSet(ReplayOf(runs, i))
    BY ReplaysType DEF ReplayOf
  <2>2. Reached(runs, i) \in Nat
    BY <2>1, FS_CardinalityType DEF Reached
  <2>. QED  BY <1>1, <2>1, <2>2 DEF ReplayOf
<1>5. Reached(runs', s) = Reached(runs, s) + 1
  BY <1>3, <1>4, FS_AddElement DEF Reached
<1>6. \A i : i # s => Reached(runs', i) = Reached(runs, i)
  BY <1>3 DEF Reached
<1>7. \A i : Reached(runs', i) \in Nat /\ Reached(runs, i) <= Reached(runs', i)
  BY <1>4, <1>5, <1>6
<1>8. /\ exec[e].attempt \in Nat /\ \A d \in Executors : exec[d].attempt \in Nat
      /\ \A j \in DOMAIN runs : runs[j].attempt \in Nat
  BY AttemptTypes
<1>9. s # 0 => /\ exec[e].attempt >= 1 /\ exec[e].attempt <= Reached(runs, s) + 1
               /\ \A j \in ReplayOf(runs, s) :
                    runs[j].by = e => runs[j].attempt < exec[e].attempt
  BY DEF ReplayInv, Numbered
<1>. HIDE DEF s
<1>10. \A j \in DOMAIN runs' : runs'[j].source # 0 =>
         runs'[j].attempt >= 1 /\ runs'[j].attempt <= Reached(runs', runs'[j].source)
  <2>1. ASSUME NEW j \in DOMAIN runs, runs[j].source # 0
        PROVE  runs[j].attempt >= 1 /\ runs[j].attempt <= Reached(runs', runs[j].source)
    <3>1. runs[j].attempt >= 1 /\ runs[j].attempt <= Reached(runs, runs[j].source)
      BY <2>1 DEF ReplayInv, RowsNumbered
    <3>2. Reached(runs, runs[j].source) \in Nat /\ Reached(runs', runs[j].source) \in Nat
          /\ Reached(runs, runs[j].source) <= Reached(runs', runs[j].source)
      BY <1>4, <1>7
    <3>. QED  BY <1>8, <3>1, <3>2
  <2>. QED  BY <1>1, <1>2, <1>5, <1>9, <2>1
<1>11. \A i, j \in DOMAIN runs' :
         i # j /\ runs'[i].source # 0 /\ runs'[i].source = runs'[j].source
            /\ runs'[i].attempt = runs'[j].attempt
         => runs'[i].by # runs'[j].by
  <2>1. ASSUME NEW j \in DOMAIN runs, runs[j].source = s, s # 0,
               runs[j].attempt = exec[e].attempt
        PROVE  runs[j].by # e
    <3>1. j \in ReplayOf(runs, s)
      BY <2>1 DEF ReplayOf
    <3>. QED  BY <1>8, <1>9, <2>1, <3>1
  <2>2. \A i, j \in DOMAIN runs :
         i # j /\ runs[i].source # 0 /\ runs[i].source = runs[j].source
            /\ runs[i].attempt = runs[j].attempt
         => runs[i].by # runs[j].by
    BY DEF ReplayInv, RowsNumbered
  <2>. QED  BY <1>1, <1>2, <2>1, <2>2
<1>12. ASSUME NEW d \in Executors PROVE Numbered(runs', d, exec'[d])
  <2>1. CASE d = e
    BY <2>1 DEF Numbered
  <2>2. CASE d # e
    <3>1. exec'[d] = exec[d] /\ Numbered(runs, d, exec[d])
      BY <2>2 DEF Moved, ReplayInv
    <3>2. \A j \in ReplayOf(runs', exec[d].source) :
            runs'[j].by = d => j \in ReplayOf(runs, exec[d].source) /\ runs'[j] = runs[j]
      BY <1>1, <1>2, <1>3, <2>2 DEF ReplayOf
    <3>3. exec[d].attempt <= Reached(runs, exec[d].source) + 1
          => exec[d].attempt <= Reached(runs', exec[d].source) + 1
      BY <1>4, <1>7, <1>8
    <3>. QED  BY <3>1, <3>2, <3>3 DEF Numbered
  <2>. QED  BY <2>1, <2>2
<1>13. RowsNumbered(runs')
  BY <1>10, <1>11 DEF RowsNumbered
<1>14. RowsNumbered(runs)' /\ \A d \in Executors : Numbered(runs, d, exec[d])'
  BY <1>12, <1>13
<1>. QED  BY <1>14 DEF ReplayInv

LEMMA RunStepReplays ==
    ASSUME TypeOK, ReplayInv, NEW e \in Executors,
           RunStep(e) \/ Throw(e) \/ ThrowOutside(e)
    PROVE  ReplayInv'
<1>0. Numbered(runs, e, Idle) /\ Numbered(runs, e, exec[e])
  BY IdleFacts DEF Numbered, ReplayInv
<1>1. runs' = runs => SameNumbers(runs')
  BY DEF SameNumbers
<1>2. ASSUME Moved(e), SameNumbers(runs'),
             exec'[e] = Idle \/ exec'[e].pc \notin {"find", "create"}
      PROVE  ReplayInv'
  <2>1. Numbered(runs, e, exec'[e])
    BY <1>0, <1>2 DEF Numbered
  <2>. QED  BY <1>2, <2>1, ReplayKept
<1>3. \A status : runs' = [runs EXCEPT ![exec[e].run].status = status]
        /\ status \in {"RUNNING", "COMPLETED", "FAILED"} => SameNumbers(runs')
  BY StatusFacts DEF SameNumbers, TypeOK
<1>4. CASE CountReplays(e)
  <2>1. runs' = runs
    BY <1>4 DEF CountReplays
  <2>2. CASE exec'[e] = Idle
    BY <1>1, <1>2, <1>4, <2>1, <2>2, CountReplaysStep
  <2>3. CASE /\ exec'[e].pc = "create" /\ exec'[e].source = exec[e].source
             /\ exec'[e].attempt = Replays(exec[e].source) + 1
    <3>. DEFINE s == exec[e].source
    <3>1. Replays(s) = Reached(runs, s) /\ Replays(s) \in Nat
      BY ReplaysType DEF Replays, Reached, ReplayOf
    <3>2. \A j \in ReplayOf(runs, s) : s # 0 =>
            runs[j].attempt <= Reached(runs, s) /\ runs[j].attempt \in Nat
      BY AttemptTypes DEF ReplayInv, RowsNumbered, ReplayOf
    <3>3. Numbered(runs, e, exec'[e])
      BY <2>3, <3>1, <3>2 DEF Numbered
    <3>. QED  BY <1>1, <1>4, <2>1, <3>3, CountReplaysStep, ReplayKept
  <2>. QED  BY <1>4, <2>2, <2>3, CountReplaysStep
<1>5. CASE FindRun(e)
  <2>1. runs' = runs /\ exec[e].source = 0
    BY <1>0, <1>5 DEF FindRun, Numbered
  <2>2. exec'[e].source = 0
    BY <1>5, <2>1, FindRunStep, IdleFacts DEF SameRun
  <2>3. Numbered(runs, e, exec'[e])
    BY <2>2 DEF Numbered
  <2>. QED  BY <1>1, <1>5, <2>1, <2>3, FindRunStep, ReplayKept
<1>6. CASE RestartRun(e)
  BY <1>2, <1>3, <1>6, RestartRunStep DEF RestartRun
<1>7. CASE CreateRun(e)
  <2>1. exec[e].pc = "create"
    BY <1>7 DEF CreateRun
  <2>2. CASE runs' = Append(runs, NewRun(e)) /\ exec'[e].pc = "fetch"
    BY <1>7, <2>1, <2>2, CreateRunStep, ReplayCreated
  <2>3. CASE runs' = runs /\ Errored(exec[e], exec'[e])
    BY <1>1, <1>2, <1>7, <2>3, CreateRunStep DEF Errored
  <2>. QED  BY <1>7, <2>2, <2>3, CreateRunStep
<1>8. CASE FetchPage(e)
  BY <1>1, <1>2, <1>8, FetchPageStep DEF FetchPage
<1>9. CASE SaveCursor(e)
  <2>1. runs' = runs
    BY <1>9 DEF SaveCursor
  <2>. QED  BY <1>1, <1>2, <1>9, <2>1, SaveCursorStep
<1>10. CASE Complete(e)
  <2>1. runs' = runs
    BY <1>10 DEF Complete
  <2>. QED  BY <1>1, <1>2, <1>10, <2>1, CompleteStep
<1>11. CASE Finish(e)
  BY <1>2, <1>3, <1>11, FinishStep DEF Finish, SetStatus
<1>12. CASE Fail(e)
  BY <1>2, <1>3, <1>12, FailStep DEF Fail, SetStatus, Errored
<1>13. CASE Throw(e)
  BY <1>1, <1>2, <1>13, ThrowStep DEF Throw
<1>14. CASE e = Worker /\ RecordError
  BY <1>1, <1>2, <1>14, RecordErrorStep DEF RecordError
<1>15. CASE ThrowOutside(e)
  BY <1>1, <1>2, <1>15, ThrowOutsideStep DEF ThrowOutside, Errored
<1>. QED  BY <1>4, <1>5, <1>6, <1>7, <1>8, <1>9, <1>10, <1>11, <1>12, <1>13, <1>14,
             <1>15 DEF RunStep

LEMMA ReplayNext == TypeOK /\ CoverInv /\ ReplayInv /\ [Next]_vars => ReplayInv'
<1>. SUFFICES ASSUME TypeOK, CoverInv, ReplayInv, [Next]_vars PROVE ReplayInv'
  OBVIOUS
<1>1. runs' = runs => SameNumbers(runs')
  BY DEF SameNumbers
<1>2. ASSUME NEW e \in Executors,
             \/ e = Worker /\ BeginScheduled
             \/ BeginManual(e)
             \/ \E from \in 0..recorded : BeginBackfill(e, from)
             \/ \E i \in DOMAIN runs : BeginReplay(e, i)
      PROVE  ReplayInv'
  <2>1. Numbered(runs, e, exec'[e])
    BY <1>2, BeginMoves DEF Numbered
  <2>. QED  BY <1>1, <1>2, <2>1, BeginMoves, ReplayKept
<1>3. ASSUME NEW e \in Executors, RunStep(e) \/ Throw(e) \/ ThrowOutside(e)
      PROVE  ReplayInv'
  BY <1>3, RunStepReplays
<1>4. CASE Crash
  <2>1. runs' = runs /\ \A e \in Executors : exec'[e] = Idle
    BY <1>4 DEF Crash
  <2>2. \A e \in Executors : Numbered(runs', e, exec'[e])
    BY <2>1, IdleFacts DEF Numbered
  <2>. QED  BY <2>1, <2>2 DEF ReplayInv
<1>5. ASSUME exec' = exec, SameNumbers(runs') PROVE ReplayInv'
  <2>1. RowsNumbered(runs') /\ \A e \in Executors : Numbered(runs', e, exec'[e])
    BY <1>5, SameNumbersFacts DEF ReplayInv
  <2>2. RowsNumbered(runs)' /\ \A e \in Executors : Numbered(runs, e, exec[e])'
    BY <2>1
  <2>. QED  BY <2>2 DEF ReplayInv
<1>6. CASE DeleteConfig
  BY <1>5, <1>6, DeleteRuns DEF DeleteConfig, SameNumbers
<1>7. CASE (\E r \in 1..recorded : Record(r)) \/ StartCall \/ NextHour \/ CreateConfig
           \/ UNCHANGED vars
  BY <1>1, <1>5, <1>7 DEF Record, StartCall, NextHour, CreateConfig, vars
<1>8. ASSUME NEW b \in BOOLEAN, SetEnabled(b) \/ TestCredentials(b)
      PROVE  ReplayInv'
  BY <1>1, <1>5, <1>8 DEF SetEnabled, TestCredentials
<1>. QED  BY <1>2, <1>3, <1>4, <1>6, <1>7, <1>8 DEF Next, Executors

(***************************************************************************)
(* replayFailedRun counts before it creates, and still two replays of a    *)
(* run share an attempt number only when different requests overlapped.    *)
(***************************************************************************)
THEOREM ReplaysAreNumbered == Spec => []ReplaysNumbered
<1>1. Init => ReplayInv
  BY IdleFacts DEF Init, ReplayInv, RowsNumbered, Numbered
<1>2. ReplayInv => ReplaysNumbered
  BY DEF ReplayInv, RowsNumbered, ReplaysNumbered
<1>. QED  BY <1>1, <1>2, ReplayNext, SyncInit, SyncNext, PTL DEF Spec

(***************************************************************************)
(* The ledger of runs is true, both ways: the rows of syncIntegration and  *)
(* replayFailedRun together.                                               *)
(***************************************************************************)
THEOREM LedgerHolds == Spec => []LedgerIsTrue
<1>1. ReplaysNumbered /\ RunningIsExecuted => LedgerIsTrue
  BY DEF LedgerIsTrue
<1>. QED  BY <1>1, RunningRowsAreExecuted, ReplaysAreNumbered, PTL
=============================================================================
