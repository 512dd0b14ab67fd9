------------------------- MODULE LandingPageProofs -------------------------
(***************************************************************************)
(* LandingPage for every number of pages, requests and texts: type         *)
(* correctness, and what a public page may show and which versions are     *)
(* ACTIVE however publishes, rollbacks and deletes interleave.             *)
(***************************************************************************)
EXTENDS LandingPage, SequenceTheorems, TLAPS

-----------------------------------------------------------------------------
(* The inductive invariant *)

\* A step that stores op[o].body into a row is still to come.
HoldsBody(o) ==
    \/ op[o].pc \in {"lock", "commit"}
    \/ op[o].pc = "version" /\ op[o].kind = "rollback"
    \/ op[o].pc = "write" /\ Publishing(o)

\* The page has been written by o as published, or has a version.
Shown(o) ==
    \/ op[o].pc \in {"version", "lock", "commit"}
    \/ op[o].pc \in {"syncRead", "syncWrite"} /\ Publishing(o)

OpInv(o) ==
    /\ HoldsBody(o) => op[o].body # 0
    /\ (Shown(o) /\ Exists(op[o].page)) => page[op[o].page].scrubbed # 0

\* Rows o created that are ACTIVE on page p.
OwnRows(o, p) == {i \in ActiveRows(p) : versions[p][i].by = o}

\* A version transaction of o has selected, or locked, its own earlier rows.
RowInv(o) ==
    /\ op[o].pc = "lock" => OwnRows(o, op[o].page) \subseteq op[o].snap
    /\ op[o].pc = "commit" => OwnRows(o, op[o].page) \subseteq op[o].locked

PageInv(p) ==
    (page[p].status = "PUBLISHED" \/ versions[p] # <<>>) => page[p].scrubbed # 0

IInv ==
    /\ TypeOK
    /\ \A o \in Procs : OpInv(o)
    /\ \A p \in Pages : PageInv(p)

RInv ==
    /\ \A o \in Procs : RowInv(o)
    /\ ActiveTogetherOverlapped
    /\ NewestVersionActive

\* o has published page p and has not recorded its version yet.
Recording(o, p) ==
    /\ op[o].page = p /\ Publishing(o)
    /\ op[o].pc \in {"syncRead", "syncWrite", "version", "lock", "commit"}

\* A published page without a version is being recorded by some publish, or a
\* publish of it has failed.
HInv ==
    \A p \in Pages :
        (page[p].status = "PUBLISHED" /\ versions[p] = <<>>)
            => p \in broken \/ \E o \in Procs : Recording(o, p)

-----------------------------------------------------------------------------
(* Helpers *)

\* The idle record is typed.
LEMMA IdleTyped ==
    /\ IdleOp \in OpTypes
    /\ IdleOp.pc = "idle" /\ IdleOp.kind = "direct"
  <1>1. SomePage \in Pages
    BY PageAssumption DEF SomePage
  <1>2. 0 \in Texts /\ 0 \in Nat
    BY PageAssumption DEF Texts
  <1> QED
    BY <1>1, <1>2 DEF IdleOp, OpTypes, AllKinds

\* Become changes one record.
LEMMA BecomeOne ==
    ASSUME op \in [Procs -> OpTypes], NEW o \in Procs, NEW r \in OpTypes,
           Become(o, r)
    PROVE  /\ op' \in [Procs -> OpTypes]
           /\ op'[o] = r
           /\ \A q \in Procs : q # o => op'[q] = op[q]
  BY DEF Become

\* Goto changes the label, or ends the request.
LEMMA GotoOne ==
    ASSUME op \in [Procs -> OpTypes], NEW o \in Procs,
           NEW l \in {"idle", "read", "status", "write", "syncRead", "syncWrite",
                      "version", "lock", "commit", "clear", "add", "delete",
                      "cascade"},
           Goto(o, l)
    PROVE  /\ op' \in [Procs -> OpTypes]
           /\ op'[o].pc = l
           /\ l # "idle" => op'[o] = [op[o] EXCEPT !.pc = l]
           /\ l = "idle" => op'[o] = IdleOp
           /\ \A q \in Procs : q # o => op'[q] = op[q]
  <1> DEFINE r == IF l = "idle" THEN IdleOp ELSE [op[o] EXCEPT !.pc = l]
  <1>1. op[o] \in OpTypes
    OBVIOUS
  <1>2. [op[o] EXCEPT !.pc = l] \in OpTypes
    BY <1>1 DEF OpTypes
  <1>3. r \in OpTypes /\ r.pc = l
    BY <1>1, <1>2, IdleTyped DEF OpTypes
  <1>4. Become(o, r)
    BY DEF Goto
  <1> HIDE DEF r
  <1>5. /\ op' \in [Procs -> OpTypes] /\ op'[o] = r
        /\ \A q \in Procs : q # o => op'[q] = op[q]
    BY <1>3, <1>4, BecomeOne
  <1> QED
    BY <1>3, <1>5 DEF r

\* The rows of a page with some of them marked are still its rows.
LEMMA MarkedTyped ==
    ASSUME versions \in [Pages -> Seq(VersionTypes)], NEW p \in Pages, NEW S,
           NEW st \in {"SUPERSEDED", "ROLLED_BACK"}
    PROVE  /\ Marked(p, S, st) \in Seq(VersionTypes)
           /\ Len(Marked(p, S, st)) = Len(versions[p])
  <1>1. versions[p] \in Seq(VersionTypes) /\ Len(versions[p]) \in Nat
    OBVIOUS
  <1>2. \A i \in 1..Len(versions[p]) : versions[p][i] \in VersionTypes
    BY <1>1
  <1>3. \A i \in 1..Len(versions[p]) :
          [versions[p][i] EXCEPT !.status = st] \in VersionTypes
    BY <1>2 DEF VersionTypes
  <1>4. Marked(p, S, st) \in [1..Len(versions[p]) -> VersionTypes]
    BY <1>2, <1>3 DEF Marked
  <1> QED
    BY <1>1, <1>4 DEF Marked

\* What the commit of a version transaction does to the version rows.
Committed(o, p) ==
    /\ versions' \in [Pages -> Seq(VersionTypes)]
    /\ \A q \in Pages : q # p => versions'[q] = versions[q]
    /\ versions'[p] # <<>>
    /\ Len(versions'[p]) = Len(versions[p]) + 1
    /\ versions'[p][Len(versions'[p])] = NewVersion(o)
    /\ \A i \in 1..Len(versions[p]) :
         /\ versions'[p][i].by = versions[p][i].by
         /\ versions'[p][i].status =
              IF i \in op[o].locked THEN Replaced(o) ELSE versions[p][i].status

\* A commit appends its version to the rows, those it locked replaced.
LEMMA CommitRows ==
    ASSUME TypeOK, NEW o \in Procs, NEW p \in Pages, p = op[o].page,
           op[o].body # 0,
           versions' = [versions EXCEPT ![p] =
                          Append(Marked(p, op[o].locked, Replaced(o)), NewVersion(o))]
    PROVE  Committed(o, p)
  <1> DEFINE m == Marked(p, op[o].locked, Replaced(o))
             n == NewVersion(o)
  <1>1. versions \in [Pages -> Seq(VersionTypes)] /\ op[o] \in OpTypes
    BY DEF TypeOK
  <1>2. Replaced(o) \in {"SUPERSEDED", "ROLLED_BACK"}
    BY DEF Replaced
  <1>3. /\ m \in Seq(VersionTypes) /\ Len(m) = Len(versions[p])
        /\ \A i \in 1..Len(versions[p]) :
             m[i] = IF i \in op[o].locked
                      THEN [versions[p][i] EXCEPT !.status = Replaced(o)]
                      ELSE versions[p][i]
    <2>1. m \in Seq(VersionTypes) /\ Len(m) = Len(versions[p])
      BY <1>1, <1>2, MarkedTyped
    <2>2. \A i \in 1..Len(versions[p]) :
             m[i] = IF i \in op[o].locked
                      THEN [versions[p][i] EXCEPT !.status = Replaced(o)]
                      ELSE versions[p][i]
      BY DEF Marked
    <2> QED
      BY <2>1, <2>2
  <1>4. n \in VersionTypes
    <2>1. op[o].body \in 0..MaxText /\ op[o].body # 0 /\ MaxText \in Nat
      BY <1>1, PageAssumption DEF OpTypes, Texts
    <2>2. op[o].body \in 1..MaxText
      BY <2>1
    <2> QED
      BY <1>1, <2>2 DEF NewVersion, VersionTypes, OpTypes
  <1>5. \A i \in 1..Len(versions[p]) : versions[p][i] \in VersionTypes
    BY <1>1
  <1> HIDE DEF m, n
  <1>6. versions' = [versions EXCEPT ![p] = Append(m, n)]
    BY DEF m, n
  <1>7. /\ Append(m, n) \in Seq(VersionTypes)
        /\ Len(Append(m, n)) = Len(m) + 1
        /\ Append(m, n)[Len(m) + 1] = n
        /\ \A i \in 1..Len(m) : Append(m, n)[i] = m[i]
    BY <1>3, <1>4, AppendProperties
  <1>8. versions'[p] = Append(m, n) /\ \A q \in Pages : q # p => versions'[q] = versions[q]
    BY <1>1, <1>6
  <1>9. versions' \in [Pages -> Seq(VersionTypes)]
    BY <1>1, <1>6, <1>7
  <1>10. \A i \in 1..Len(versions[p]) :
           /\ m[i].by = versions[p][i].by
           /\ m[i].status = IF i \in op[o].locked THEN Replaced(o) ELSE versions[p][i].status
    BY <1>3, <1>5 DEF VersionTypes
  <1>11. versions'[p] # <<>>
    BY <1>3, <1>7, <1>8
  <1> QED
    BY <1>3, <1>7, <1>8, <1>9, <1>10, <1>11 DEF n, Committed

\* A step that changes only what one process is doing, jobs and the like.
LEMMA OpOnlyKeeps ==
    ASSUME IInv, NEW o \in Procs, UNCHANGED <<page, versions>>,
           \A q \in Procs : q # o => op'[q] = op[q],
           OpInv(o)'
    PROVE  (\A q \in Procs : OpInv(q)') /\ (\A p \in Pages : PageInv(p)')
  <1>1. \A q \in Procs : q # o => OpInv(q)'
    BY DEF IInv, OpInv, HoldsBody, Shown, Publishing, Exists
  <1>2. \A p \in Pages : PageInv(p)'
    BY DEF IInv, PageInv
  <1> QED
    BY <1>1, <1>2

\* An idle process satisfies its invariant.
LEMMA IdleOpInv ==
    ASSUME NEW o \in Procs, op'[o] = IdleOp
    PROVE  OpInv(o)'
  BY IdleTyped DEF OpInv, HoldsBody, Shown, Publishing

-----------------------------------------------------------------------------
(* IInv is inductive *)

\* Every beginning of a request.
LEMMA BeginKeeps ==
    ASSUME IInv, NEW o \in Requests, NEW p \in Pages
    PROVE  /\ \A kind \in {"direct", "chain", "queue"} : BeginPublish(o, p, kind) => IInv'
           /\ \A kind \in {"archive", "unpublish", "delete", "schedule", "cancel"} :
                BeginOther(o, p, kind) => IInv'
           /\ \A v \in 1..Len(versions[p]) : BeginRollback(o, p, v) => IInv'
  <1> USE DEF Procs
  <1>0. TypeOK /\ op \in [Procs -> OpTypes] /\ o \in Procs
    BY DEF IInv, TypeOK
  <1>1. ASSUME NEW kind \in AllKinds, NEW l \in {"read", "write", "clear"},
               Begin(o, kind, l, p),
               UNCHANGED <<page, versions, story, job, policy, broken>>,
               l = "write" => kind \in {"archive", "unpublish"}
        PROVE  IInv'
    <2> DEFINE r == [IdleOp EXCEPT !.kind = kind, !.pc = l, !.page = p]
    <2>1. r \in OpTypes /\ r.pc = l /\ r.kind = kind
      BY IdleTyped DEF OpTypes
    <2>2. Become(o, r) /\ begun' \in 0..MaxBegun
      BY <1>0, <1>1, PageAssumption DEF Begin, TypeOK
    <2> HIDE DEF r
    <2>3. /\ op' \in [Procs -> OpTypes] /\ op'[o] = r
          /\ \A q \in Procs : q # o => op'[q] = op[q]
      BY <1>0, <2>1, <2>2, BecomeOne
    <2>4. TypeOK'
      BY <1>0, <1>1, <2>2, <2>3 DEF TypeOK
    <2>5. OpInv(o)'
      BY <1>1, <2>1, <2>3 DEF OpInv, HoldsBody, Shown, Publishing
    <2> QED
      BY <1>0, <1>1, <2>3, <2>4, <2>5, OpOnlyKeeps DEF IInv
  <1>2. ASSUME NEW kind \in {"direct", "chain", "queue"}, BeginPublish(o, p, kind)
        PROVE  IInv'
    BY <1>1, <1>2 DEF BeginPublish, AllKinds
  <1>3. ASSUME NEW kind \in {"archive", "unpublish", "delete", "schedule", "cancel"},
               BeginOther(o, p, kind)
        PROVE  IInv'
    <2> DEFINE l == IF kind \in {"archive", "unpublish"} THEN "write" ELSE "clear"
    <2>1. Begin(o, kind, l, p) /\ UNCHANGED <<page, versions, story, job, policy, broken>>
      BY <1>3 DEF BeginOther
    <2>2. /\ l \in {"read", "write", "clear"} /\ kind \in AllKinds
          /\ l = "write" => kind \in {"archive", "unpublish"}
      BY DEF AllKinds
    <2> HIDE DEF l
    <2> QED
      BY <1>1, <2>1, <2>2
  <1>4. ASSUME NEW v \in 1..Len(versions[p]), BeginRollback(o, p, v)
        PROVE  IInv'
    <2> DEFINE r == [IdleOp EXCEPT !.kind = "rollback", !.pc = "version", !.page = p,
                                   !.body = versions[p][v].body,
                                   !.sub = versions[p][v].sub, !.from = v]
    <2>1. versions[p] \in Seq(VersionTypes)
      BY <1>0 DEF TypeOK
    <2>2. versions[p][v] \in VersionTypes /\ v \in Nat /\ versions[p] # <<>>
      BY <2>1
    <2>3. /\ versions[p][v].body \in 1..MaxText /\ versions[p][v].body \in Texts
          /\ versions[p][v].body # 0 /\ versions[p][v].sub \in Texts
      BY <2>2, PageAssumption DEF VersionTypes, Texts
    <2>4. /\ r \in OpTypes /\ r.pc = "version" /\ r.kind = "rollback" /\ r.page = p
          /\ r.body # 0
      BY <2>2, <2>3, IdleTyped DEF OpTypes, AllKinds
    <2>5. /\ Become(o, r) /\ begun' \in 0..MaxBegun
          /\ UNCHANGED <<page, versions, story, job, policy, broken>>
      BY <1>0, <1>4, PageAssumption DEF BeginRollback, TypeOK
    <2> HIDE DEF r
    <2>6. /\ op' \in [Procs -> OpTypes] /\ op'[o] = r
          /\ \A q \in Procs : q # o => op'[q] = op[q]
      BY <1>0, <2>4, <2>5, BecomeOne
    <2>7. TypeOK'
      BY <1>0, <2>5, <2>6 DEF TypeOK
    <2>8. page'[p].scrubbed # 0
      BY <2>2, <2>5 DEF IInv, PageInv
    <2>9. OpInv(o)'
      BY <2>4, <2>6, <2>8 DEF OpInv, HoldsBody, Shown
    <2> QED
      BY <1>0, <2>5, <2>6, <2>7, <2>9, OpOnlyKeeps DEF IInv
  <1> QED
    BY <1>2, <1>3, <1>4

\* An edit leaves status and scrubbed texts alone.
LEMMA EditKeeps ==
    ASSUME IInv, NEW p \in Pages, NEW b \in 1..MaxText, NEW s \in Texts,
           EditPage(p, b, s)
    PROVE  IInv'
  <1> DEFINE r == [page[p] EXCEPT !.body = b, !.sub = s]
  <1>1. page[p] \in PageTypes
    BY DEF IInv, TypeOK
  <1>2. r \in PageTypes /\ r.status = page[p].status /\ r.scrubbed = page[p].scrubbed
    BY <1>1 DEF PageTypes
  <1>3. page' = [page EXCEPT ![p] = r] /\ begun' \in 0..MaxBegun
    BY PageAssumption DEF EditPage, IInv, TypeOK
  <1> HIDE DEF r
  <1>4. /\ page' \in [Pages -> PageTypes]
        /\ \A q \in Pages : /\ page'[q].status = page[q].status
                            /\ page'[q].scrubbed = page[q].scrubbed
    BY <1>2, <1>3 DEF IInv, TypeOK
  <1>5. UNCHANGED <<versions, story, job, policy, op, broken>>
    BY DEF EditPage
  <1>6. TypeOK'
    BY <1>3, <1>4, <1>5 DEF IInv, TypeOK
  <1>7. \A p1 \in Pages : PageInv(p1)'
    BY <1>4, <1>5 DEF IInv, PageInv
  <1>8. \A o \in Procs : op[o].page \in Pages
    BY DEF IInv, TypeOK, OpTypes
  <1>9. \A o \in Procs : OpInv(o)'
    BY <1>4, <1>5, <1>8 DEF IInv, OpInv, HoldsBody, Shown, Publishing, Exists
  <1> QED
    BY <1>6, <1>7, <1>9 DEF IInv

\* The steps that read, or that only move the request and the job on.
LEMMA MoveKeeps ==
    ASSUME IInv, NEW o \in Procs,
           \/ ReadPage(o) \/ SyncRead(o) \/ SyncWrite(o) \/ SyncError(o)
           \/ SelectRows(o) \/ LockRows(o) \/ ClearScheduled(o) \/ AddScheduled(o)
           \/ LockPage(o) \/ FailOp(o) \/ (o = Scheduler /\ CheckScheduled)
    PROVE  IInv'
  <1> DEFINE p == op[o].page
  <1>1. /\ TypeOK /\ op \in [Procs -> OpTypes] /\ op[o] \in OpTypes /\ p \in Pages
        /\ page[p] \in PageTypes /\ OpInv(o)
    BY DEF IInv, TypeOK, OpTypes
  <1>2. /\ [state |-> "none", tries |-> 0] \in JobTypes
        /\ [state |-> "delayed", tries |-> 0] \in JobTypes
        /\ [state |-> "delayed", tries |-> 1] \in JobTypes
    BY DEF JobTypes
  <1>3. UNCHANGED <<page, versions, policy, begun>>
    BY DEF ReadPage, SyncRead, SyncWrite, SyncError, SelectRows, LockRows,
           ClearScheduled, AddScheduled, LockPage, FailOp, CheckScheduled
  <1>4. /\ page[p].body \in Texts /\ page[p].body # 0 /\ page[p].sub \in Texts
    BY <1>1, PageAssumption DEF PageTypes, Texts
  <1>5. SUFFICES /\ op' \in [Procs -> OpTypes]
                 /\ \A q \in Procs : q # o => op'[q] = op[q]
                 /\ story' \in BOOLEAN /\ job' \in [Pages -> JobTypes]
                 /\ broken' \subseteq Pages
                 /\ OpInv(o)'
    BY <1>1, <1>3, OpOnlyKeeps DEF IInv, TypeOK
  <1>6. CASE ReadPage(o)
    <2> DEFINE r == [op[o] EXCEPT !.pc = "write", !.body = page[p].body, !.sub = page[p].sub]
    <2>1. r \in OpTypes /\ r.pc = "write" /\ r.body # 0
      BY <1>1, <1>4 DEF OpTypes
    <2>2. Become(o, r) /\ UNCHANGED <<story, job, broken>>
      BY <1>6 DEF ReadPage
    <2> HIDE DEF r
    <2>3. /\ op' \in [Procs -> OpTypes] /\ op'[o] = r
          /\ \A q \in Procs : q # o => op'[q] = op[q]
      BY <1>1, <2>1, <2>2, BecomeOne
    <2>4. OpInv(o)'
      BY <2>1, <2>3 DEF OpInv, Shown
    <2> QED
      BY <1>1, <2>2, <2>3, <2>4 DEF TypeOK
  <1>7. CASE SyncRead(o)
    <2> DEFINE b == \E p1 \in Pages : page[p1].status = "PUBLISHED"
               r == [op[o] EXCEPT !.pc = "syncWrite", !.shown = b]
    <2>1. b \in BOOLEAN
      OBVIOUS
    <2> HIDE DEF b
    <2>2. /\ r \in OpTypes /\ r.pc = "syncWrite" /\ r.kind = op[o].kind
          /\ r.page = p
      BY <1>1, <2>1 DEF OpTypes
    <2>3. Become(o, r) /\ op[o].pc = "syncRead" /\ UNCHANGED <<story, job, broken>>
      BY <1>7 DEF SyncRead, b
    <2> HIDE DEF r
    <2>4. /\ op' \in [Procs -> OpTypes] /\ op'[o] = r
          /\ \A q \in Procs : q # o => op'[q] = op[q]
      BY <1>1, <2>2, <2>3, BecomeOne
    <2>5. OpInv(o)'
      BY <1>1, <1>3, <2>2, <2>3, <2>4 DEF OpInv, Shown, HoldsBody, Publishing, Exists
    <2> QED
      BY <1>1, <2>3, <2>4, <2>5 DEF TypeOK
  <1>8. ASSUME op[o].pc \in {"syncRead", "syncWrite"}, Goto(o, AfterSync(o))
        PROVE  /\ op' \in [Procs -> OpTypes]
               /\ \A q \in Procs : q # o => op'[q] = op[q]
               /\ OpInv(o)'
    <2>1. /\ AfterSync(o) \in {"version", "idle", "clear"}
          /\ AfterSync(o) = "version" => Publishing(o)
      BY <1>1 DEF AfterSync, Publishing
    <2>2. /\ op' \in [Procs -> OpTypes]
          /\ \A q \in Procs : q # o => op'[q] = op[q]
          /\ op'[o].pc = AfterSync(o)
          /\ AfterSync(o) # "idle" => op'[o] = [op[o] EXCEPT !.pc = AfterSync(o)]
      BY <1>1, <1>8, <2>1, GotoOne
    <2>3. AfterSync(o) # "idle" => op'[o].kind = op[o].kind /\ op'[o].page = p
      BY <1>1, <2>2 DEF OpTypes
    <2>4. AfterSync(o) = "version" => Shown(o) /\ op'[o].kind # "rollback"
      BY <1>8, <2>1, <2>3 DEF Shown, Publishing
    <2>5. OpInv(o)'
      BY <1>1, <1>3, <2>1, <2>2, <2>3, <2>4 DEF OpInv, Shown, HoldsBody, Exists
    <2> QED
      BY <2>2, <2>5
  <1>9. CASE SyncWrite(o)
    BY <1>1, <1>8, <1>9 DEF SyncWrite, TypeOK, OpTypes
  <1>10. CASE SyncError(o)
    BY <1>1, <1>8, <1>10 DEF SyncError, TypeOK
  <1>11. CASE SelectRows(o)
    <2> DEFINE r == IF op[o].kind = "rollback"
                      THEN [op[o] EXCEPT !.pc = "lock", !.snap = ActiveRows(p)]
                      ELSE [op[o] EXCEPT !.pc = "lock", !.snap = ActiveRows(p),
                                         !.body = page[p].body, !.sub = page[p].sub]
    <2>1. ActiveRows(p) \in SUBSET (Nat \ {0})
      <3>1. versions[p] \in Seq(VersionTypes)
        BY <1>1 DEF TypeOK
      <3> QED
        BY <3>1 DEF ActiveRows
    <2>2. op[o].pc = "version" /\ Become(o, r) /\ UNCHANGED <<story, job, broken>>
      BY <1>11 DEF SelectRows
    <2>3. op[o].kind = "rollback" => op[o].body # 0
      BY <1>1, <2>2 DEF OpInv, HoldsBody
    <2>4. r \in OpTypes /\ r.pc = "lock" /\ r.body # 0 /\ r.page = p
      BY <1>1, <1>4, <2>1, <2>3 DEF OpTypes
    <2> HIDE DEF r
    <2>5. /\ op' \in [Procs -> OpTypes] /\ op'[o] = r
          /\ \A q \in Procs : q # o => op'[q] = op[q]
      BY <1>1, <2>2, <2>4, BecomeOne
    <2>6. OpInv(o)'
      BY <1>1, <1>3, <2>2, <2>4, <2>5 DEF OpInv, Shown, HoldsBody, Exists
    <2> QED
      BY <1>1, <2>2, <2>5, <2>6 DEF TypeOK
  <1>12. CASE LockRows(o)
    <2> DEFINE rows == op[o].snap \cap ActiveRows(p)
               r == [op[o] EXCEPT !.pc = "commit", !.snap = {}, !.locked = rows]
    <2>1. rows \in SUBSET (Nat \ {0}) /\ {} \in SUBSET (Nat \ {0})
      BY <1>1 DEF OpTypes
    <2>2. op[o].pc = "lock" /\ Become(o, r) /\ UNCHANGED <<story, job, broken>>
      BY <1>12 DEF LockRows
    <2> HIDE DEF rows
    <2>3. /\ r \in OpTypes /\ r.pc = "commit" /\ r.body = op[o].body /\ r.page = p
          /\ r.kind = op[o].kind
      BY <1>1, <2>1 DEF OpTypes
    <2> HIDE DEF r
    <2>4. /\ op' \in [Procs -> OpTypes] /\ op'[o] = r
          /\ \A q \in Procs : q # o => op'[q] = op[q]
      BY <1>1, <2>2, <2>3, BecomeOne
    <2>5. OpInv(o)'
      BY <1>1, <1>3, <2>2, <2>3, <2>4 DEF OpInv, Shown, HoldsBody, Exists, Publishing
    <2> QED
      BY <1>1, <2>2, <2>4, <2>5 DEF TypeOK
  <1>13. ASSUME NEW l \in {"idle", "delete", "add", "read", "cascade"}, Goto(o, l)
        PROVE  /\ op' \in [Procs -> OpTypes]
               /\ \A q \in Procs : q # o => op'[q] = op[q]
               /\ OpInv(o)'
    <2>1. /\ op' \in [Procs -> OpTypes] /\ op'[o].pc = l
          /\ \A q \in Procs : q # o => op'[q] = op[q]
      BY <1>1, <1>13, GotoOne
    <2> QED
      BY <2>1 DEF OpInv, Shown, HoldsBody
  <1>14. CASE ClearScheduled(o)
    <2> DEFINE l == CASE op[o].kind = "delete" -> "delete"
                      [] op[o].kind = "schedule" -> "add"
                      [] OTHER -> "idle"
    <2>1. l \in {"idle", "delete", "add", "read"}
      OBVIOUS
    <2>2. Goto(o, l) /\ UNCHANGED <<story, broken>> /\ job' \in [Pages -> JobTypes]
      BY <1>1, <1>2, <1>14 DEF ClearScheduled, TypeOK
    <2> HIDE DEF l
    <2> QED
      BY <1>1, <1>13, <2>1, <2>2 DEF TypeOK
  <1>15. CASE AddScheduled(o) \/ LockPage(o)
    BY <1>1, <1>2, <1>13, <1>15 DEF AddScheduled, LockPage, TypeOK
  <1>16. CASE FailOp(o)
    <2>1. Goto(o, "idle") /\ UNCHANGED story
      BY <1>16 DEF FailOp
    <2>2. job' \in [Pages -> JobTypes]
      BY <1>1, <1>2, <1>16 DEF FailOp, TypeOK
    <2>3. broken' \subseteq Pages
      BY <1>1, <1>16 DEF FailOp, TypeOK
    <2> QED
      BY <1>1, <1>13, <2>1, <2>2, <2>3 DEF TypeOK
  <1>17. CASE o = Scheduler /\ CheckScheduled
    <2> DEFINE skip == page[p].status \in {"PUBLISHED", "DELETED"}
               l == IF skip THEN "idle" ELSE "read"
    <2>1. Goto(o, l) /\ UNCHANGED <<story, broken>>
      BY <1>17 DEF CheckScheduled
    <2>2. job' \in [Pages -> JobTypes]
      BY <1>1, <1>2, <1>17 DEF CheckScheduled, TypeOK
    <2> QED
      BY <1>1, <1>13, <2>1, <2>2 DEF TypeOK
  <1> QED
    BY <1>6, <1>7, <1>9, <1>10, <1>11, <1>12, <1>14, <1>15, <1>16, <1>17

\* A page that changes keeps the invariant of every process when its scrubbed
\* texts stay or it is deleted, and the one that changes it is told apart.
LEMMA PageStep ==
    ASSUME IInv, NEW o \in Procs, NEW p \in Pages, p = op[o].page,
           \A q \in Procs : q # o => op'[q] = op[q],
           page' \in [Pages -> PageTypes],
           \A q \in Pages : q # p => page'[q] = page[q] /\ versions'[q] = versions[q],
           \/ page'[p].status = "DELETED" /\ versions'[p] = <<>>
           \/ page'[p].scrubbed # 0 /\ Exists(p)
           \/ /\ page'[p].scrubbed = page[p].scrubbed /\ Exists(p)
              /\ page'[p].status # "PUBLISHED" /\ versions'[p] = versions[p],
           OpInv(o)'
    PROVE  (\A q \in Procs : OpInv(q)') /\ (\A q \in Pages : PageInv(q)')
  <1>1. \A q \in Procs : op[q].page \in Pages
    BY DEF IInv, TypeOK, OpTypes
  <1>2. ASSUME NEW q \in Procs, q # o
        PROVE  OpInv(q)'
    <2>1. op'[q] = op[q] /\ OpInv(q) /\ op[q].page \in Pages
      BY <1>1, <1>2 DEF IInv
    <2>2. CASE op[q].page # p
      BY <2>1, <2>2 DEF OpInv, HoldsBody, Shown, Publishing, Exists
    <2>3. CASE op[q].page = p
      BY <2>1, <2>3 DEF OpInv, HoldsBody, Shown, Publishing, Exists
    <2> QED
      BY <2>2, <2>3
  <1>3. ASSUME NEW q \in Pages
        PROVE  PageInv(q)'
    BY <1>3 DEF IInv, PageInv, Exists
  <1> QED
    BY <1>2, <1>3

\* The steps that write a page or its versions.
LEMMA WriteKeeps ==
    ASSUME IInv, NEW o \in Procs,
           \/ WritePublished(o) \/ WriteHidden(o) \/ CommitVersion(o)
           \/ CommitRollback(o) \/ DeletePage(o)
    PROVE  IInv'
  <1> DEFINE p == op[o].page
  <1>1. /\ TypeOK /\ op \in [Procs -> OpTypes] /\ op[o] \in OpTypes /\ p \in Pages
        /\ page \in [Pages -> PageTypes] /\ page[p] \in PageTypes /\ OpInv(o)
        /\ versions \in [Pages -> Seq(VersionTypes)]
    BY DEF IInv, TypeOK, OpTypes
  <1>2. [state |-> "none", tries |-> 0] \in JobTypes
    BY DEF JobTypes
  <1>3. /\ op[o].body \in Texts /\ op[o].sub \in Texts
        /\ op[o].body # 0 => op[o].body \in 1..MaxText
    BY <1>1, PageAssumption DEF OpTypes, Texts
  <1>4. /\ Exists(p) /\ UNCHANGED <<story, policy, begun, broken>>
        /\ job' \in [Pages -> JobTypes]
    BY <1>1, <1>2 DEF WritePublished, WriteHidden, CommitVersion, CommitRollback,
                      DeletePage, TypeOK
  <1>5. ASSUME NEW l \in {"idle", "clear", "syncRead"}, Goto(o, l),
               l = "syncRead" => (Publishing(o) => page'[p].scrubbed # 0)
        PROVE  /\ op' \in [Procs -> OpTypes]
               /\ \A q \in Procs : q # o => op'[q] = op[q]
               /\ OpInv(o)'
    <2>1. /\ op' \in [Procs -> OpTypes] /\ op'[o].pc = l
          /\ l # "idle" => op'[o] = [op[o] EXCEPT !.pc = l]
          /\ \A q \in Procs : q # o => op'[q] = op[q]
      BY <1>1, <1>5, GotoOne
    <2>2. l # "idle" => op'[o].kind = op[o].kind /\ op'[o].page = p
      BY <1>1, <2>1 DEF OpTypes
    <2>3. OpInv(o)'
      BY <1>5, <2>1, <2>2 DEF OpInv, Shown, HoldsBody, Publishing
    <2> QED
      BY <2>1, <2>3
  <1>6. CASE WritePublished(o)
    <2> DEFINE r == [page[p] EXCEPT !.status = "PUBLISHED", !.scrubbed = op[o].body,
                                    !.scrubbedSub = op[o].sub]
    <2>1. op[o].pc = "write" /\ Publishing(o) /\ Goto(o, "syncRead")
          /\ page' = [page EXCEPT ![p] = r] /\ UNCHANGED versions
      BY <1>6 DEF WritePublished
    <2>0. op[o].body # 0
      BY <1>1, <2>1 DEF OpInv, HoldsBody
    <2>2. r \in PageTypes /\ r.scrubbed # 0
      BY <1>1, <1>3, <2>0 DEF PageTypes
    <2> HIDE DEF r
    <2>3. /\ page' \in [Pages -> PageTypes] /\ page'[p].scrubbed # 0
          /\ \A q \in Pages : q # p => page'[q] = page[q] /\ versions'[q] = versions[q]
      BY <1>1, <2>1, <2>2
    <2>4. /\ op' \in [Procs -> OpTypes] /\ OpInv(o)'
          /\ \A q \in Procs : q # o => op'[q] = op[q]
      BY <1>5, <2>1, <2>3
    <2>5. (\A q \in Procs : OpInv(q)') /\ (\A q \in Pages : PageInv(q)')
      BY <1>1, <1>4, <2>3, <2>4, PageStep
    <2> QED
      BY <1>1, <1>4, <2>1, <2>3, <2>4, <2>5 DEF IInv, TypeOK
  <1>7. CASE WriteHidden(o)
    <2> DEFINE st == IF op[o].kind = "archive" THEN "ARCHIVED" ELSE "DRAFT"
               r == [page[p] EXCEPT !.status = st]
    <2>1. ~Publishing(o) /\ Goto(o, "syncRead")
          /\ page' = [page EXCEPT ![p] = r] /\ UNCHANGED versions
      BY <1>7 DEF WriteHidden
    <2>2. /\ r \in PageTypes /\ r.scrubbed = page[p].scrubbed
          /\ r.status \in {"ARCHIVED", "DRAFT"}
      BY <1>1 DEF PageTypes
    <2> HIDE DEF r
    <2>3. /\ page' \in [Pages -> PageTypes] /\ page'[p] = r
          /\ \A q \in Pages : q # p => page'[q] = page[q] /\ versions'[q] = versions[q]
          /\ versions'[p] = versions[p]
      BY <1>1, <2>1, <2>2
    <2>4. /\ op' \in [Procs -> OpTypes] /\ OpInv(o)'
          /\ \A q \in Procs : q # o => op'[q] = op[q]
      BY <1>5, <2>1
    <2>5. page'[p].scrubbed = page[p].scrubbed /\ page'[p].status # "PUBLISHED"
      BY <2>2, <2>3
    <2>6. (\A q \in Procs : OpInv(q)') /\ (\A q \in Pages : PageInv(q)')
      BY <1>1, <1>4, <2>3, <2>4, <2>5, PageStep
    <2> QED
      BY <1>1, <1>4, <2>1, <2>3, <2>4, <2>6 DEF IInv, TypeOK
  <1>8. CASE CommitVersion(o)
    <2>1. /\ op[o].pc = "commit" /\ Goto(o, AfterVersion(o)) /\ UNCHANGED page
          /\ versions' = [versions EXCEPT ![p] =
                            Append(Marked(p, op[o].locked, Replaced(o)), NewVersion(o))]
      BY <1>8 DEF CommitVersion
    <2>2. op[o].body # 0 /\ page'[p].scrubbed # 0
      BY <1>1, <1>4, <2>1 DEF OpInv, HoldsBody, Shown
    <2>3. /\ versions' \in [Pages -> Seq(VersionTypes)]
          /\ \A q \in Pages : q # p => page'[q] = page[q] /\ versions'[q] = versions[q]
      BY <1>1, <2>1, <2>2, CommitRows DEF Committed
    <2>4. AfterVersion(o) \in {"idle", "clear"}
      BY DEF AfterVersion
    <2>5. /\ op' \in [Procs -> OpTypes] /\ OpInv(o)'
          /\ \A q \in Procs : q # o => op'[q] = op[q]
      BY <1>5, <2>1, <2>4
    <2>6. (\A q \in Procs : OpInv(q)') /\ (\A q \in Pages : PageInv(q)')
      BY <1>1, <1>4, <2>1, <2>2, <2>3, <2>5, PageStep
    <2> QED
      BY <1>1, <1>4, <2>1, <2>3, <2>5, <2>6 DEF IInv, TypeOK
  <1>9. CASE CommitRollback(o)
    <2> DEFINE r == [page[p] EXCEPT !.status = "PUBLISHED", !.body = op[o].body,
                                    !.sub = op[o].sub]
    <2>1. /\ op[o].pc = "commit" /\ Goto(o, "idle") /\ page' = [page EXCEPT ![p] = r]
          /\ versions' = [versions EXCEPT ![p] =
                            Append(Marked(p, op[o].locked, Replaced(o)), NewVersion(o))]
      BY <1>9 DEF CommitRollback
    <2>2. op[o].body # 0 /\ page[p].scrubbed # 0
      BY <1>1, <1>4, <2>1 DEF OpInv, HoldsBody, Shown
    <2>3. r \in PageTypes /\ r.scrubbed # 0
      BY <1>1, <1>3, <2>2 DEF PageTypes
    <2> HIDE DEF r
    <2>4. /\ page' \in [Pages -> PageTypes] /\ page'[p].scrubbed # 0
          /\ \A q \in Pages : q # p => page'[q] = page[q]
      BY <1>1, <2>1, <2>3
    <2>5. /\ versions' \in [Pages -> Seq(VersionTypes)]
          /\ \A q \in Pages : q # p => versions'[q] = versions[q]
      BY <1>1, <2>1, <2>2, CommitRows DEF Committed
    <2>6. /\ op' \in [Procs -> OpTypes] /\ OpInv(o)'
          /\ \A q \in Procs : q # o => op'[q] = op[q]
      BY <1>5, <2>1
    <2>7. (\A q \in Procs : OpInv(q)') /\ (\A q \in Pages : PageInv(q)')
      BY <1>1, <1>4, <2>4, <2>5, <2>6, PageStep
    <2> QED
      BY <1>1, <1>4, <2>4, <2>5, <2>6, <2>7 DEF IInv, TypeOK
  <1>10. CASE DeletePage(o)
    <2> DEFINE r == [page[p] EXCEPT !.status = "DELETED"]
    <2>1. /\ op[o].pc = "cascade" /\ Goto(o, "syncRead") /\ page' = [page EXCEPT ![p] = r]
          /\ versions' = [versions EXCEPT ![p] = <<>>]
      BY <1>10 DEF DeletePage
    <2>2. r \in PageTypes /\ r.status = "DELETED"
      BY <1>1 DEF PageTypes
    <2> HIDE DEF r
    <2>3. /\ page' \in [Pages -> PageTypes] /\ page'[p].status = "DELETED"
          /\ \A q \in Pages : q # p => page'[q] = page[q] /\ versions'[q] = versions[q]
          /\ versions'[p] = <<>> /\ versions' \in [Pages -> Seq(VersionTypes)]
      BY <1>1, <2>1, <2>2
    <2>4. /\ op' \in [Procs -> OpTypes] /\ op'[o].pc = "syncRead"
          /\ op'[o] = [op[o] EXCEPT !.pc = "syncRead"]
          /\ \A q \in Procs : q # o => op'[q] = op[q]
      BY <1>1, <2>1, GotoOne
    <2>5. op'[o].page = p
      BY <1>1, <2>4 DEF OpTypes
    <2>6. OpInv(o)'
      BY <2>3, <2>4, <2>5 DEF OpInv, HoldsBody, Exists
    <2>7. (\A q \in Procs : OpInv(q)') /\ (\A q \in Pages : PageInv(q)')
      BY <1>1, <2>3, <2>4, <2>6, PageStep
    <2> QED
      BY <1>1, <1>4, <2>3, <2>4, <2>7 DEF IInv, TypeOK
  <1> QED
    BY <1>6, <1>7, <1>8, <1>9, <1>10

\* IInv is an invariant.
LEMMA IInvHolds == Spec => []IInv
  <1>1. Init => IInv
    <2> SUFFICES ASSUME Init PROVE IInv
      OBVIOUS
    <2>1. /\ NewPage \in PageTypes /\ NewPage.status = "DRAFT"
          /\ [state |-> "none", tries |-> 0] \in JobTypes /\ 0 \in 0..MaxBegun
      BY PageAssumption DEF NewPage, PageTypes, JobTypes, Texts
    <2>2. TypeOK
      <3>1. page \in [Pages -> PageTypes] /\ versions \in [Pages -> Seq(VersionTypes)]
        BY <2>1 DEF Init
      <3>2. op \in [Procs -> OpTypes] /\ job \in [Pages -> JobTypes]
        BY <2>1, IdleTyped DEF Init
      <3>3. story \in BOOLEAN /\ policy \in Policies /\ begun \in 0..MaxBegun /\ broken \subseteq Pages
        BY <2>1 DEF Init
      <3> QED
        BY <3>1, <3>2, <3>3 DEF TypeOK
    <2>3. \A o \in Procs : op[o].pc = "idle"
      BY IdleTyped DEF Init
    <2>4. \A o \in Procs : OpInv(o)
      BY <2>3 DEF OpInv, HoldsBody, Shown
    <2>5. \A p \in Pages : page[p].status = "DRAFT" /\ versions[p] = <<>>
      BY <2>1 DEF Init
    <2>6. \A p \in Pages : PageInv(p)
      BY <2>5 DEF PageInv
    <2> QED
      BY <2>2, <2>4, <2>6 DEF IInv
  <1>2. IInv /\ [Next]_vars => IInv'
    <2> SUFFICES ASSUME IInv, [Next]_vars PROVE IInv'
      OBVIOUS
    <2>1. ASSUME NEW p \in Pages, NEW b \in 1..MaxText, NEW s \in Texts, EditPage(p, b, s)
          PROVE  IInv'
      BY <2>1, EditKeeps
    <2>2. ASSUME NEW new \in Policies, SetPolicy(new)
          PROVE  IInv'
      BY <2>2, PageAssumption DEF SetPolicy, IInv, TypeOK, OpInv, HoldsBody, Shown,
                                  Publishing, Exists, PageInv
    <2>3. ASSUME NEW o \in Requests, NEW p \in Pages,
                 \/ \E kind \in {"direct", "chain", "queue"} : BeginPublish(o, p, kind)
                 \/ \E kind \in {"archive", "unpublish", "delete", "schedule", "cancel"} :
                      BeginOther(o, p, kind)
                 \/ \E v \in 1..Len(versions[p]) : BeginRollback(o, p, v)
          PROVE  IInv'
      BY <2>3, BeginKeeps
    <2>4. ASSUME NEW p \in Pages, FireScheduled(p)
          PROVE  IInv'
      <3> DEFINE r == [IdleOp EXCEPT !.kind = "scheduled", !.pc = "status", !.page = p]
                 j == [job[p] EXCEPT !.state = "active"]
      <3>1. r \in OpTypes /\ r.pc = "status" /\ Scheduler \in Procs
        BY IdleTyped DEF OpTypes, Procs
      <3>2. TypeOK /\ op \in [Procs -> OpTypes] /\ job[p] \in JobTypes
        BY DEF IInv, TypeOK
      <3>3. j \in JobTypes
        BY <3>2 DEF JobTypes
      <3>4. /\ Become(Scheduler, r) /\ job' = [job EXCEPT ![p] = j]
            /\ UNCHANGED <<page, versions, story, policy, begun, broken>>
        BY <2>4 DEF FireScheduled
      <3> HIDE DEF r, j
      <3>5. /\ op' \in [Procs -> OpTypes] /\ op'[Scheduler] = r
            /\ \A q \in Procs : q # Scheduler => op'[q] = op[q]
        BY <3>1, <3>2, <3>4, BecomeOne
      <3>6. OpInv(Scheduler)'
        BY <3>1, <3>5 DEF OpInv, HoldsBody, Shown
      <3>7. (\A q \in Procs : OpInv(q)') /\ (\A q \in Pages : PageInv(q)')
        BY <3>1, <3>4, <3>5, <3>6, OpOnlyKeeps
      <3> QED
        BY <3>2, <3>3, <3>4, <3>5, <3>7 DEF IInv, TypeOK
    <2>5. ASSUME NEW o \in Procs, OpStep(o)
          PROVE  IInv'
      BY <2>5, MoveKeeps, WriteKeeps DEF OpStep, Progress
    <2>6. CASE Quiet \/ UNCHANGED vars
      BY <2>6 DEF Quiet, vars, IInv, TypeOK, OpInv, HoldsBody, Shown, Publishing, Exists,
                  PageInv
    <2> QED
      BY <2>1, <2>2, <2>3, <2>4, <2>5, <2>6 DEF Next, Arrive
  <1> QED
    BY <1>1, <1>2, PTL DEF Spec

\* The rows and requests keep their types under every mix of requests; in
\* particular no version without a body is stored and a scheduled job is tried
\* at most twice.
THEOREM TypeCorrect == Spec => []TypeOK
  <1>1. IInv => TypeOK
    BY DEF IInv
  <1> QED
    BY <1>1, IInvHolds, PTL

\* A published anonymous page always has a scrubbed body to serve, however many
\* publishes, rollbacks, archives and deletes interleave and fail.
THEOREM PublicIsScrubbed == Spec => []PublicBodyIsScrubbed
  <1>1. IInv => PublicBodyIsScrubbed
    BY DEF IInv, PageInv, PublicBodyIsScrubbed
  <1> QED
    BY <1>1, IInvHolds, PTL

-----------------------------------------------------------------------------
(* The version rows *)

\* A step that leaves the version rows alone or empties those of one page.
LEMMA RowsKept ==
    ASSUME IInv, RInv, NEW o \in Procs,
           \A q \in Procs : q # o => op'[q] = op[q],
           \A p \in Pages : versions'[p] = versions[p] \/ versions'[p] = <<>>,
           RowInv(o)'
    PROVE  RInv'
  <1>1. \A q \in Procs : op[q].page \in Pages
    BY DEF IInv, TypeOK, OpTypes
  <1>2. ASSUME NEW p \in Pages
        PROVE  /\ ActiveRows(p)' \subseteq ActiveRows(p)
               /\ ActiveRows(p)' # {} => versions'[p] = versions[p]
    BY <1>2 DEF ActiveRows
  <1>3. ASSUME NEW q \in Procs, NEW p \in Pages
        PROVE  OwnRows(q, p)' \subseteq OwnRows(q, p)
    BY <1>2 DEF OwnRows
  <1>4. ASSUME NEW q \in Procs, q # o
        PROVE  RowInv(q)'
    <2>1. op'[q] = op[q] /\ RowInv(q) /\ op[q].page \in Pages
      BY <1>1, <1>4 DEF RInv
    <2>2. ASSUME NEW p \in Pages, p = op[q].page
          PROVE  RowInv(q)'
      BY <1>3, <2>1, <2>2 DEF RowInv
    <2> QED
      BY <2>1, <2>2
  <1>5. ActiveTogetherOverlapped'
    BY <1>2 DEF RInv, ActiveTogetherOverlapped
  <1>6. NewestVersionActive'
    BY DEF RInv, NewestVersionActive
  <1> QED
    BY <1>4, <1>5, <1>6 DEF RInv

\* The commit of a version transaction replaces every ACTIVE row its process
\* created before, and adds one.
LEMMA RowsCommitted ==
    ASSUME IInv, RInv, NEW o \in Procs, NEW p \in Pages, p = op[o].page,
           op[o].pc = "commit",
           versions' = [versions EXCEPT ![p] =
                          Append(Marked(p, op[o].locked, Replaced(o)), NewVersion(o))],
           \A q \in Procs : q # o => op'[q] = op[q],
           op'[o].pc \notin {"lock", "commit"}
    PROVE  RInv'
  <1> DEFINE n == Len(versions[p])
  <1>1. /\ TypeOK /\ versions[p] \in Seq(VersionTypes) /\ n \in Nat /\ op[o].body # 0
        /\ OwnRows(o, p) \subseteq op[o].locked
        /\ \A q \in Procs : op[q].page \in Pages
    BY DEF IInv, TypeOK, OpTypes, RInv, RowInv, OpInv, HoldsBody
  <1>2. /\ \A q \in Pages : q # p => versions'[q] = versions[q]
        /\ versions'[p] # <<>> /\ Len(versions'[p]) = n + 1
        /\ versions'[p][n + 1] = NewVersion(o)
        /\ \A i \in 1..n :
             /\ versions'[p][i].by = versions[p][i].by
             /\ versions'[p][i].status =
                  IF i \in op[o].locked THEN Replaced(o) ELSE versions[p][i].status
    <2>1. Committed(o, p)
      BY <1>1, CommitRows
    <2> QED
      BY <2>1 DEF Committed
  <1> HIDE DEF n
  <1>3. NewVersion(o).status = "ACTIVE" /\ NewVersion(o).by = o /\ Replaced(o) # "ACTIVE"
    BY DEF NewVersion, Replaced
  <1>4. ASSUME NEW i \in ActiveRows(p)', i # n + 1
        PROVE  /\ i \in ActiveRows(p) /\ i \notin op[o].locked
               /\ versions'[p][i].by = versions[p][i].by
    <2>1. i \in 1..(n + 1) /\ versions'[p][i].status = "ACTIVE"
      BY <1>2, <1>4 DEF ActiveRows
    <2>2. i \in 1..n
      BY <1>1, <1>4, <2>1
    <2> QED
      BY <1>2, <1>3, <2>1, <2>2 DEF ActiveRows, n
  <1>5. \A q \in Pages : q # p => ActiveRows(q)' = ActiveRows(q)
    BY <1>2 DEF ActiveRows
  <1>6. ASSUME NEW q \in Procs
        PROVE  RowInv(q)'
    <2>1. CASE q = o
      BY <2>1 DEF RowInv
    <2>2. CASE q # o
      <3>1. op'[q] = op[q] /\ RowInv(q) /\ op[q].page \in Pages
        BY <1>1, <2>2 DEF RInv
      <3>2. ASSUME NEW r \in Pages
            PROVE  OwnRows(q, r)' \subseteq OwnRows(q, r)
        BY <1>2, <1>3, <1>4, <1>5, <2>2 DEF OwnRows
      <3>3. ASSUME NEW r \in Pages, r = op[q].page
            PROVE  RowInv(q)'
        BY <3>1, <3>2, <3>3 DEF RowInv
      <3> QED
        BY <3>1, <3>3
    <2> QED
      BY <2>1, <2>2
  <1>7. ActiveTogetherOverlapped'
    <2> SUFFICES ASSUME NEW r \in Pages, NEW i \in ActiveRows(r)', NEW k \in ActiveRows(r)',
                        versions'[r][i].by = versions'[r][k].by
                 PROVE  i = k
      BY DEF ActiveTogetherOverlapped
    <2>1. CASE r # p
      BY <1>2, <1>5, <2>1 DEF RInv, ActiveTogetherOverlapped
    <2>2. CASE r = p
      <3>0. i \in ActiveRows(p)' /\ k \in ActiveRows(p)'
        BY <2>2 DEF ActiveRows
      <3>1. CASE i # n + 1 /\ k # n + 1
        <4>1. /\ i \in ActiveRows(p) /\ k \in ActiveRows(p)
              /\ versions'[p][i].by = versions[p][i].by
              /\ versions'[p][k].by = versions[p][k].by
          BY <1>4, <3>0, <3>1
        <4>2. versions[p][i].by = versions[p][k].by
          BY <2>2, <4>1
        <4> QED
          BY <4>1, <4>2 DEF RInv, ActiveTogetherOverlapped
      <3>2. ASSUME NEW j \in ActiveRows(p)', j # n + 1
            PROVE  versions'[p][j].by # o
        <4>1. /\ j \in ActiveRows(p) /\ j \notin op[o].locked
              /\ versions'[p][j].by = versions[p][j].by
          BY <1>4, <3>2
        <4> QED
          BY <1>1, <4>1 DEF OwnRows
      <3>5. versions'[p][n + 1].by = o /\ versions'[p][i].by = versions'[p][k].by
        BY <1>2, <1>3, <2>2
      <3>6. (i # n + 1 => versions'[p][i].by # o) /\ (k # n + 1 => versions'[p][k].by # o)
        BY <3>0, <3>2
      <3>3. CASE i = n + 1 /\ k # n + 1
        BY <3>3, <3>5, <3>6
      <3>4. CASE i # n + 1 /\ k = n + 1
        BY <3>4, <3>5, <3>6
      <3> QED
        BY <3>1, <3>3, <3>4
    <2> QED
      BY <2>1, <2>2
  <1>8. NewestVersionActive'
    <2>1. \A q \in Pages : q # p => (versions'[q] # <<>> =>
            versions'[q][Len(versions'[q])].status = "ACTIVE")
      BY <1>2 DEF RInv, NewestVersionActive
    <2>2. versions'[p][Len(versions'[p])].status = "ACTIVE"
      BY <1>2, <1>3
    <2> QED
      BY <2>1, <2>2 DEF NewestVersionActive
  <1> QED
    BY <1>6, <1>7, <1>8 DEF RInv

\* The steps outside the version transactions.
LEMMA RowsOutside ==
    ASSUME IInv, RInv, NEW o \in Procs,
           \/ ReadPage(o) \/ WritePublished(o) \/ WriteHidden(o)
           \/ SyncRead(o) \/ SyncWrite(o) \/ SyncError(o)
           \/ ClearScheduled(o) \/ AddScheduled(o) \/ LockPage(o) \/ DeletePage(o)
           \/ FailOp(o)
           \/ (o = Scheduler /\ CheckScheduled)
    PROVE  RInv'
  <1>1. TypeOK /\ op \in [Procs -> OpTypes] /\ op[o] \in OpTypes
    BY DEF IInv, TypeOK
  <1>2. \A p \in Pages : versions'[p] = versions[p] \/ versions'[p] = <<>>
    BY <1>1 DEF ReadPage, WritePublished, WriteHidden, SyncRead, SyncWrite, SyncError,
           ClearScheduled, AddScheduled, LockPage, DeletePage, FailOp, CheckScheduled, TypeOK
  <1>3. SUFFICES /\ \A q \in Procs : q # o => op'[q] = op[q]
                 /\ op'[o].pc \notin {"lock", "commit"}
    BY <1>2, RowsKept DEF RowInv
  <1>4. ASSUME NEW l \in {"idle", "read", "syncRead", "version", "clear", "add", "delete",
                      "cascade"},
               Goto(o, l)
        PROVE  /\ \A q \in Procs : q # o => op'[q] = op[q]
               /\ op'[o].pc \notin {"lock", "commit"}
    BY <1>1, <1>4, GotoOne
  <1>5. CASE ReadPage(o)
    BY <1>1, <1>5 DEF ReadPage, Become, OpTypes
  <1>6. CASE SyncRead(o)
    BY <1>1, <1>6 DEF SyncRead, Become, OpTypes
  <1>7. CASE WritePublished(o) \/ WriteHidden(o) \/ DeletePage(o)
    BY <1>4, <1>7 DEF WritePublished, WriteHidden, DeletePage
  <1>8. CASE SyncWrite(o) \/ SyncError(o)
    <2>1. AfterSync(o) \in {"version", "idle", "clear"}
      BY DEF AfterSync
    <2> QED
      BY <1>4, <1>8, <2>1 DEF SyncWrite, SyncError
  <1>9. CASE AddScheduled(o) \/ LockPage(o) \/ FailOp(o)
    BY <1>4, <1>9 DEF AddScheduled, LockPage, FailOp
  <1>10. CASE ClearScheduled(o)
    <2> DEFINE l == CASE op[o].kind = "delete" -> "delete"
                      [] op[o].kind = "schedule" -> "add"
                      [] OTHER -> "idle"
    <2>1. l \in {"idle", "delete", "add"} /\ Goto(o, l)
      BY <1>10 DEF ClearScheduled
    <2> HIDE DEF l
    <2> QED
      BY <1>4, <2>1
  <1>11. CASE o = Scheduler /\ CheckScheduled
    <2> DEFINE skip == page[op[o].page].status \in {"PUBLISHED", "DELETED"}
               l == IF skip THEN "idle" ELSE "read"
    <2>1. l \in {"idle", "read"} /\ Goto(o, l)
      BY <1>11 DEF CheckScheduled
    <2> HIDE DEF l
    <2> QED
      BY <1>4, <2>1
  <1> QED
    BY <1>5, <1>6, <1>7, <1>8, <1>9, <1>10, <1>11

\* The steps of the version transactions.
LEMMA RowsInside ==
    ASSUME IInv, RInv, NEW o \in Procs,
           SelectRows(o) \/ LockRows(o) \/ CommitVersion(o) \/ CommitRollback(o)
    PROVE  RInv'
  <1> DEFINE p == op[o].page
  <1>1. /\ TypeOK /\ op \in [Procs -> OpTypes] /\ op[o] \in OpTypes /\ p \in Pages
        /\ RowInv(o)
    BY DEF IInv, TypeOK, OpTypes, RInv
  <1>2. CASE SelectRows(o)
    <2>1. /\ op'[o].pc = "lock" /\ op'[o].page = p /\ op'[o].snap = ActiveRows(p)
          /\ UNCHANGED versions
          /\ \A q \in Procs : q # o => op'[q] = op[q]
      BY <1>1, <1>2 DEF SelectRows, Become, OpTypes
    <2>2. RowInv(o)'
      BY <2>1 DEF RowInv, OwnRows, ActiveRows
    <2> QED
      BY <2>1, <2>2, RowsKept
  <1>3. CASE LockRows(o)
    <2> DEFINE rows == op[o].snap \cap ActiveRows(p)
    <2>1. /\ op'[o].pc = "commit" /\ op'[o].page = p /\ op'[o].locked = rows
          /\ op[o].pc = "lock" /\ UNCHANGED versions
          /\ \A q \in Procs : q # o => op'[q] = op[q]
      BY <1>1, <1>3 DEF LockRows, Become, OpTypes
    <2>2. OwnRows(o, p) \subseteq rows
      BY <1>1, <2>1 DEF RowInv, OwnRows
    <2>3. RowInv(o)'
      BY <2>1, <2>2 DEF RowInv, OwnRows, ActiveRows
    <2> QED
      BY <2>1, <2>3, RowsKept
  <1>4. ASSUME NEW l \in {"idle", "clear"}, Goto(o, l)
        PROVE  /\ \A q \in Procs : q # o => op'[q] = op[q]
               /\ op'[o].pc \notin {"lock", "commit"}
    BY <1>1, <1>4, GotoOne
  <1>5. AfterVersion(o) \in {"idle", "clear"}
    BY DEF AfterVersion
  <1>6. CASE CommitVersion(o)
    BY <1>1, <1>4, <1>5, <1>6, RowsCommitted DEF CommitVersion
  <1>7. CASE CommitRollback(o)
    BY <1>1, <1>4, <1>7, RowsCommitted DEF CommitRollback
  <1> QED
    BY <1>2, <1>3, <1>6, <1>7

\* RInv is an invariant.
LEMMA RInvHolds == Spec => []RInv
  <1>1. Init => RInv
    <2> SUFFICES ASSUME Init PROVE RInv
      OBVIOUS
    <2>1. \A o \in Procs : op[o].pc = "idle"
      BY IdleTyped DEF Init
    <2>2. \A p \in Pages : versions[p] = <<>> /\ ActiveRows(p) = {}
      BY DEF Init, ActiveRows
    <2> QED
      BY <2>1, <2>2 DEF RInv, RowInv, ActiveTogetherOverlapped, NewestVersionActive
  <1>2. IInv /\ RInv /\ [Next]_vars => RInv'
    <2> SUFFICES ASSUME IInv, RInv, [Next]_vars PROVE RInv'
      OBVIOUS
    <2>1. TypeOK /\ op \in [Procs -> OpTypes]
      BY DEF IInv, TypeOK
    <2>2. ASSUME UNCHANGED <<versions, op>>
          PROVE  RInv'
      BY <2>2 DEF RInv, RowInv, OwnRows, ActiveRows, ActiveTogetherOverlapped,
                  NewestVersionActive
    <2>3. ASSUME NEW o \in Procs, NEW r, r.pc \notin {"lock", "commit"}, Become(o, r),
                 UNCHANGED versions
          PROVE  RInv'
      <3>1. op'[o] = r /\ \A q \in Procs : q # o => op'[q] = op[q]
        BY <2>1, <2>3 DEF Become
      <3>2. RowInv(o)'
        BY <2>3, <3>1 DEF RowInv
      <3> QED
        BY <2>3, <3>1, <3>2, RowsKept
    <2>4. CASE \/ \E p \in Pages, b \in 1..MaxText, s \in Texts : EditPage(p, b, s)
               \/ \E new \in Policies : SetPolicy(new)
               \/ Quiet \/ UNCHANGED vars
      BY <2>2, <2>4 DEF EditPage, SetPolicy, Quiet, vars
    <2>5. ASSUME NEW o \in Requests, NEW p \in Pages, NEW kind, NEW l,
                 Begin(o, kind, l, p), l \notin {"lock", "commit"}, UNCHANGED versions
          PROVE  RInv'
      <3> DEFINE r == [IdleOp EXCEPT !.kind = kind, !.pc = l, !.page = p]
      <3>1. r.pc = l /\ o \in Procs
        BY IdleTyped DEF OpTypes, Procs
      <3>2. Become(o, r)
        BY <2>5 DEF Begin
      <3> HIDE DEF r
      <3> QED
        BY <2>3, <2>5, <3>1, <3>2
    <2>6. ASSUME NEW o \in Requests, NEW p \in Pages,
                 \/ \E kind \in {"direct", "chain", "queue"} : BeginPublish(o, p, kind)
                 \/ \E kind \in {"archive", "unpublish", "delete", "schedule", "cancel"} :
                      BeginOther(o, p, kind)
          PROVE  RInv'
      <3>1. ASSUME NEW kind, BeginPublish(o, p, kind)
            PROVE  RInv'
        BY <2>5, <3>1 DEF BeginPublish
      <3>2. ASSUME NEW kind, BeginOther(o, p, kind)
            PROVE  RInv'
        <4> DEFINE l == IF kind \in {"archive", "unpublish"} THEN "write" ELSE "clear"
        <4>1. Begin(o, kind, l, p) /\ UNCHANGED versions /\ l \notin {"lock", "commit"}
          BY <3>2 DEF BeginOther
        <4> HIDE DEF l
        <4> QED
          BY <2>5, <4>1
      <3> QED
        BY <2>6, <3>1, <3>2
    <2>7. ASSUME NEW o \in Requests, NEW p \in Pages, NEW v \in 1..Len(versions[p]),
                 BeginRollback(o, p, v)
          PROVE  RInv'
      <3> DEFINE r == [IdleOp EXCEPT !.kind = "rollback", !.pc = "version", !.page = p,
                                     !.body = versions[p][v].body,
                                     !.sub = versions[p][v].sub, !.from = v]
      <3>1. r.pc = "version" /\ o \in Procs
        BY IdleTyped DEF OpTypes, Procs
      <3>2. Become(o, r) /\ UNCHANGED versions
        BY <2>7 DEF BeginRollback
      <3> HIDE DEF r
      <3> QED
        BY <2>3, <3>1, <3>2
    <2>8. ASSUME NEW p \in Pages, FireScheduled(p)
          PROVE  RInv'
      <3> DEFINE r == [IdleOp EXCEPT !.kind = "scheduled", !.pc = "status", !.page = p]
      <3>1. r.pc = "status" /\ Scheduler \in Procs
        BY IdleTyped DEF OpTypes, Procs
      <3>2. Become(Scheduler, r) /\ UNCHANGED versions
        BY <2>8 DEF FireScheduled
      <3> HIDE DEF r
      <3> QED
        BY <2>3, <3>1, <3>2
    <2>9. ASSUME NEW o \in Procs, OpStep(o)
          PROVE  RInv'
      BY <2>9, RowsOutside, RowsInside DEF OpStep, Progress
    <2> QED
      BY <2>4, <2>6, <2>7, <2>8, <2>9 DEF Next, Arrive
  <1> QED
    BY <1>1, <1>2, IInvHolds, PTL DEF Spec

\* The newest version of a page is ACTIVE, whatever transactions interleave.
THEOREM NewestIsActive == Spec => []NewestVersionActive
  <1>1. RInv => NewestVersionActive
    BY DEF RInv
  <1> QED
    BY <1>1, RInvHolds, PTL

\* A request never leaves an earlier version of its own ACTIVE: only versions
\* created by overlapping transactions are ACTIVE together.
THEOREM OwnVersionReplaced == Spec => []ActiveTogetherOverlapped
  <1>1. RInv => ActiveTogetherOverlapped
    BY DEF RInv
  <1> QED
    BY <1>1, RInvHolds, PTL

-----------------------------------------------------------------------------
(* The history of a published page *)

\* A step of o keeps HInv when the only page it leaves published without a
\* version is the one it goes on to record, and it stops recording only after
\* the version is there or the failure is noted.
LEMMA HistoryKept ==
    ASSUME HInv, NEW o \in Procs,
           \A q \in Procs : q # o => op'[q] = op[q],
           broken \subseteq broken',
           \A p \in Pages : (page'[p].status = "PUBLISHED" /\ versions'[p] = <<>>)
              => (page[p].status = "PUBLISHED" /\ versions[p] = <<>>) \/ Recording(o, p)',
           \A p \in Pages : Recording(o, p)
              => Recording(o, p)' \/ p \in broken' \/ versions'[p] # <<>>
    PROVE  HInv'
  <1> SUFFICES ASSUME NEW p \in Pages, page'[p].status = "PUBLISHED", versions'[p] = <<>>,
                      p \notin broken'
               PROVE  \E q \in Procs : Recording(q, p)'
    BY DEF HInv
  <1>1. CASE Recording(o, p)'
    BY <1>1
  <1>2. CASE page[p].status = "PUBLISHED" /\ versions[p] = <<>>
    <2>1. PICK q \in Procs : Recording(q, p)
      BY <1>2 DEF HInv
    <2>2. CASE q = o
      BY <2>1, <2>2
    <2>3. CASE q # o
      <3>1. op'[q] = op[q]
        BY <2>3
      <3> QED
        BY <2>1, <3>1 DEF Recording, Publishing
    <2> QED
      BY <2>2, <2>3
  <1> QED
    BY <1>1, <1>2

\* A request arrives, or the scheduled job starts: the process was idle.
LEMMA HistoryBegins ==
    ASSUME HInv, NEW o \in Procs, op \in [Procs -> OpTypes], NEW r \in OpTypes,
           op[o].pc = "idle", Become(o, r), UNCHANGED <<page, versions, broken>>
    PROVE  HInv'
  <1>1. \A q \in Procs : q # o => op'[q] = op[q]
    BY BecomeOne
  <1>2. \A p \in Pages : ~Recording(o, p)
    BY DEF Recording
  <1> QED
    BY <1>1, <1>2, HistoryKept

\* The steps that leave page and version rows alone.
LEMMA HistoryMoves ==
    ASSUME IInv, HInv, NEW o \in Procs,
           \/ ReadPage(o) \/ SyncRead(o) \/ SyncWrite(o) \/ SyncError(o)
           \/ SelectRows(o) \/ LockRows(o) \/ ClearScheduled(o) \/ AddScheduled(o)
           \/ LockPage(o) \/ FailOp(o) \/ (o = Scheduler /\ CheckScheduled)
    PROVE  HInv'
  <1>1. op \in [Procs -> OpTypes] /\ op[o] \in OpTypes /\ op[o].page \in Pages
    BY DEF IInv, TypeOK, OpTypes
  <1>2. UNCHANGED <<page, versions>>
    BY DEF ReadPage, SyncRead, SyncWrite, SyncError, SelectRows, LockRows,
           ClearScheduled, AddScheduled, LockPage, FailOp, CheckScheduled
  <1>3. broken \subseteq broken'
    BY DEF ReadPage, SyncRead, SyncWrite, SyncError, SelectRows, LockRows,
           ClearScheduled, AddScheduled, LockPage, FailOp, CheckScheduled
  <1>4. SUFFICES /\ \A q \in Procs : q # o => op'[q] = op[q]
                 /\ \A p \in Pages : Recording(o, p) => Recording(o, p)' \/ p \in broken'
    BY <1>2, <1>3, HistoryKept
  <1>5. CASE ReadPage(o)
    BY <1>1, <1>5 DEF ReadPage, Become, Recording
  <1>6. CASE SyncRead(o)
    BY <1>1, <1>6 DEF SyncRead, Become, Recording, Publishing, OpTypes
  <1>7. CASE SyncWrite(o) \/ SyncError(o)
    <2>0. Goto(o, AfterSync(o))
      BY <1>7 DEF SyncWrite, SyncError
    <2>1. /\ AfterSync(o) \in {"version", "idle", "clear"}
          /\ Publishing(o) => AfterSync(o) = "version"
      BY <1>1 DEF AfterSync, Publishing
    <2>2. /\ \A q \in Procs : q # o => op'[q] = op[q]
          /\ AfterSync(o) = "version" => op'[o] = [op[o] EXCEPT !.pc = "version"]
      BY <1>1, <2>0, <2>1, GotoOne
    <2> QED
      BY <1>1, <1>7, <2>1, <2>2 DEF Recording, Publishing, OpTypes
  <1>8. CASE SelectRows(o)
    BY <1>1, <1>8 DEF SelectRows, Become, Recording, Publishing, OpTypes
  <1>9. CASE LockRows(o)
    BY <1>1, <1>9 DEF LockRows, Become, Recording, Publishing, OpTypes
  <1>10. ASSUME op[o].pc \in {"clear", "add", "status", "delete"},
                NEW l \in {"idle", "delete", "add", "read", "cascade"},
                Goto(o, l)
         PROVE  /\ \A q \in Procs : q # o => op'[q] = op[q]
                /\ \A p \in Pages : ~Recording(o, p)
    BY <1>1, <1>10, GotoOne DEF Recording
  <1>11. CASE ClearScheduled(o)
    <2> DEFINE l == CASE op[o].kind = "delete" -> "delete"
                      [] op[o].kind = "schedule" -> "add"
                      [] OTHER -> "idle"
    <2>1. l \in {"idle", "delete", "add", "read"} /\ Goto(o, l) /\ op[o].pc = "clear"
      BY <1>11 DEF ClearScheduled
    <2> HIDE DEF l
    <2> QED
      BY <1>10, <2>1
  <1>12. CASE AddScheduled(o) \/ LockPage(o)
    BY <1>10, <1>12 DEF AddScheduled, LockPage
  <1>13. CASE o = Scheduler /\ CheckScheduled
    <2> DEFINE skip == page[op[o].page].status \in {"PUBLISHED", "DELETED"}
               l == IF skip THEN "idle" ELSE "read"
    <2>1. l \in {"idle", "delete", "add", "read"} /\ Goto(o, l) /\ op[o].pc = "status"
      BY <1>13 DEF CheckScheduled
    <2> HIDE DEF l
    <2> QED
      BY <1>10, <2>1
  <1>14. CASE FailOp(o)
    <2>1. \A q \in Procs : q # o => op'[q] = op[q]
      BY <1>1, <1>14, GotoOne DEF FailOp
    <2>2. \A p \in Pages : Recording(o, p) => p \in broken'
      BY <1>14 DEF FailOp, Recording
    <2> QED
      BY <2>1, <2>2
  <1> QED
    BY <1>5, <1>6, <1>7, <1>8, <1>9, <1>11, <1>12, <1>13, <1>14

\* The steps that write a page or its versions: a publish goes on to record the
\* page it shows, and every commit leaves a version.
LEMMA HistoryWrites ==
    ASSUME IInv, HInv, NEW o \in Procs,
           \/ WritePublished(o) \/ WriteHidden(o) \/ CommitVersion(o)
           \/ CommitRollback(o) \/ DeletePage(o)
    PROVE  HInv'
  <1> DEFINE p == op[o].page
  <1>1. /\ TypeOK /\ op \in [Procs -> OpTypes] /\ op[o] \in OpTypes /\ p \in Pages
        /\ page \in [Pages -> PageTypes] /\ page[p] \in PageTypes /\ OpInv(o)
        /\ versions \in [Pages -> Seq(VersionTypes)]
    BY DEF IInv, TypeOK, OpTypes
  <1>2. UNCHANGED broken
    BY DEF WritePublished, WriteHidden, CommitVersion, CommitRollback, DeletePage
  <1>3. ASSUME NEW l \in {"idle", "clear", "syncRead"}, Goto(o, l)
        PROVE  /\ \A q \in Procs : q # o => op'[q] = op[q]
               /\ l = "syncRead" => op'[o] = [op[o] EXCEPT !.pc = "syncRead"]
    BY <1>1, <1>3, GotoOne
  <1>4. CASE WritePublished(o)
    <2>1. /\ op[o].pc = "write" /\ Publishing(o) /\ Goto(o, "syncRead")
          /\ \A q \in Pages : q # p => page'[q] = page[q]
          /\ UNCHANGED versions
      BY <1>1, <1>4 DEF WritePublished
    <2>2. /\ \A q \in Procs : q # o => op'[q] = op[q]
          /\ op'[o] = [op[o] EXCEPT !.pc = "syncRead"]
      BY <1>3, <2>1
    <2>3. Recording(o, p)' /\ \A q \in Pages : ~Recording(o, q)
      BY <1>1, <2>1, <2>2 DEF Recording, Publishing, OpTypes
    <2> QED
      BY <1>2, <2>1, <2>2, <2>3, HistoryKept
  <1>5. CASE WriteHidden(o)
    <2>1. /\ op[o].pc = "write" /\ Goto(o, "syncRead") /\ UNCHANGED versions
          /\ \A q \in Pages : q # p => page'[q] = page[q]
          /\ page'[p].status # "PUBLISHED"
      BY <1>1, <1>5 DEF WriteHidden, PageTypes
    <2>2. \A q \in Procs : q # o => op'[q] = op[q]
      BY <1>3, <2>1
    <2>3. \A q \in Pages : ~Recording(o, q)
      BY <2>1 DEF Recording
    <2> QED
      BY <1>2, <2>1, <2>2, <2>3, HistoryKept
  <1>6. CASE DeletePage(o)
    <2>1. /\ op[o].pc = "cascade" /\ Goto(o, "syncRead")
          /\ \A q \in Pages : q # p => page'[q] = page[q] /\ versions'[q] = versions[q]
          /\ page'[p].status # "PUBLISHED"
      BY <1>1, <1>6 DEF DeletePage, PageTypes
    <2>2. \A q \in Procs : q # o => op'[q] = op[q]
      BY <1>3, <2>1
    <2>3. \A q \in Pages : ~Recording(o, q)
      BY <2>1 DEF Recording
    <2> QED
      BY <1>2, <2>1, <2>2, <2>3, HistoryKept
  <1>7. ASSUME op[o].pc = "commit",
               versions' = [versions EXCEPT ![p] =
                              Append(Marked(p, op[o].locked, Replaced(o)), NewVersion(o))]
        PROVE  /\ versions'[p] # <<>>
               /\ \A q \in Pages : q # p => versions'[q] = versions[q]
    <2>1. op[o].body # 0
      BY <1>1, <1>7 DEF OpInv, HoldsBody
    <2> QED
      BY <1>1, <1>7, <2>1, CommitRows DEF Committed
  <1>8. CASE CommitVersion(o)
    <2>1. /\ versions'[p] # <<>>
          /\ \A q \in Pages : q # p => versions'[q] = versions[q]
          /\ UNCHANGED page /\ Goto(o, AfterVersion(o))
      BY <1>7, <1>8 DEF CommitVersion
    <2>2. \A q \in Procs : q # o => op'[q] = op[q]
      BY <1>3, <2>1 DEF AfterVersion
    <2>3. \A q \in Pages : Recording(o, q) => q = p
      BY DEF Recording
    <2> QED
      BY <1>2, <2>1, <2>2, <2>3, HistoryKept
  <1>9. CASE CommitRollback(o)
    <2>1. /\ versions'[p] # <<>> /\ Goto(o, "idle")
          /\ \A q \in Pages : q # p => versions'[q] = versions[q] /\ page'[q] = page[q]
      BY <1>1, <1>7, <1>9 DEF CommitRollback
    <2>2. \A q \in Procs : q # o => op'[q] = op[q]
      BY <1>3, <2>1
    <2>3. \A q \in Pages : Recording(o, q) => q = p
      BY DEF Recording
    <2> QED
      BY <1>2, <2>1, <2>2, <2>3, HistoryKept
  <1> QED
    BY <1>4, <1>5, <1>6, <1>8, <1>9

\* HInv is an invariant.
LEMMA HInvHolds == Spec => []HInv
  <1>1. Init => HInv
    BY DEF Init, HInv, NewPage
  <1>2. IInv /\ HInv /\ [Next]_vars => HInv'
    <2> SUFFICES ASSUME IInv, HInv, [Next]_vars PROVE HInv'
      OBVIOUS
    <2>1. TypeOK /\ op \in [Procs -> OpTypes]
      BY DEF IInv, TypeOK
    <2>2. ASSUME NEW p \in Pages, NEW b \in 1..MaxText, NEW s \in Texts, EditPage(p, b, s)
          PROVE  HInv'
      <3>1. /\ \A q \in Pages : page'[q].status = page[q].status
            /\ UNCHANGED <<versions, op, broken>>
        BY <2>1, <2>2 DEF EditPage, TypeOK, PageTypes
      <3> QED
        BY <3>1 DEF HInv, Recording, Publishing
    <2>3. CASE (\E new \in Policies : SetPolicy(new)) \/ Quiet \/ UNCHANGED vars
      BY <2>3 DEF SetPolicy, Quiet, vars, HInv, Recording, Publishing
    <2>4. ASSUME NEW o \in Requests, NEW p \in Pages, NEW kind \in AllKinds,
                 NEW l \in {"read", "write", "clear"}, Begin(o, kind, l, p),
                 UNCHANGED <<page, versions, broken>>
          PROVE  HInv'
      <3> DEFINE r == [IdleOp EXCEPT !.kind = kind, !.pc = l, !.page = p]
      <3>1. r \in OpTypes /\ o \in Procs
        BY IdleTyped DEF OpTypes, Procs
      <3>2. Become(o, r) /\ op[o].pc = "idle"
        BY <2>4 DEF Begin
      <3> HIDE DEF r
      <3> QED
        BY <2>1, <2>4, <3>1, <3>2, HistoryBegins
    <2>5. ASSUME NEW o \in Requests, NEW p \in Pages,
                 NEW kind \in {"direct", "chain", "queue"}, BeginPublish(o, p, kind)
          PROVE  HInv'
      BY <2>4, <2>5 DEF BeginPublish, AllKinds
    <2>6. ASSUME NEW o \in Requests, NEW p \in Pages,
                 NEW kind \in {"archive", "unpublish", "delete", "schedule", "cancel"},
                 BeginOther(o, p, kind)
          PROVE  HInv'
      <3> DEFINE l == IF kind \in {"archive", "unpublish"} THEN "write" ELSE "clear"
      <3>1. /\ Begin(o, kind, l, p) /\ UNCHANGED <<page, versions, broken>>
            /\ l \in {"read", "write", "clear"} /\ kind \in AllKinds
        BY <2>6 DEF BeginOther, AllKinds
      <3> HIDE DEF l
      <3> QED
        BY <2>4, <3>1
    <2>7. ASSUME NEW o \in Requests, NEW p \in Pages, NEW v \in 1..Len(versions[p]),
                 BeginRollback(o, p, v)
          PROVE  HInv'
      <3> DEFINE r == [IdleOp EXCEPT !.kind = "rollback", !.pc = "version", !.page = p,
                                     !.body = versions[p][v].body,
                                     !.sub = versions[p][v].sub, !.from = v]
      <3>1. Become(o, r) /\ op[o].pc = "idle" /\ UNCHANGED <<page, versions, broken>>
        BY <2>7 DEF BeginRollback
      <3>2. versions[p] \in Seq(VersionTypes)
        BY <2>1 DEF TypeOK
      <3>3. versions[p][v] \in VersionTypes /\ v \in Nat
        BY <3>2
      <3>4. versions[p][v].body \in Texts /\ versions[p][v].sub \in Texts
        BY <3>3, PageAssumption DEF VersionTypes, Texts
      <3>5. r \in OpTypes /\ o \in Procs
        BY <3>3, <3>4, IdleTyped DEF OpTypes, AllKinds, Procs
      <3> HIDE DEF r
      <3> QED
        BY <2>1, <3>1, <3>5, HistoryBegins
    <2>8. ASSUME NEW p \in Pages, FireScheduled(p)
          PROVE  HInv'
      <3> DEFINE r == [IdleOp EXCEPT !.kind = "scheduled", !.pc = "status", !.page = p]
      <3>1. r \in OpTypes /\ Scheduler \in Procs
        BY IdleTyped DEF OpTypes, Procs
      <3>2. /\ Become(Scheduler, r) /\ op[Scheduler].pc = "idle"
            /\ UNCHANGED <<page, versions, broken>>
        BY <2>8 DEF FireScheduled
      <3> HIDE DEF r
      <3> QED
        BY <2>1, <3>1, <3>2, HistoryBegins
    <2>9. ASSUME NEW o \in Procs, OpStep(o)
          PROVE  HInv'
      BY <2>9, HistoryMoves, HistoryWrites DEF OpStep, Progress
    <2> QED
      BY <2>2, <2>3, <2>5, <2>6, <2>7, <2>8, <2>9 DEF Next, Arrive
  <1> QED
    BY <1>1, <1>2, IInvHolds, PTL DEF Spec

\* Once nothing is in progress on a page, a published page has a version in its
\* history or a publish of it is known to have failed, whichever requests
\* overlapped before.
THEOREM PublishedIsRecorded == Spec => []PublishedHasVersion
  <1>1. HInv => PublishedHasVersion
    BY DEF HInv, Recording, PublishedHasVersion, Settled
  <1> QED
    BY <1>1, HInvHolds, PTL
=============================================================================
