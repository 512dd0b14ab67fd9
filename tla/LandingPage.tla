---------------------------- MODULE LandingPage ----------------------------
(***************************************************************************)
(* Publishing landing pages: the page rows of one story, their version     *)
(* history, the story's publishedAt and the scheduled-publish jobs, under  *)
(* concurrent requests.                                                    *)
(*                                                                         *)
(* services/landing-page-editor.ts      publish, archive, unpublish        *)
(* services/landing-page-editor-helpers createArtifactVersion, sync        *)
(* services/landing-page-editor-admin   rollback, delete                   *)
(* services/scheduled-page-publish.ts   the scheduled publish job          *)
(* api/landing-page/publish-routes*.ts  the requests around them           *)
(*                                                                         *)
(* Every database statement outside a transaction is a step.  The          *)
(* transactions run at PostgreSQL's READ COMMITTED: an updateMany selects  *)
(* its rows from a snapshot, waits for row locks and skips rows that       *)
(* changed meanwhile; writes show at the commit.  A delete locks the page  *)
(* row and then the version rows its cascade takes; the insert of a        *)
(* version locks the page row against a delete.  Of the transactions of a  *)
(* cycle the database aborts one.                                          *)
(*                                                                         *)
(* Data abstraction.  A text is a number; the scrubbed form of a text is   *)
(* the number of the text it was made from, 0 where nothing is stored.     *)
(* Body and subtitle stand for the texts of a page: the body is never      *)
(* empty when published, the subtitle may be absent like the callouts.     *)
(* Permissions, audit records and outbound webhooks are left out.          *)
(***************************************************************************)
EXTENDS Naturals, Sequences, FiniteSets

CONSTANTS
    Pages,        \* landing pages of one story
    Named,        \* pages with includeCompanyName
    Requests,     \* HTTP requests in progress at once
    Kinds,        \* the requests that are sent
    Scheduler,    \* the scheduled-page-publish worker, of concurrency 1
    MaxText,      \* bound: texts
    MaxBegun,     \* bound: requests, edits and policy changes
    Policies      \* approval policies the organization switches between

\* POST publish; the reviews of publish-routes-approvals (chain) and of
\* lifecycle-queue-routes (queue); rollback; archive; unpublish; DELETE;
\* schedule-publish; DELETE scheduled-publish.
AllKinds == {"direct", "chain", "queue", "rollback", "archive", "unpublish",
             "delete", "schedule", "cancel"}

ASSUME PageAssumption ==
    /\ Pages # {}
    /\ Kinds \subseteq AllKinds
    /\ Named \subseteq Pages
    /\ Scheduler \notin Requests
    /\ MaxText \in Nat \ {0}
    /\ MaxBegun \in Nat
    /\ Policies \subseteq {"ALL_REQUIRED", "ALL_NO_APPROVAL",
                           "ANON_NO_APPROVAL", "NAMED_NO_APPROVAL"}

Procs == Requests \cup {Scheduler}
Texts == 0..MaxText

VARIABLES
    page,      \* the LandingPage rows
    versions,  \* PublishedArtifactVersion rows by versionNumber
    story,     \* Story.publishedAt is set
    job,       \* the job scheduled-publish:<page>
    policy,    \* OrgSettings.approvalPolicy
    op,        \* what the requests and the worker are doing
    begun,     \* requests, edits and policy changes so far
    broken     \* pages a publish of which failed after its first write

vars == <<page, versions, story, job, policy, op, begun, broken>>

PageTypes ==
    [status : {"DRAFT", "PUBLISHED", "ARCHIVED", "DELETED"},
     body : 1..MaxText, sub : Texts, scrubbed : Texts, scrubbedSub : Texts]

VersionTypes ==
    [status : {"ACTIVE", "SUPERSEDED", "ROLLED_BACK"},
     body : 1..MaxText, sub : Texts, from : Nat, by : Procs]

OpTypes ==
    [pc : {"idle", "read", "status", "write", "syncRead", "syncWrite",
           "version", "lock", "commit", "clear", "add", "delete", "cascade"},
     kind : AllKinds \cup {"scheduled"},
     page : Pages, body : Texts, sub : Texts, from : Nat, shown : BOOLEAN,
     snap : SUBSET (Nat \ {0}), locked : SUBSET (Nat \ {0})]

JobTypes == [state : {"none", "delayed", "active"}, tries : 0..1]

TypeOK ==
    /\ page \in [Pages -> PageTypes]
    /\ versions \in [Pages -> Seq(VersionTypes)]
    /\ story \in BOOLEAN
    /\ job \in [Pages -> JobTypes]
    /\ policy \in Policies
    /\ op \in [Procs -> OpTypes]
    /\ begun \in 0..MaxBegun
    /\ broken \subseteq Pages

SomePage == CHOOSE p \in Pages : TRUE

IdleOp ==
    [pc |-> "idle", kind |-> "direct", page |-> SomePage, body |-> 0, sub |-> 0,
     from |-> 0, shown |-> FALSE, snap |-> {}, locked |-> {}]

\* create: a draft with the story's text, without a subtitle and not scrubbed.
NewPage ==
    [status |-> "DRAFT", body |-> 1, sub |-> 0, scrubbed |-> 0,
     scrubbedSub |-> 0]

Init ==
    /\ page = [p \in Pages |-> NewPage]
    /\ versions = [p \in Pages |-> <<>>]
    /\ story = FALSE
    /\ job = [p \in Pages |-> [state |-> "none", tries |-> 0]]
    /\ policy \in Policies
    /\ op = [o \in Procs |-> IdleOp]
    /\ begun = 0 /\ broken = {}

-----------------------------------------------------------------------------
(* Helpers *)

\* requiresPublishApproval.
RequiresApproval(p) ==
    \/ policy = "ALL_REQUIRED"
    \/ policy = "ANON_NO_APPROVAL" /\ p \in Named
    \/ policy = "NAMED_NO_APPROVAL" /\ p \notin Named

Exists(p) == page[p].status # "DELETED"

\* No delete holds the page row: a version of the page may be inserted.
KeyFree(p) ==
    \A o \in Procs : ~(op[o].page = p /\ op[o].pc = "cascade")

\* Nor does a rollback, which updates it first and commits later: the row may
\* be written.
RowFree(p) ==
    /\ KeyFree(p)
    /\ \A o \in Procs : ~(/\ op[o].kind = "rollback" /\ op[o].page = p
                          /\ op[o].pc \in {"version", "lock", "commit"})

Become(o, record) == op' = [op EXCEPT ![o] = record]

Goto(o, label) ==
    Become(o, IF label = "idle" THEN IdleOp ELSE [op[o] EXCEPT !.pc = label])

\* A request arrives.
Begin(o, kind, label, p) ==
    /\ kind \in Kinds
    /\ op[o].pc = "idle"
    /\ begun < MaxBegun
    /\ begun' = begun + 1
    /\ Become(o, [IdleOp EXCEPT !.kind = kind, !.pc = label, !.page = p])

ActiveRows(p) == {i \in 1..Len(versions[p]) : versions[p][i].status = "ACTIVE"}

-----------------------------------------------------------------------------
(* Edits, settings and the beginning of requests *)

\* editor.update without a conflict: the fields the request names are written.
EditPage(p, b, s) ==
    /\ begun < MaxBegun
    /\ Exists(p) /\ RowFree(p)
    /\ <<b, s>> # <<page[p].body, page[p].sub>>
    /\ page' = [page EXCEPT ![p] = [page[p] EXCEPT !.body = b, !.sub = s]]
    /\ begun' = begun + 1
    /\ UNCHANGED <<versions, story, job, policy, op, broken>>

\* An administrator changes the approval policy.
SetPolicy(new) ==
    /\ begun < MaxBegun
    /\ policy # new
    /\ policy' = new
    /\ begun' = begun + 1
    /\ UNCHANGED <<page, versions, story, job, op, broken>>

\* POST publish, when no approval is required (else a request for approval is
\* created), and the reviews that approve such a request.
BeginPublish(o, p, kind) ==
    /\ kind = "direct" => ~RequiresApproval(p)
    /\ Exists(p)
    /\ Begin(o, kind, "read", p)
    /\ UNCHANGED <<page, versions, story, job, policy, broken>>

\* The other requests.
BeginOther(o, p, kind) ==
    /\ Exists(p)
    /\ kind = "schedule" => ~RequiresApproval(p)
    /\ Begin(o, kind, IF kind \in {"archive", "unpublish"} THEN "write" ELSE "clear", p)
    /\ UNCHANGED <<page, versions, story, job, policy, broken>>

\* rollbackLandingPageToVersion finds the version and updates the page row; the
\* row stays locked until the transaction commits.
BeginRollback(o, p, v) ==
    /\ Exists(p) /\ RowFree(p)
    /\ v \in 1..Len(versions[p])
    /\ "rollback" \in Kinds
    /\ op[o].pc = "idle"
    /\ begun < MaxBegun
    /\ begun' = begun + 1
    /\ Become(o, [IdleOp EXCEPT !.kind = "rollback", !.pc = "version", !.page = p,
                                !.body = versions[p][v].body,
                                !.sub = versions[p][v].sub, !.from = v])
    /\ UNCHANGED <<page, versions, story, job, policy, broken>>

-----------------------------------------------------------------------------
(* publish *)

Publishing(o) == op[o].kind \in {"direct", "chain", "queue", "scheduled"}

\* publish reads the page; validation and scrubbing work on what it read.
ReadPage(o) ==
    LET p == op[o].page
    IN /\ op[o].pc = "read"
       /\ Exists(p)
       /\ Become(o, [op[o] EXCEPT !.pc = "write", !.body = page[p].body,
                                  !.sub = page[p].sub])
       /\ UNCHANGED <<page, versions, story, job, policy, begun, broken>>

\* Fault: the scrubbed texts are stored after the page is published.
WritePublishedBare(o) ==
    LET p == op[o].page
    IN /\ op[o].pc = "write" /\ Publishing(o)
       /\ Exists(p) /\ RowFree(p)
       /\ page' = [page EXCEPT ![p] =
                     [page[p] EXCEPT !.status = "PUBLISHED"]]
       /\ Goto(o, "syncRead")
       /\ UNCHANGED <<versions, story, job, policy, begun, broken>>

\* The scrubbed texts (of a named page: the texts themselves) and the status.
WritePublished(o) ==
    LET p == op[o].page
    IN /\ op[o].pc = "write" /\ Publishing(o)
       /\ Exists(p) /\ RowFree(p)
       /\ page' = [page EXCEPT ![p] =
                     [page[p] EXCEPT !.status = "PUBLISHED",
                                     !.scrubbed = op[o].body,
                                     !.scrubbedSub = op[o].sub]]
       /\ Goto(o, "syncRead")
       /\ UNCHANGED <<versions, story, job, policy, begun, broken>>

\* archive and unpublish.
WriteHidden(o) ==
    LET p == op[o].page
    IN /\ op[o].pc = "write" /\ ~Publishing(o)
       /\ Exists(p) /\ RowFree(p)
       /\ page' = [page EXCEPT ![p] =
                     [page[p] EXCEPT !.status =
                        IF op[o].kind = "archive" THEN "ARCHIVED" ELSE "DRAFT"]]
       /\ Goto(o, "syncRead")
       /\ UNCHANGED <<versions, story, job, policy, begun, broken>>

\* syncStoryPublishedAtFromLandingPages looks for a published page ...
SyncRead(o) ==
    /\ op[o].pc = "syncRead"
    /\ Become(o, [op[o] EXCEPT !.pc = "syncWrite",
                       !.shown = \E p \in Pages : page[p].status = "PUBLISHED"])
    /\ UNCHANGED <<page, versions, story, job, policy, begun, broken>>

\* Fault: a publish ends here.
AfterSyncEarly(o) ==
    IF Publishing(o) \/ op[o].kind = "delete" THEN "idle" ELSE "clear"

\* What follows.
AfterSync(o) ==
    CASE Publishing(o) -> "version"
      [] op[o].kind = "delete" -> "idle"
      [] OTHER -> "clear"

\* ... and sets or clears the date of the story.
SyncWrite(o) ==
    /\ op[o].pc = "syncWrite"
    /\ story' = op[o].shown
    /\ Goto(o, AfterSync(o))
    /\ UNCHANGED <<page, versions, job, policy, begun, broken>>

\* publish and delete go on when the synchronisation fails.
SyncError(o) ==
    /\ op[o].pc \in {"syncRead", "syncWrite"}
    /\ Publishing(o) \/ op[o].kind = "delete"
    /\ Goto(o, AfterSync(o))
    /\ UNCHANGED <<page, versions, story, job, policy, begun, broken>>

-----------------------------------------------------------------------------
(* Version transactions: createArtifactVersion, and the end of a rollback *)

\* createArtifactVersion reads the page; then the updateMany of either
\* transaction selects the ACTIVE rows of its snapshot ...
SelectRows(o) ==
    LET p == op[o].page
    IN /\ op[o].pc = "version"
       /\ Exists(p)
       /\ Become(o, IF op[o].kind = "rollback"
                      THEN [op[o] EXCEPT !.pc = "lock", !.snap = ActiveRows(p)]
                      ELSE [op[o] EXCEPT !.pc = "lock", !.snap = ActiveRows(p),
                                         !.body = page[p].body, !.sub = page[p].sub])
       /\ UNCHANGED <<page, versions, story, job, policy, begun, broken>>

\* Fault: every ACTIVE row there is now is locked but one.
LockRowsPartly(o) ==
    LET p == op[o].page
        rows == op[o].snap \cap ActiveRows(p)
    IN /\ op[o].pc = "lock"
       /\ Exists(p)
       /\ \A q \in Procs \ {o} : op[q].page = p => op[q].locked \cap rows = {}
       /\ Become(o, [op[o] EXCEPT !.pc = "commit", !.snap = {},
                                  !.locked = rows \ {Len(versions[p])}])
       /\ UNCHANGED <<page, versions, story, job, policy, begun, broken>>

\* ... and locks them as soon as no other transaction holds one of them; rows
\* that are not ACTIVE any more are skipped.
LockRows(o) ==
    LET p == op[o].page
        rows == op[o].snap \cap ActiveRows(p)
    IN /\ op[o].pc = "lock"
       /\ Exists(p)
       /\ \A q \in Procs \ {o} : op[q].page = p => op[q].locked \cap rows = {}
       /\ Become(o, [op[o] EXCEPT !.pc = "commit", !.snap = {}, !.locked = rows])
       /\ UNCHANGED <<page, versions, story, job, policy, begun, broken>>

\* The status the rows a transaction replaces are given.
Replaced(o) == IF op[o].kind = "rollback" THEN "ROLLED_BACK" ELSE "SUPERSEDED"

NewVersion(o) ==
    [status |-> "ACTIVE", body |-> op[o].body, sub |-> op[o].sub,
     from |-> op[o].from, by |-> o]

\* The version rows of the page, those in S with the status st.
Marked(p, S, st) ==
    [i \in 1..Len(versions[p]) |->
        IF i \in S THEN [versions[p][i] EXCEPT !.status = st] ELSE versions[p][i]]

\* What remains of the request once the version is there.
AfterVersion(o) == IF op[o].kind \in {"direct", "chain"} THEN "clear" ELSE "idle"

\* Fault: the new row is created first, so it is among those replaced.
CommitVersionFirst(o) ==
    LET p == op[o].page
    IN /\ op[o].pc = "commit" /\ Publishing(o)
       /\ Exists(p) /\ KeyFree(p)
       /\ versions' = [versions EXCEPT ![p] =
                         Append(Marked(p, op[o].locked, Replaced(o)),
                                [NewVersion(o) EXCEPT !.status = Replaced(o)])]
       /\ job' = IF op[o].kind = "scheduled"
                   THEN [job EXCEPT ![p] = [state |-> "none", tries |-> 0]] ELSE job
       /\ Goto(o, AfterVersion(o))
       /\ UNCHANGED <<page, story, policy, begun, broken>>

\* Fault: the transaction also updates the page row, after the version rows.
CommitVersionTouchesPage(o) ==
    LET p == op[o].page
    IN /\ op[o].pc = "commit" /\ Publishing(o)
       /\ Exists(p) /\ RowFree(p)
       /\ versions' = [versions EXCEPT ![p] =
                         Append(Marked(p, op[o].locked, Replaced(o)), NewVersion(o))]
       /\ job' = IF op[o].kind = "scheduled"
                   THEN [job EXCEPT ![p] = [state |-> "none", tries |-> 0]] ELSE job
       /\ Goto(o, AfterVersion(o))
       /\ UNCHANGED <<page, story, policy, begun, broken>>

\* createArtifactVersion: the next number after the largest, inserted unless a
\* delete holds the page row, then the commit.  With this a scheduled job is
\* completed.
CommitVersion(o) ==
    LET p == op[o].page
    IN /\ op[o].pc = "commit" /\ Publishing(o)
       /\ Exists(p) /\ KeyFree(p)
       /\ versions' = [versions EXCEPT ![p] =
                         Append(Marked(p, op[o].locked, Replaced(o)), NewVersion(o))]
       /\ job' = IF op[o].kind = "scheduled"
                   THEN [job EXCEPT ![p] = [state |-> "none", tries |-> 0]] ELSE job
       /\ Goto(o, AfterVersion(o))
       /\ UNCHANGED <<page, story, policy, begun, broken>>

\* The rollback commits: the texts of the old version become those of the page,
\* which is published; the scrubbed texts are left alone.
CommitRollback(o) ==
    LET p == op[o].page
    IN /\ op[o].pc = "commit" /\ op[o].kind = "rollback"
       /\ Exists(p)
       /\ page' = [page EXCEPT ![p] =
                     [page[p] EXCEPT !.status = "PUBLISHED",
                                     !.body = op[o].body, !.sub = op[o].sub]]
       /\ versions' = [versions EXCEPT ![p] =
                         Append(Marked(p, op[o].locked, Replaced(o)), NewVersion(o))]
       /\ Goto(o, "idle")
       /\ UNCHANGED <<story, job, policy, begun, broken>>

-----------------------------------------------------------------------------
(* Scheduled publish, delete, failures *)

\* clearScheduledPublish removes the job.  An active job cannot be removed: the
\* request then fails.
ClearScheduled(o) ==
    LET p == op[o].page
    IN /\ op[o].pc = "clear"
       /\ job[p].state # "active"
       /\ job' = [job EXCEPT ![p] = [state |-> "none", tries |-> 0]]
       /\ Goto(o, CASE op[o].kind = "delete" -> "delete"
                    [] op[o].kind = "schedule" -> "add"
                    [] OTHER -> "idle")
       /\ UNCHANGED <<page, versions, story, policy, begun, broken>>

\* schedule-publish adds a delayed job, unless there is one with this id again.
AddScheduled(o) ==
    LET p == op[o].page
    IN /\ op[o].pc = "add"
       /\ job' = IF job[p].state = "none"
                   THEN [job EXCEPT ![p] = [state |-> "delayed", tries |-> 0]]
                   ELSE job
       /\ Goto(o, "idle")
       /\ UNCHANGED <<page, versions, story, policy, begun, broken>>

\* DELETE locks the page row ...
LockPage(o) ==
    LET p == op[o].page
    IN /\ op[o].pc = "delete"
       /\ Exists(p) /\ RowFree(p)
       /\ Goto(o, "cascade")
       /\ UNCHANGED <<page, versions, story, job, policy, begun, broken>>

\* ... and takes the version rows with it, once no transaction holds any.
DeletePage(o) ==
    LET p == op[o].page
    IN /\ op[o].pc = "cascade"
       /\ Exists(p)
       /\ \A q \in Procs : op[q].page = p => op[q].locked = {}
       /\ page' = [page EXCEPT ![p] = [page[p] EXCEPT !.status = "DELETED"]]
       /\ versions' = [versions EXCEPT ![p] = <<>>]
       /\ Goto(o, "syncRead")
       /\ UNCHANGED <<story, job, policy, begun, broken>>

\* The time of a scheduled publish has come.
FireScheduled(p) ==
    /\ op[Scheduler].pc = "idle"
    /\ job[p].state = "delayed"
    /\ job' = [job EXCEPT ![p] = [job[p] EXCEPT !.state = "active"]]
    /\ Become(Scheduler, [IdleOp EXCEPT !.kind = "scheduled", !.pc = "status", !.page = p])
    /\ UNCHANGED <<page, versions, story, policy, begun, broken>>

\* ScheduledPagePublishService.run: a page that is gone or published already
\* completes the job; else the page is published.
CheckScheduled ==
    LET p == op[Scheduler].page
        skip == page[p].status \in {"PUBLISHED", "DELETED"}
    IN /\ op[Scheduler].pc = "status"
       /\ job' = IF skip THEN [job EXCEPT ![p] = [state |-> "none", tries |-> 0]]
                         ELSE job
       /\ Goto(Scheduler, IF skip THEN "idle" ELSE "read")
       /\ UNCHANGED <<page, versions, story, policy, begun, broken>>

\* Fault: a failed scheduled job is tried again without counting.
FailOpUncounted(o) ==
    LET p == op[o].page
    IN /\ op[o].pc # "idle"
       /\ job' = IF op[o].kind = "scheduled"
                   THEN [job EXCEPT ![p] = [state |-> "delayed", tries |-> 0]]
                   ELSE job
       /\ Goto(o, "idle")
       /\ UNCHANGED <<page, versions, story, policy, begun, broken>>

\* Any step can fail (validation, a leaked name, a database error, a unique
\* violation of the version number, a deadlock, a crash): a request ends there and an open
\* transaction is undone.  A scheduled job is tried a second time.
FailOp(o) ==
    LET p == op[o].page
        again == job[p].tries = 0
    IN /\ op[o].pc # "idle"
       /\ broken' = IF op[o].pc \in {"syncRead", "syncWrite", "version", "lock", "commit"}
                       /\ Publishing(o)
                      THEN broken \cup {p} ELSE broken
       /\ job' = IF op[o].kind = "scheduled"
                   THEN [job EXCEPT ![p] =
                           [state |-> IF again THEN "delayed" ELSE "none",
                            tries |-> IF again THEN 1 ELSE 0]]
                   ELSE job
       /\ Goto(o, "idle")
       /\ UNCHANGED <<page, versions, story, policy, begun>>

-----------------------------------------------------------------------------
Arrive ==
    \/ \E p \in Pages, b \in 1..MaxText, s \in Texts : EditPage(p, b, s)
    \/ \E new \in Policies : SetPolicy(new)
    \/ \E o \in Requests, p \in Pages :
         \/ \E kind \in {"direct", "chain", "queue"} : BeginPublish(o, p, kind)
         \/ \E kind \in {"archive", "unpublish", "delete", "schedule", "cancel"} :
              BeginOther(o, p, kind)
         \/ \E v \in 1..Len(versions[p]) : BeginRollback(o, p, v)
    \/ \E p \in Pages : FireScheduled(p)

Progress(o) ==
    \/ ReadPage(o) \/ WritePublished(o) \/ WriteHidden(o)
    \/ SyncRead(o) \/ SyncWrite(o)
    \/ SelectRows(o) \/ LockRows(o) \/ CommitVersion(o) \/ CommitRollback(o)
    \/ ClearScheduled(o) \/ AddScheduled(o) \/ LockPage(o) \/ DeletePage(o)
    \/ o = Scheduler /\ CheckScheduled

OpStep(o) == Progress(o) \/ SyncError(o) \/ FailOp(o)

\* Nothing is going on; further requests may never come.
Quiet ==
    /\ \A o \in Procs : op[o].pc = "idle"
    /\ \A p \in Pages : job[p].state = "none"
    /\ UNCHANGED vars

Next == Arrive \/ (\E o \in Procs : OpStep(o)) \/ Quiet

Spec == Init /\ [][Next]_vars

\* The step cannot succeed: the page is gone or the job is active.
Doomed(o) ==
    \/ ~Exists(op[o].page)
    \/ op[o].pc = "clear" /\ job[op[o].page].state = "active"

\* The delete d holds the page row and waits for a version row of t, which
\* waits for the page row to insert its version.
Crossed(d, t) ==
    /\ op[d].pc = "cascade"
    /\ op[t].pc = "commit" /\ op[t].page = op[d].page /\ op[t].locked # {}

Deadlocked(o) == \E q \in Procs : Crossed(o, q) \/ Crossed(q, o)

\* Handlers and the worker go on once started.  Nothing need fail by itself,
\* except that the database ends the deadlock of a delete and a version
\* transaction; it is given no other cycle to end.
Fairness ==
    /\ \A o \in Procs :
         WF_vars(Progress(o) \/ ((Doomed(o) \/ Deadlocked(o)) /\ FailOp(o)))
    /\ \A p \in Pages : SF_vars(FireScheduled(p))

FairSpec == Spec /\ Fairness

-----------------------------------------------------------------------------
(* Properties *)

Settled(p) == \A o \in Procs : op[o].pc = "idle" \/ op[o].page # p

\* getPublicBySlug serves an anonymous page from its scrubbed body and falls
\* back to the original when there is none: whatever publishes, rolls back or
\* fails, a published anonymous page has a scrubbed body.
PublicBodyIsScrubbed ==
    \A p \in Pages \ Named : page[p].status = "PUBLISHED" => page[p].scrubbed # 0

\* The version with the highest number is ACTIVE, however the version
\* transactions of concurrent publishes and rollbacks interleave: it is the one
\* the post-publish validation reads and annotates.
NewestVersionActive ==
    \A p \in Pages :
        versions[p] # <<>> => versions[p][Len(versions[p])].status = "ACTIVE"

\* Two versions are ACTIVE together only if their transactions ran at the same
\* time: a request that follows another one replaces its version.
ActiveTogetherOverlapped ==
    \A p \in Pages : \A i, k \in ActiveRows(p) :
        versions[p][i].by = versions[p][k].by => i = k

\* A published page has a version in its history, unless a publish failed after
\* the page was written (a retried job then finds it published and ends).
PublishedHasVersion ==
    \A p \in Pages :
        (page[p].status = "PUBLISHED" /\ Settled(p) /\ p \notin broken)
            => versions[p] # <<>>

\* Every request ends: the page row locks of rollbacks and deletes and the
\* version row locks form no cycle but that of a delete, which waits for the
\* version rows of a transaction, with that transaction, whose insert waits for
\* the page row (deleteLandingPage, createArtifactVersion); PostgreSQL aborts
\* one of the two.
RequestsEnd == \A o \in Procs : (op[o].pc # "idle") ~> (op[o].pc = "idle")

\* A scheduled publish is carried out or given up: the job leaves the queue.
ScheduledSettles == \A p \in Pages : (job[p].state # "none") ~> (job[p].state = "none")
=============================================================================
