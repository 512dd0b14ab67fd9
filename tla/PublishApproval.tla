--------------------------- MODULE PublishApproval ---------------------------
(***************************************************************************)
(* Publishing a page under an approval policy, beside its editors: the     *)
(* publish request that is queued for approval, the two review routes, and *)
(* the writes of the page row that editors see as new stamps.              *)
(*                                                                         *)
(* src/api/landing-page/publish-routes.ts            POST publish          *)
(* src/api/landing-page/publish-routes-approvals.ts  review                *)
(* src/api/lifecycle-queue-routes.ts                 review from the queue *)
(* src/services/lifecycle-stage*.ts                  the stage shown       *)
(*                                                                         *)
(* Requests are created with an empty list of steps, so one approval is    *)
(* enough and every reviewer is eligible: the chain's step logic never     *)
(* applies.  editor.publish is two steps here, the write of the page row   *)
(* and its version; LandingPage has its transactions.                      *)
(***************************************************************************)
EXTENDS PageEditing

CONSTANT
    Handlers    \* publish and review requests in progress at once

VARIABLES
    approval,   \* ApprovalRequest rows of the page, in creation order
    versions,   \* PublishedArtifactVersion rows of the page
    required,   \* the policy asks for approval of this page
    op,         \* what each handler is doing
    settled     \* history: rows decided with no review of them in progress

approvalVars == <<approval, versions, required, op, settled>>
vars == <<editVars, approvalVars>>

Row == Nat \ {0}

OpTypes == [pc : {"idle", "find", "create", "publish", "version", "mark",
                  "reject"},
            row : Nat]

ApprovalTypes ==
    [status : {"PENDING", "APPROVED", "REJECTED"}, by : Handlers]

VersionTypes == [body : Text, row : Nat]

NoOp == [pc |-> "idle", row |-> 0]

(***************************************************************************)
(* Types of the rows and of the requests in progress, with those of the    *)
(* editors.                                                                *)
(***************************************************************************)
TypeOK ==
    /\ EditTypeOK
    /\ approval \in Seq(ApprovalTypes)
    /\ versions \in Seq(VersionTypes)
    /\ required \in BOOLEAN
    /\ op \in [Handlers -> OpTypes]
    /\ settled \subseteq Row

Init ==
    /\ EditInit
    /\ approval = <<>>
    /\ versions = <<>>
    /\ required \in BOOLEAN
    /\ op = [h \in Handlers |-> NoOp]
    /\ settled = {}

Rows == DOMAIN approval
Pending == {i \in Rows : approval[i].status = "PENDING"}

\* Reviews that read row i and have not ended.
InReview(i) == {h \in Handlers : op[h].row = i}

-----------------------------------------------------------------------------
Editors == <<ed, req, edits, typed, accepted, shown, late, gone>>

Count == begun < MaxBegun /\ begun' = begun + 1

Begin(h, pc, row) ==
    /\ op[h].pc = "idle"
    /\ Count
    /\ op' = [op EXCEPT ![h] = [pc |-> pc, row |-> row]]

Step(h, from, to) ==
    /\ op[h].pc = from
    /\ op' = [op EXCEPT ![h] = IF to = "idle" THEN NoOp ELSE [@ EXCEPT !.pc = to]]

\* The page row gets a new updatedAt.
WritePage(row) ==
    /\ page.stamp < MaxStamp
    /\ page' = [row EXCEPT !.stamp = page.stamp + 1]

\* POST publish: the policy decides between publishing and asking.
BeginPublish(h) ==
    /\ Begin(h, IF required THEN "find" ELSE "publish", 0)
    /\ UNCHANGED <<page, Editors, approval, versions, required>>

\* Fault: an open request does not stop another.
FindPendingIgnored(h) ==
    /\ Step(h, "find", "create")
    /\ UNCHANGED <<editVars, approval, versions, required>>

FindPending(h) ==
    /\ Step(h, "find", IF Pending = {} THEN "create" ELSE "idle")
    /\ UNCHANGED <<editVars, approval, versions, required>>

CreateRequest(h) ==
    /\ Step(h, "create", "idle")
    /\ approval' = Append(approval, [status |-> "PENDING", by |-> h])
    /\ UNCHANGED <<editVars, versions, required>>

\* A review reads the request; a finalized one is answered 409.
\* Fault: finalized requests can be reviewed again.
ReviewableAlways(i) == TRUE

Reviewable(i) == approval[i].status = "PENDING"

ReviewChain(h, i) ==
    /\ Reviewable(i)
    /\ \/ Begin(h, "reject", i)
       \/ Begin(h, "publish", i)
    /\ UNCHANGED <<page, Editors, approval, versions, required>>

\* The queue's route: no check of expiry or of named stories before it
\* publishes (such a refusal in the chain is a FailOp here).
ReviewQueue(h, i) ==
    /\ Reviewable(i)
    /\ \/ Begin(h, "reject", i)
       \/ Begin(h, "publish", i)
    /\ UNCHANGED <<page, Editors, approval, versions, required>>

Decide(i, status) == approval' = [approval EXCEPT ![i].status = status]

Reject(h) ==
    /\ Step(h, "reject", "idle")
    /\ Decide(op[h].row, "REJECTED")
    /\ UNCHANGED <<editVars, versions, required>>

\* editor.publish, first the page row.
\* Fault: the decision is written before the version.
PublishPageMarks(h) ==
    /\ Step(h, "publish", IF op[h].row = 0 THEN "version" ELSE "mark")
    /\ WritePage([page EXCEPT !.status = "PUBLISHED", !.dated = TRUE])
    /\ UNCHANGED <<Editors, begun, approval, versions, required>>

PublishPage(h) ==
    /\ Step(h, "publish", "version")
    /\ WritePage([page EXCEPT !.status = "PUBLISHED", !.dated = TRUE])
    /\ UNCHANGED <<Editors, begun, approval, versions, required>>

\* Then the version, with the text the row holds by now.
CreateVersion(h) ==
    /\ Step(h, "version", IF op[h].row = 0 THEN "idle" ELSE "mark")
    /\ versions' = Append(versions, [body |-> page.body, row |-> op[h].row])
    /\ UNCHANGED <<editVars, approval, required>>

\* Last, the review writes its decision.
MarkApproved(h) ==
    /\ Step(h, "mark", "idle")
    /\ Decide(op[h].row, "APPROVED")
    /\ UNCHANGED <<editVars, versions, required>>

\* Any statement may fail; what was written stays.
FailOp(h) ==
    /\ op[h].pc # "idle"
    /\ Step(h, op[h].pc, "idle")
    /\ UNCHANGED <<editVars, approval, versions, required>>

\* Rollback to version v, one transaction.
Rollback(v) ==
    /\ Count
    /\ WritePage([page EXCEPT !.body = versions[v].body,
                              !.status = "PUBLISHED", !.dated = TRUE])
    /\ versions' = Append(versions, [body |-> versions[v].body, row |-> 0])
    /\ UNCHANGED <<Editors, approval, required, op>>

\* Unpublish forgets publishedAt, archive keeps it.
Unpublish ==
    /\ page.status # "DRAFT"
    /\ Count
    /\ WritePage([page EXCEPT !.status = "DRAFT", !.dated = FALSE])
    /\ UNCHANGED <<Editors, approval, versions, required, op>>

Archive ==
    /\ page.status # "ARCHIVED"
    /\ Count
    /\ WritePage([page EXCEPT !.status = "ARCHIVED"])
    /\ UNCHANGED <<Editors, approval, versions, required, op>>

\* An administrator changes the approval policy.
SetPolicy ==
    /\ Count
    /\ required' = ~required
    /\ UNCHANGED <<page, Editors, approval, versions, op>>

\* The stage shown: publishedAt first, then the latest request.
LatestStatus == IF approval = <<>> THEN "NONE" ELSE approval[Len(approval)].status

LifecycleStage(dated, status) ==
    CASE dated -> "PUBLISHED"
      [] ~dated /\ status = "PENDING" -> "IN_REVIEW"
      [] ~dated /\ status = "APPROVED" -> "APPROVED"
      [] OTHER -> "DRAFT"

\* The content queue leaves archived pages out.
ContentQueue ==
    IF page.status = "ARCHIVED" THEN {}
    ELSE {LifecycleStage(page.dated, LatestStatus)}

Settling ==
    settled' = settled \cup {i \in Rows' : /\ approval'[i].status # "PENDING"
                                          /\ InReview(i)' = {}}

ApprovalStep ==
    \/ \E h \in Handlers :
        \/ BeginPublish(h) \/ FindPending(h) \/ CreateRequest(h)
        \/ \E i \in Rows : ReviewChain(h, i) \/ ReviewQueue(h, i)
        \/ Reject(h) \/ PublishPage(h) \/ CreateVersion(h) \/ MarkApproved(h)
        \/ FailOp(h)
    \/ \E v \in DOMAIN versions : Rollback(v)
    \/ Unpublish \/ Archive \/ SetPolicy

Next ==
    \/ ApprovalStep /\ Settling
    \/ EditNext /\ UNCHANGED approvalVars

Spec == Init /\ [][Next]_vars

-----------------------------------------------------------------------------
(***************************************************************************)
(* A request marked APPROVED has published a version of the page: both     *)
(* review routes publish before they write the decision.                   *)
(***************************************************************************)
ApprovedHasVersion ==
    \A i \in Rows : approval[i].status = "APPROVED" =>
        \E v \in DOMAIN versions : versions[v].row = i

(***************************************************************************)
(* A decision stands once the reviews that overlapped it have ended: only  *)
(* they may still change a finalized request, the last write winning.      *)
(***************************************************************************)
DecisionStands ==
    [][\A i \in settled : approval'[i] = approval[i]]_vars

(***************************************************************************)
(* The queue shows an unpublished page with a pending request as           *)
(* IN_REVIEW.  It can show another stage only when a later request of an   *)
(* overlapping publish hides the pending one: both handlers looked for an  *)
(* open request before either created its own.                             *)
(***************************************************************************)
PendingIsShown ==
    \A i \in Pending :
        ~page.dated /\ page.status # "ARCHIVED" /\ ContentQueue # {"IN_REVIEW"} =>
        \E j \in Rows : j > i /\ approval[j].by # approval[i].by
=============================================================================
