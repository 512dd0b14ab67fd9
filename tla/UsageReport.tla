---------------------------- MODULE UsageReport ----------------------------
(***************************************************************************)
(* The daily usage report of the organisation, beside its subscriptions:   *)
(* every process that starts the queues schedules it, and it can be called *)
(* for a day by hand.  One day is followed.                                *)
(*                                                                         *)
(* src/services/usage-reporter.ts  runDailyUsageReport                     *)
(* src/middleware/billing.ts       reportUsageToStripe                     *)
(***************************************************************************)
EXTENDS Billing, Sequences

CONSTANTS
    Reporter,   \* runs of the report that may be in progress at once
    MaxMinutes  \* bound: minutes of the day

ASSUME ReportAssumption == MaxMinutes \in Nat \ {0}

VARIABLES
    minutes,    \* minutes of the day's calls that have a transcript
    records,    \* the UsageRecord rows of the day, in the order of creation
    billed,     \* external: usage records at Stripe, minutes of each
    reporter,   \* what each run is doing
    unmarked,   \* history: runs that billed and did not mark the row
    together    \* history: two runs of the day were in progress at once

reportVars == <<minutes, records, billed, reporter, unmarked, together>>
vars == <<billingVars, reportVars>>

ReporterTypes ==
    [pc : {"idle", "find", "create", "update", "send", "mark"},
     minutes : 0..MaxMinutes, record : Nat]

(***************************************************************************)
(* Types of the rows and of the runs.                                      *)
(***************************************************************************)
ReportTypeOK ==
    /\ TypeOK
    /\ minutes \in 0..MaxMinutes
    /\ records \in Seq([minutes : 0..MaxMinutes, reported : BOOLEAN])
    /\ billed \in Seq(0..MaxMinutes)
    /\ reporter \in [Reporter -> ReporterTypes]
    /\ unmarked \in Nat
    /\ together \in BOOLEAN

Off == [pc |-> "idle", minutes |-> 0, record |-> 0]

ReportInit ==
    /\ Init
    /\ minutes = 1 /\ records = <<>> /\ billed = <<>>
    /\ reporter = [r \in Reporter |-> Off]
    /\ unmarked = 0 /\ together = FALSE

Unbilled == UNCHANGED <<now, stripeVars, orgVars, marked, handler, buyer,
                        doubt, raced, overlooked, crossed>>

\* A call of the day gets its transcript after the day is over.
LateTranscript ==
    /\ minutes < MaxMinutes /\ Count
    /\ minutes' = minutes + 1
    /\ Unbilled /\ UNCHANGED <<records, billed, reporter, unmarked, together>>

\* A run begins: the day's calls are added up.
Aggregate(r) ==
    /\ reporter[r].pc = "idle" /\ Count
    /\ reporter' = [reporter EXCEPT ![r] = [pc |-> "find", minutes |-> minutes,
                                            record |-> 0]]
    /\ together' = (together \/ \E q \in Reporter : reporter[q].pc # "idle")
    /\ Unbilled /\ UNCHANGED <<minutes, records, billed, unmarked>>

\* The row of the day, if there is one; of several rows, any.
FindRecord(r) ==
    /\ reporter[r].pc = "find"
    /\ IF records = <<>>
       THEN reporter' = [reporter EXCEPT ![r].pc = "create"]
       ELSE \E i \in DOMAIN records :
              reporter' = [reporter EXCEPT ![r].pc = "update", ![r].record = i]
    /\ Unbilled
    /\ UNCHANGED <<begun, minutes, records, billed, unmarked, together>>

CreateRecord(r) ==
    /\ reporter[r].pc = "create"
    /\ records' = Append(records, [minutes |-> reporter[r].minutes,
                                   reported |-> FALSE])
    /\ reporter' = [reporter EXCEPT ![r].pc = "send",
                                    ![r].record = Len(records) + 1]
    /\ Unbilled /\ UNCHANGED <<begun, minutes, billed, unmarked, together>>

\* Fault: the row is written anew, as not yet reported.
AfterUpdateAnew(r) == [pc |-> "send", record |-> reporter[r].record,
                       minutes |-> reporter[r].minutes]

\* The updated row says whether it was reported.
AfterUpdate(r) ==
    IF records[reporter[r].record].reported THEN Off
    ELSE [pc |-> "send", record |-> reporter[r].record,
          minutes |-> reporter[r].minutes]

UpdateRecord(r) ==
    /\ reporter[r].pc = "update"
    /\ records' = [records EXCEPT ![reporter[r].record].minutes =
                                     reporter[r].minutes]
    /\ reporter' = [reporter EXCEPT ![r] = AfterUpdate(r)]
    /\ Unbilled /\ UNCHANGED <<begun, minutes, billed, unmarked, together>>

\* Usage goes to an active subscription of the organisation's customer.
Billable ==
    /\ customer # 0 /\ plan = "PAID"
    /\ \E s \in Sub : /\ stripe[s].status = "active"
                      /\ stripe[s].customer = customer

AfterNoSubscription(r) == [reporter EXCEPT ![r] = Off]

\* Reported, or null: the row stays as it is for another run.
SendUsage(r) ==
    /\ reporter[r].pc = "send"
    /\ IF Billable
       THEN /\ billed' = Append(billed, reporter[r].minutes)
            /\ reporter' = [reporter EXCEPT ![r].pc = "mark"]
       ELSE reporter' = AfterNoSubscription(r) /\ UNCHANGED billed
    /\ Unbilled /\ UNCHANGED <<begun, minutes, records, unmarked, together>>

MarkReported(r) ==
    /\ reporter[r].pc = "mark"
    /\ records' = [records EXCEPT ![reporter[r].record].reported = TRUE]
    /\ reporter' = [reporter EXCEPT ![r] = Off]
    /\ Unbilled /\ UNCHANGED <<begun, minutes, billed, unmarked, together>>

\* An await throws or the process dies; the answer of Stripe may be lost.  A
\* run that fails before it has written its row leaves nothing behind.
ReporterFails(r) ==
    /\ reporter[r].pc \in {"send", "mark"} /\ Count
    /\ reporter' = [reporter EXCEPT ![r] = Off]
    /\ unmarked' = unmarked + (IF reporter[r].pc = "mark" THEN 1 ELSE 0)
    /\ Unbilled /\ UNCHANGED <<minutes, records, billed, together>>

ReportStep(r) ==
    \/ Aggregate(r) \/ FindRecord(r) \/ CreateRecord(r) \/ UpdateRecord(r)
    \/ SendUsage(r) \/ MarkReported(r) \/ ReporterFails(r)

Next ==
    \/ BillingNext /\ UNCHANGED reportVars
    \/ LateTranscript
    \/ \E r \in Reporter : ReportStep(r)

Spec == ReportInit /\ [][Next]_vars

-----------------------------------------------------------------------------
(***************************************************************************)
(* Properties.                                                             *)
(***************************************************************************)
\* A day is billed once, and once more for every run that failed after
\* Stripe took its usage and before the row was marked, as long as runs of
\* the day follow one another; a late transcript never bills the day again
\* (runDailyUsageReport).
BilledOnce == ~together => Len(billed) <= 1 + unmarked

=============================================================================
