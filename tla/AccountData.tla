---------------------------- MODULE AccountData ----------------------------
(***************************************************************************)
(* The accounts of one organisation and the calls linked to them: the      *)
(* automatic and the manual resolution of calls, the two merges, the undo  *)
(* of a merge, merge requests and their review, and the CRM syncs that     *)
(* create accounts and change their domains, all of which run side by      *)
(* side on one database (READ COMMITTED, row locks, foreign keys).         *)
(*                                                                         *)
(* src/services/account-merge.ts            merge, undo, requests          *)
(* src/api/account-merge-routes.ts          their routes                   *)
(* src/services/entity-resolution.ts        automatic resolution           *)
(* src/services/entity-resolution-queue.ts  manual resolution, merge       *)
(* src/integrations/sync-engine-crm.ts      CRM sync                       *)
(* src/services/merge-api-client.ts         Merge.dev polling              *)
(*                                                                         *)
(* Contacts, stories, events and grants move with a merge as calls do and  *)
(* are left out, as are names: what they decide (a match by contact or by  *)
(* name, a statement that fails) is a free choice.  0 is null.             *)
(***************************************************************************)
EXTENDS Naturals, Sequences, FiniteSets, FiniteSetsExt

CONSTANTS
    Account,        \* account ids, created or to be created: 1..n
    Domain,         \* e-mail domains: 1..n
    Call,           \* ingested calls
    CallDomain,     \* the participants' domain of each call
    CrmKnown,       \* the account the CRM knows at first, or 0
    Handler,        \* requests and jobs being served
    MaxBegun        \* bound: requests and jobs

ASSUME AccountAssumption ==
    /\ IsFiniteSet(Account)
    /\ Account = 1..Cardinality(Account)
    /\ Domain \subseteq Nat \ {0}
    /\ CallDomain \in [Call -> Domain]
    /\ CrmKnown \in Account \cup {0}
    /\ MaxBegun \in Nat

VARIABLES
    acct,       \* the Account rows: status, domain, CRM id (1 or null)
    alias,      \* the AccountDomain rows
    call,       \* of each Call row: account, match method, dismissedAt
    runs,       \* AccountMergeRun rows, in creation order
    request,    \* the ACCOUNT_MERGE approval request, when there is one
    proc,       \* what each handler is doing
    begun,      \* requests and jobs so far
    placed,     \* history: the account last decided on for each call
    redecided,  \* history: calls decided on again after a merge moved them, or
                \*   between a merge's reading and moving of the calls
    late,       \* history: calls put on an account whose merge had already
                \*   looked for the rows to move
    lifo        \* history: no undo ran but of the newest merge still done

vars == <<acct, alias, call, runs, request, proc, begun, placed, redecided,
          late, lifo>>

Null == 0
Accounts == Account \cup {Null}

ProcTypes ==
    [pc : {"idle", "link", "alias", "auto", "hint", "fuzzy",
           "read", "update", "take", "commit", "approve", "reject"},
     kind : {"merge", "legacy", "undo"}, reviewed : BOOLEAN,
     call : Call \cup {Null},
     a : Accounts, b : Accounts, da : Domain \cup {Null},
     db : Domain \cup {Null}, crm : BOOLEAN,
     moved : SUBSET Call, snap : Domain \cup {Null},
     taken : SUBSET Call, run : Nat, create : BOOLEAN]

(***************************************************************************)
(* Types of the rows; a call refers to a live account (foreign key), and   *)
(* no two live accounts have one domain or one CRM id (unique indexes).    *)
(***************************************************************************)
TypeOK ==
    /\ acct \in [Account -> [status : {"fresh", "live", "deleted"},
                             domain : Domain \cup {Null}, crm : BOOLEAN]]
    /\ \A a, b \in Account :
         a # b /\ acct[a].status = "live" /\ acct[b].status = "live" =>
           /\ acct[a].domain = acct[b].domain => acct[a].domain = Null
           /\ ~(acct[a].crm /\ acct[b].crm)
    /\ alias \subseteq Account \X Domain
    /\ \A r \in alias : acct[r[1]].status = "live"
    /\ call \in [Call -> [account : Accounts,
                          method : {"NONE", "FUZZY_NAME", "MANUAL"},
                          dismissed : BOOLEAN]]
    /\ \A c \in Call :
         call[c].account # Null => acct[call[c].account].status = "live"
    /\ runs \in Seq([primary : Account, secondary : Account,
                     domain : Domain \cup {Null}, moved : SUBSET Call,
                     status : {"COMPLETED", "UNDONE"}])
    /\ request \in [status : {"none", "PENDING", "APPROVED", "REJECTED"},
                    primary : Accounts, secondary : Accounts]
    /\ proc \in [Handler -> ProcTypes]
    /\ begun \in 0..MaxBegun
    /\ placed \in [Call -> Accounts]
    /\ redecided \subseteq Call
    /\ late \subseteq Call
    /\ lifo \in BOOLEAN

Idle ==
    [pc |-> "idle", kind |-> "merge", reviewed |-> FALSE, call |-> Null,
     a |-> Null, b |-> Null, da |-> Null, db |-> Null, crm |-> FALSE,
     moved |-> {}, snap |-> Null, taken |-> {}, run |-> 0, create |-> FALSE]

\* The first accounts exist, one may be known to the CRM, and calls have been
\* linked to them by the automatic resolution, which leaves method NONE.
Init ==
    /\ \E n \in Account :
         LET live == 1..n IN
         /\ acct = [a \in Account |->
              [status |-> IF a \in live THEN "live" ELSE "fresh",
               domain |-> IF a \in live \cap Domain THEN a ELSE Null,
               crm |-> a \in live /\ a = CrmKnown]]
         /\ call \in [Call -> [account : live \cup {Null}, method : {"NONE"},
                               dismissed : {FALSE}]]
    /\ placed = [c \in Call |-> call[c].account]
    /\ alias = {}
    /\ runs = <<>>
    /\ request = [status |-> "none", primary |-> Null, secondary |-> Null]
    /\ proc = [p \in Handler |-> Idle]
    /\ begun = 0
    /\ redecided = {}
    /\ late = {}
    /\ lifo = TRUE

Count == begun < MaxBegun /\ begun' = begun + 1

Live(a) == a \in Account /\ acct[a].status = "live"
CallsAt(a) == {c \in Call : call[c].account = a}
Taken(d) == \E a \in Account : Live(a) /\ acct[a].domain = d
Owns(a, d) == (Live(a) /\ acct[a].domain = d) \/ <<a, d>> \in alias

\* Rows updated by an open transaction: other writers wait for it.
Locked(c) == \E p \in Handler : proc[p].pc = "commit" /\ c \in proc[p].taken

\* An account whose merge has looked for the calls to move, not for this one,
\* and has not yet deleted it.
Closing(a, c) ==
    \E p \in Handler : /\ proc[p].pc \in {"take", "commit"}
                       /\ proc[p].kind # "undo"
                       /\ proc[p].b = a /\ c \notin proc[p].taken

Finish(p) == proc' = [proc EXCEPT ![p] = Idle]
Goto(p, pc) == proc' = [proc EXCEPT ![p].pc = pc]

-----------------------------------------------------------------------------
(***************************************************************************)
(* Linking a call to an account, or to none.                               *)
(***************************************************************************)
MovedBy(c) == {i \in DOMAIN runs : /\ runs[i].status = "COMPLETED"
                                   /\ c \in runs[i].moved}

Decide(c, a, method) ==
    /\ ~Locked(c)
    /\ a # Null => Live(a)
    /\ call' = [call EXCEPT ![c].account = a, ![c].method = method]
    /\ placed' = [placed EXCEPT ![c] = a]
    /\ redecided' = IF MovedBy(c) = {} THEN redecided \ {c}
                                       ELSE redecided \cup {c}
    /\ late' = IF Closing(a, c) THEN late \cup {c} ELSE late \ {c}

\* resolveCall: the call and the account are looked up, the call is updated,
\* then the participants' domain becomes an alias if it is nobody's.
BeginResolve(p, c, a) ==
    /\ proc[p].pc = "idle" /\ Count
    /\ Live(a)
    /\ proc' = [proc EXCEPT ![p] = [Idle EXCEPT !.pc = "link", !.call = c,
                                    !.a = a, !.da = acct[a].domain]]
    /\ UNCHANGED <<acct, alias, call, runs, request, placed, redecided, late,
                   lifo>>

LinkManually(p) ==
    /\ proc[p].pc = "link"
    /\ Decide(proc[p].call, proc[p].a, "MANUAL")
    /\ Goto(p, "alias")
    /\ UNCHANGED <<acct, alias, runs, request, begun, lifo>>

AddAlias(p) ==
    LET d == CallDomain[proc[p].call]
        free == /\ d # proc[p].da
                /\ ~Taken(d)
                /\ \A a \in Account : <<a, d>> \notin alias
    IN  /\ proc[p].pc = "alias"
        /\ free => Live(proc[p].a)
        /\ alias' = IF free THEN alias \cup {<<proc[p].a, d>>} ELSE alias
        /\ Finish(p)
        /\ UNCHANGED <<acct, call, runs, request, begun, placed, redecided,
                       late, lifo>>

Dismiss(c) ==
    /\ Count
    /\ ~Locked(c)
    /\ ~call[c].dismissed
    /\ call' = [call EXCEPT ![c].dismissed = TRUE]
    /\ UNCHANGED <<acct, alias, runs, request, proc, placed, redecided, late,
                   lifo>>

\* A new row; an id is never given twice.
Create(a, d, crm) ==
    /\ acct[a].status = "fresh"
    /\ \A b \in Account : b < a => acct[b].status # "fresh"
    /\ d # Null => ~Taken(d)
    /\ acct' = [acct EXCEPT ![a] = [status |-> "live", domain |-> d,
                                    crm |-> crm]]

\* createAccountFromCall asks for no other account with the domain, not for
\* an alias; the call is then resolved to the new account.
CreateFromCall(p, c, a, d) ==
    /\ proc[p].pc = "idle" /\ Count
    /\ Create(a, d, FALSE)
    /\ proc' = [proc EXCEPT ![p] = [Idle EXCEPT !.pc = "link", !.call = c,
                                    !.a = a, !.da = d]]
    /\ UNCHANGED <<alias, call, runs, request, placed, redecided, late, lifo>>

\* resolve: a primary domain, else an alias, else a contact or a name.
Matches(c) ==
    LET d == CallDomain[c]
        byDomain == {a \in Account : Live(a) /\ acct[a].domain = d}
        byAlias == {a \in Account : <<a, d>> \in alias}
    IN  IF byDomain # {} THEN byDomain
        ELSE IF byAlias # {} THEN byAlias
        ELSE {a \in Account : Live(a)} \cup {Null}

\* Every delivery of a call resolves it again, whatever it is linked to.
BeginAuto(p, c) ==
    /\ proc[p].pc = "idle" /\ Count
    /\ \E a \in Matches(c) :
         proc' = [proc EXCEPT ![p] = [Idle EXCEPT !.pc = "auto", !.call = c,
                                                  !.a = a]]
    /\ UNCHANGED <<acct, alias, call, runs, request, placed, redecided, late,
                   lifo>>

\* Fault: the call is unlinked as it is.
KeepMethod(c, a) == call[c].method

\* No match unlinks the call and queues it; a match sets the account alone.
MethodAfter(c, a) == IF a = Null THEN "NONE" ELSE call[c].method

LinkAuto(p) ==
    LET c == proc[p].call
        a == proc[p].a
    IN  /\ proc[p].pc = "auto"
        /\ Decide(c, a, MethodAfter(c, a))
        /\ \/ Finish(p)
           \/ a = Null /\ Goto(p, "hint")
        /\ UNCHANGED <<acct, alias, runs, request, begun, lifo>>

\* linkCallByProviderAccountHints, for a sync that found no match: an
\* account with the hinted name, or one with the domain, or a new one.
UseHint(p) ==
    LET d == CallDomain[proc[p].call]
    IN  /\ proc[p].pc = "hint"
        /\ \E a \in Account :
             /\ \/ Live(a) /\ UNCHANGED acct
                \/ ~Taken(d) /\ Create(a, d, FALSE)
             /\ proc' = [proc EXCEPT ![p].pc = "fuzzy", ![p].a = a]
        /\ UNCHANGED <<alias, call, runs, request, begun, placed, redecided,
                       late, lifo>>

LinkByHint(p) ==
    /\ proc[p].pc = "fuzzy"
    /\ Decide(proc[p].call, proc[p].a, "FUZZY_NAME")
    /\ Finish(p)
    /\ UNCHANGED <<acct, alias, runs, request, begun, lifo>>

-----------------------------------------------------------------------------
(***************************************************************************)
(* The CRM side: the account syncs look at accounts, never at aliases.     *)
(***************************************************************************)
\* persistAccountBatch: known by its CRM id, then updated; else a conflict
\* with an account known by another id is put up for review, and a domain
\* that is taken makes createMany skip the row.
SyncCrmAccount(a, d) ==
    /\ Count
    /\ \A b \in Account : ~(Live(b) /\ acct[b].crm)
    /\ Create(a, d, TRUE)
    /\ UNCHANGED <<alias, call, runs, request, proc, placed, redecided, late,
                   lifo>>

\* The update of a known account by either sync, by its CRM or Merge id.
UpdateDomain(a, d) ==
    /\ Count
    /\ Live(a) /\ acct[a].domain # d
    /\ ~Taken(d)
    /\ acct' = [acct EXCEPT ![a].domain = d]
    /\ UNCHANGED <<alias, call, runs, request, proc, placed, redecided, late,
                   lifo>>

\* syncCRMAccounts: no account with this Merge id or this domain.
PollAccount(a, d) ==
    /\ Count
    /\ Create(a, d, FALSE)
    /\ UNCHANGED <<alias, call, runs, request, proc, placed, redecided, late,
                   lifo>>

-----------------------------------------------------------------------------
(***************************************************************************)
(* Merging account b into account a: executeMerge ("merge") and the review *)
(* queue's mergeAccounts ("legacy"), and undoing a merge of b into a       *)
(* ("undo").  Each reads what it is about, then works in one transaction   *)
(* whose effect others see at its commit: executeMerge reads the calls it  *)
(* will record, an UPDATE looks for rows and then takes them, waiting for  *)
(* those another transaction has taken.                                    *)
(***************************************************************************)
StartMerge(p, kind, a, b, reviewed) ==
    /\ proc[p].pc = "idle" /\ Count
    /\ Live(a) /\ Live(b) /\ a # b
    /\ proc' = [proc EXCEPT ![p] =
         [Idle EXCEPT !.pc = IF kind = "merge" THEN "read" ELSE "update",
                      !.kind = kind, !.reviewed = reviewed,
                      !.a = a, !.b = b, !.da = acct[a].domain,
                      !.db = acct[b].domain,
                      !.crm = ~acct[a].crm /\ acct[b].crm]]
    /\ UNCHANGED <<acct, alias, call, runs, request, placed, redecided, late,
                   lifo>>

BeginMerge(p, a, b) == StartMerge(p, "merge", a, b, FALSE)
BeginLegacyMerge(p, a, b) == StartMerge(p, "legacy", a, b, FALSE)

\* The calls found at b; the snapshot that an undo will restore.
ReadCalls(p) ==
    LET b == proc[p].b
    IN  /\ proc[p].pc = "read"
        /\ Live(proc[p].a) /\ Live(b)
        /\ proc' = [proc EXCEPT ![p].pc = "update", ![p].moved = CallsAt(b),
                                ![p].snap = acct[b].domain]
        /\ UNCHANGED <<acct, alias, call, runs, request, begun, placed,
                       redecided, late, lifo>>

\* undoMerge reads the run, and goes on unless it says UNDONE.
BeginUndo(p, i) ==
    /\ proc[p].pc = "idle" /\ Count
    /\ runs[i].status = "COMPLETED"
    /\ proc' = [proc EXCEPT ![p] =
         [Idle EXCEPT !.pc = "update", !.kind = "undo", !.a = runs[i].primary,
                      !.b = runs[i].secondary, !.moved = runs[i].moved,
                      !.run = i]]
    /\ UNCHANGED <<acct, alias, call, runs, request, placed, redecided, late,
                   lifo>>

\* Fault: an undo moves every call of the primary back.
SoughtAll(p) == CallsAt(IF proc[p].kind = "undo" THEN proc[p].a ELSE proc[p].b)

\* A merge moves whatever is at b when it updates, not what it has read; an
\* undo moves those of the recorded calls that are still at a.
Sought(p) == IF proc[p].kind = "undo" THEN CallsAt(proc[p].a) \cap proc[p].moved
                                      ELSE CallsAt(proc[p].b)

Newest(i) == /\ runs[i].status = "COMPLETED"
             /\ \A j \in DOMAIN runs : j > i => runs[j].status = "UNDONE"

InOrder(p) == lifo /\ (proc[p].kind = "undo" => Newest(proc[p].run))

\* The update looks for its rows; an undo has just looked for the secondary.
BeginUpdate(p) ==
    /\ proc[p].pc = "update"
    /\ proc' = [proc EXCEPT ![p].pc = "take", ![p].taken = Sought(p),
                            ![p].create = /\ proc[p].kind = "undo"
                                          /\ ~Live(proc[p].b)]
    /\ lifo' = InOrder(p)
    /\ UNCHANGED <<acct, alias, call, runs, request, begun, placed, redecided,
                   late>>

\* The rows that are still to be moved once nobody else has them.
TakeCalls(p) ==
    LET taken == proc[p].taken \cap Sought(p)
    IN  /\ proc[p].pc = "take"
        /\ \A c \in taken : ~Locked(c)
        /\ proc' = [proc EXCEPT ![p].pc = "commit", ![p].taken = taken]
        /\ lifo' = InOrder(p)
        /\ UNCHANGED <<acct, alias, call, runs, request, begun, placed,
                       redecided, late>>

\* b's domain and aliases become aliases of a, but for a's own domain.
MergedAliases(a, b, da, db) ==
    {d \in Domain : /\ d = db \/ <<b, d>> \in alias
                    /\ d # da}

AliasesAfter(a, b, da, db) ==
    {r \in alias : r[1] # b}
      \cup {<<a, d>> : d \in MergedAliases(a, b, da, db)}

\* The primary is given the secondary's CRM id while the secondary still
\* has it: the unique index refuses, and the merge fails.
CrmIdClash(p) == proc[p].kind = "merge" /\ proc[p].crm

\* b is deleted once no open transaction has moved a row from or to it.
Deletable(p) ==
    \A q \in Handler : /\ q # p
                       /\ proc[q].pc = "commit"
                       /\ proc[p].b \in {proc[q].a, proc[q].b}
                       => proc[q].taken = {}

\* Fault: a call that came later keeps its account.
KeepLate(c, a, b, taken) == IF c \in taken THEN a ELSE call[c].account

\* Moved calls go to the primary; calls that came later lose their account.
AccountAfter(c, a, b, taken) ==
    IF c \in taken THEN a ELSE IF call[c].account = b THEN Null
                               ELSE call[c].account

NewRun(a, b, snap, moved) ==
    [primary |-> a, secondary |-> b, domain |-> snap, moved |-> moved,
     status |-> "COMPLETED"]

\* Calls read and not moved, or moved and not read.
Misread(p) == (proc[p].moved \ proc[p].taken) \cup (proc[p].taken \ proc[p].moved)

CommitMerge(p) ==
    LET a == proc[p].a
        b == proc[p].b
        t == proc[p].taken
        writes == \/ t # {}
                  \/ MergedAliases(a, b, proc[p].da, proc[p].db) # {}
    IN  /\ proc[p].pc = "commit" /\ proc[p].kind # "undo"
        /\ Live(b) /\ Deletable(p) /\ ~CrmIdClash(p)
        /\ writes => Live(a)
        /\ acct' = [acct EXCEPT ![b].status = "deleted", ![b].crm = FALSE,
                                ![b].domain = Null]
        /\ alias' = AliasesAfter(a, b, proc[p].da, proc[p].db)
        /\ call' = [c \in Call |->
             [call[c] EXCEPT !.account = AccountAfter(c, a, b, t)]]
        /\ late' = late \cup {c \in t : Closing(a, c)}
        /\ IF proc[p].kind = "merge"
           THEN /\ runs' = Append(runs, NewRun(a, b, proc[p].snap, proc[p].moved))
                /\ redecided' = redecided \cup Misread(p)
                /\ UNCHANGED placed
           ELSE /\ placed' = [c \in Call |-> IF c \in t THEN a ELSE placed[c]]
                /\ redecided' = redecided
                                  \cup {c \in t : MovedBy(c) # {}}
                /\ UNCHANGED runs
        /\ proc' = [proc EXCEPT ![p] =
             IF proc[p].reviewed THEN [Idle EXCEPT !.pc = "approve"] ELSE Idle]
        /\ UNCHANGED <<request, begun, lifo>>

\* undoMerge: the secondary comes back as it was named, without CRM ids or
\* aliases, unless it was found; the run is marked whatever it says by now.
CommitUndo(p) ==
    LET s == proc[p].b
        t == proc[p].taken
        i == proc[p].run
    IN  /\ proc[p].pc = "commit" /\ proc[p].kind = "undo"
        /\ IF proc[p].create
           THEN /\ ~Live(s)
                /\ runs[i].domain # Null => ~Taken(runs[i].domain)
                /\ acct' = [acct EXCEPT ![s] =
                     [status |-> "live", domain |-> runs[i].domain,
                      crm |-> FALSE]]
           ELSE (t # {} => Live(s)) /\ UNCHANGED acct
        /\ call' = [c \in Call |->
             IF c \in t THEN [call[c] EXCEPT !.account = s] ELSE call[c]]
        /\ runs' = [runs EXCEPT ![i].status = "UNDONE"]
        /\ lifo' = InOrder(p)
        /\ late' = late \cup {c \in t : Closing(s, c)}
        /\ Finish(p)
        /\ UNCHANGED <<alias, request, begun, placed, redecided>>

-----------------------------------------------------------------------------
(***************************************************************************)
(* Merge requests.                                                         *)
(***************************************************************************)
RequestMerge(a, b) ==
    /\ Count
    /\ request.status = "none"
    /\ Live(a) /\ Live(b) /\ a # b
    /\ request' = [status |-> "PENDING", primary |-> a, secondary |-> b]
    /\ UNCHANGED <<acct, alias, call, runs, proc, placed, redecided, late,
                   lifo>>

\* Fault: the request is approved without the merge.
ApproveOnly(p) ==
    /\ request.status = "PENDING"
    /\ proc[p].pc = "idle" /\ Count
    /\ Goto(p, "approve")
    /\ UNCHANGED <<acct, alias, call, runs, request, placed, redecided, late,
                   lifo>>

ReviewApprove(p) ==
    /\ request.status = "PENDING"
    /\ StartMerge(p, "merge", request.primary, request.secondary, TRUE)

ReviewReject(p) ==
    /\ request.status = "PENDING"
    /\ proc[p].pc = "idle" /\ Count
    /\ Goto(p, "reject")
    /\ UNCHANGED <<acct, alias, call, runs, request, placed, redecided, late,
                   lifo>>

\* approveMergeRequest and rejectMergeRequest write whatever the status is.
Finalize(p) ==
    /\ proc[p].pc \in {"approve", "reject"}
    /\ request' = [request EXCEPT !.status =
                     IF proc[p].pc = "approve" THEN "APPROVED"
                                               ELSE "REJECTED"]
    /\ Finish(p)
    /\ UNCHANGED <<acct, alias, call, runs, begun, placed, redecided, late,
                   lifo>>

\* A statement fails, a transaction times out, the process dies: an open
\* transaction is rolled back, what was committed stays.
Fail(p) ==
    /\ proc[p].pc # "idle"
    /\ Finish(p)
    /\ UNCHANGED <<acct, alias, call, runs, request, begun, placed, redecided,
                   late, lifo>>

Next ==
    \/ \E p \in Handler :
         \/ \E c \in Call, a \in Account : BeginResolve(p, c, a)
         \/ LinkManually(p) \/ AddAlias(p)
         \/ \E c \in Call, a \in Account, d \in Domain \cup {Null} :
              CreateFromCall(p, c, a, d)
         \/ \E c \in Call : BeginAuto(p, c)
         \/ LinkAuto(p) \/ UseHint(p) \/ LinkByHint(p)
         \/ \E a, b \in Account : BeginMerge(p, a, b)
         \/ \E a, b \in Account : BeginLegacyMerge(p, a, b)
         \/ ReadCalls(p) \/ BeginUpdate(p) \/ TakeCalls(p) \/ CommitMerge(p)
         \/ \E i \in DOMAIN runs : BeginUndo(p, i)
         \/ CommitUndo(p)
         \/ ReviewApprove(p) \/ ReviewReject(p) \/ Finalize(p)
         \/ Fail(p)
    \/ \E c \in Call : Dismiss(c)
    \/ \E a \in Account, d \in Domain \cup {Null} :
         SyncCrmAccount(a, d) \/ PollAccount(a, d)
    \/ \E a \in Account, d \in Domain : UpdateDomain(a, d)
    \/ \E a, b \in Account : RequestMerge(a, b)

Spec == Init /\ [][Next]_vars

-----------------------------------------------------------------------------
(***************************************************************************)
(* A call without an account is in the review queue: neither a merge nor a *)
(* resolution takes a call's account away unseen.  Two exceptions are      *)
(* named.  A call put on an account after that account's merge looked for  *)
(* the calls to move (late) loses its account by ON DELETE SET NULL and    *)
(* keeps the method it had.  And the queue leaves out every dismissed      *)
(* call: nothing clears dismissedAt, so a call that is dismissed, linked,  *)
(* delivered again and then found to match no account is announced as      *)
(* queued and is not.                                                      *)
(***************************************************************************)
\* listQueue's filter.
InQueue(c) == call[c].method = "NONE" /\ ~call[c].dismissed

UnlinkedIsQueued ==
    \A c \in Call : call[c].account = Null =>
                      InQueue(c) \/ call[c].dismissed \/ c \in late

(***************************************************************************)
(* While every undo works on the newest merge that is still done, every    *)
(* call is where the last completed merge that moved it put it, and with   *)
(* no such merge it is where the last resolution put it: an undo takes     *)
(* back its own merge's moves and nothing else, whatever merges, undos and *)
(* resolutions run beside it.  The exceptions are named.  Two undos of one *)
(* merge both find it COMPLETED, and the second is then not of a merge     *)
(* still done (lifo); calls decided on again after a merge moved them are  *)
(* overridden by its undo, and calls put on or taken off the secondary     *)
(* between the merge's reading and its updating of the calls are moved and *)
(* not recorded, or recorded and not moved (redecided); calls put on the   *)
(* secondary after that are lost (late).                                   *)
(***************************************************************************)
UndoIsExact ==
    lifo => \A c \in Call \ (late \cup redecided) :
              call[c].account =
                IF MovedBy(c) = {} THEN placed[c]
                ELSE runs[Max(MovedBy(c))].primary

(***************************************************************************)
(* An approved merge request has been carried out: its accounts were       *)
(* merged in the order requested, even if reviewers disagree in a race or  *)
(* a review fails half way.                                                *)
(***************************************************************************)
ApprovedMeansMerged ==
    request.status = "APPROVED" =>
      \E i \in DOMAIN runs : /\ runs[i].primary = request.primary
                             /\ runs[i].secondary = request.secondary

(***************************************************************************)
(* "CRM identifiers are preserved where the primary lacks them": a merge   *)
(* that has moved the calls of the secondary, both accounts being there    *)
(* and nobody in its way, can be completed.  executeMerge gives the        *)
(* primary the secondary's salesforceId before it deletes the secondary,   *)
(* and the unique index refuses that.                                      *)
(***************************************************************************)
MergePreservesCrmId ==
    \A p \in Handler :
      /\ proc[p].pc = "commit"
      /\ Live(proc[p].a) /\ Live(proc[p].b) /\ Deletable(p)
      => ENABLED CommitMerge(p)
=============================================================================
