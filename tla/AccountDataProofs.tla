------------------------- MODULE AccountDataProofs -------------------------
(***************************************************************************)
(* Proofs about accounts, calls and merges, for any number of accounts,    *)
(* calls, domains and concurrent requests.                                 *)
(***************************************************************************)
EXTENDS AccountData, FiniteSetTheorems, TLAPS

-----------------------------------------------------------------------------
(***************************************************************************)
(* The types in parts: the fields of the rows and of the requests, and     *)
(* what the unique indexes and the foreign keys keep.                      *)
(***************************************************************************)
AcctTypes == [status : {"fresh", "live", "deleted"},
              domain : Domain \cup {Null}, crm : BOOLEAN]
CallTypes == [account : Accounts, method : {"NONE", "FUZZY_NAME", "MANUAL"},
              dismissed : BOOLEAN]
RunTypes == [primary : Account, secondary : Account,
             domain : Domain \cup {Null}, moved : SUBSET Call,
             status : {"COMPLETED", "UNDONE"}]
RequestTypes == [status : {"none", "PENDING", "APPROVED", "REJECTED"},
                 primary : Accounts, secondary : Accounts]

LiveIn(ac, a) == ac[a].status = "live"

Unique(ac) ==
    \A a, b \in Account :
        a # b /\ LiveIn(ac, a) /\ LiveIn(ac, b) =>
           /\ ac[a].domain = ac[b].domain => ac[a].domain = Null
           /\ ~(ac[a].crm /\ ac[b].crm)

AliasLive(ac, al) == \A r \in al : LiveIn(ac, r[1])

CallLive(ac, ca) ==
    \A c \in Call : ca[c].account # Null => LiveIn(ac, ca[c].account)

\* The types of the history of decisions.
HistoryTypes ==
    /\ begun \in 0..MaxBegun
    /\ placed \in [Call -> Accounts]
    /\ redecided \subseteq Call
    /\ late \subseteq Call
    /\ lifo \in BOOLEAN

DataOK(ac, al, ca) ==
    /\ ac \in [Account -> AcctTypes] /\ Unique(ac)
    /\ al \subseteq Account \X Domain /\ AliasLive(ac, al)
    /\ ca \in [Call -> CallTypes] /\ CallLive(ac, ca)

LEMMA TypeParts ==
    TypeOK <=> /\ DataOK(acct, alias, call)
               /\ runs \in Seq(RunTypes)
               /\ request \in RequestTypes
               /\ proc \in [Handler -> ProcTypes]
               /\ HistoryTypes
  BY DEF TypeOK, DataOK, Unique, AliasLive, CallLive, LiveIn, HistoryTypes,
         AcctTypes, CallTypes, RunTypes, RequestTypes

LEMMA TypePartsNext ==
    ASSUME DataOK(acct', alias', call'), runs' \in Seq(RunTypes),
           request' \in RequestTypes, proc' \in [Handler -> ProcTypes],
           HistoryTypes'
    PROVE  TypeOK'
  BY DEF TypeOK, DataOK, Unique, AliasLive, CallLive, LiveIn, HistoryTypes,
         AcctTypes, CallTypes, RunTypes, RequestTypes

LEMMA NullIsNone == Null \notin Account /\ Null \in Accounts /\ Account \subseteq Accounts
<1>1. Cardinality(Account) \in Nat
  BY AccountAssumption, FS_CardinalityType
<1> QED
  BY <1>1, AccountAssumption DEF Null, Accounts

(***************************************************************************)
(* What a request in progress holds.  A reviewed merge is the one that was *)
(* asked for; a request about to approve has merged.                       *)
(***************************************************************************)
MergedPair(rs, rq) ==
    \E i \in DOMAIN rs : /\ rs[i].primary = rq.primary
                         /\ rs[i].secondary = rq.secondary

Merging == {"read", "update", "take", "commit"}

ProcOK(x, rq, rs) ==
    /\ x.pc \in {"link", "alias", "auto", "hint", "fuzzy"} => x.call \in Call
    /\ x.pc \in {"link", "alias", "fuzzy"} => x.a \in Account
    /\ x.pc = "read" => x.kind # "undo"
    /\ x.pc \in Merging =>
         /\ x.a \in Account /\ x.b \in Account
         /\ x.kind # "undo" => x.a # x.b
         /\ x.reviewed => /\ x.kind = "merge" /\ rq.status # "none"
                          /\ x.a = rq.primary /\ x.b = rq.secondary
         /\ x.kind = "undo" => /\ x.run \in DOMAIN rs
                               /\ rs[x.run].primary = x.a
                               /\ rs[x.run].secondary = x.b
                               /\ rs[x.run].moved = x.moved
    /\ x.pc = "approve" => rq.status # "none" /\ MergedPair(rs, rq)

\* A merge that has looked for the calls of its secondary has them all, but
\* for the late ones.
Swept(x, ca, lt) ==
    x.pc \in {"take", "commit"} /\ x.kind # "undo" =>
        \A c \in Call : ca[c].account = x.b => c \in x.taken \/ c \in lt

Unseen(ca, lt) ==
    \A c \in Call : ca[c].account = Null => ca[c].method = "NONE" \/ c \in lt

Approved(rq, rs) == rq.status = "APPROVED" => MergedPair(rs, rq)

ProcsOK == \A p \in Handler : ProcOK(proc[p], request, runs)
SweptInv == \A p \in Handler : Swept(proc[p], call, late)

AccountInv ==
    /\ TypeOK
    /\ ProcsOK
    /\ SweptInv
    /\ Unseen(call, late)
    /\ Approved(request, runs)

LEMMA IdleTypes == Idle \in ProcTypes /\ Idle.pc = "idle"
  BY NullIsNone DEF Idle, ProcTypes

LEMMA IdleOK ==
    ASSUME NEW rq, NEW rs, NEW ca, NEW lt
    PROVE  ProcOK(Idle, rq, rs) /\ Swept(Idle, ca, lt)
  BY IdleTypes DEF ProcOK, Swept, Merging

\* A list of merges and a request that keep what was there.
Kept(rq, rs, rq2, rs2) ==
    /\ \A i \in DOMAIN rs : /\ i \in DOMAIN rs2
                            /\ rs2[i].primary = rs[i].primary
                            /\ rs2[i].secondary = rs[i].secondary
                            /\ rs2[i].moved = rs[i].moved
    /\ rq.status # "none" => /\ rq2.status # "none" /\ rq2.primary = rq.primary
                             /\ rq2.secondary = rq.secondary

LEMMA ProcKept ==
    ASSUME NEW x, NEW rq, NEW rs, NEW rq2, NEW rs2,
           ProcOK(x, rq, rs), Kept(rq, rs, rq2, rs2)
    PROVE  ProcOK(x, rq2, rs2)
<1>1. ASSUME rq.status # "none", MergedPair(rs, rq)
      PROVE  MergedPair(rs2, rq2)
  BY <1>1 DEF Kept, MergedPair
<1> QED
  BY <1>1 DEF ProcOK, Kept

\* One request moves, the rows as given.
LEMMA OneProc ==
    ASSUME AccountInv, NEW p \in Handler, NEW x \in ProcTypes,
           proc' = [proc EXCEPT ![p] = x],
           DataOK(acct', alias', call'), runs' \in Seq(RunTypes),
           request' \in RequestTypes, HistoryTypes',
           Kept(request, runs, request', runs'),
           ProcOK(x, request', runs'), Swept(x, call', late'),
           \A q \in Handler : q # p => Swept(proc[q], call', late'),
           Unseen(call', late'), Approved(request', runs')
    PROVE  AccountInv'
<1>1. /\ proc' \in [Handler -> ProcTypes]
      /\ \A q \in Handler : proc'[q] = IF q = p THEN x ELSE proc[q]
  BY TypeParts DEF AccountInv
<1>2. \A q \in Handler : ProcOK(proc'[q], request', runs')
  BY <1>1, ProcKept DEF AccountInv, ProcsOK
<1>3. \A q \in Handler : Swept(proc'[q], call', late')
  BY <1>1
<1>4. TypeOK'
  BY <1>1, TypePartsNext
<1> QED
  BY <1>2, <1>3, <1>4 DEF AccountInv, ProcsOK, SweptInv

\* No request moves.
LEMMA NoProc ==
    ASSUME AccountInv, proc' = proc,
           DataOK(acct', alias', call'), runs' \in Seq(RunTypes),
           request' \in RequestTypes, HistoryTypes',
           Kept(request, runs, request', runs'),
           \A q \in Handler : Swept(proc[q], call', late'),
           Unseen(call', late'), Approved(request', runs')
    PROVE  AccountInv'
<1>1. \A q \in Handler : ProcOK(proc'[q], request', runs')
  BY ProcKept DEF AccountInv, ProcsOK
<1>2. proc' \in [Handler -> ProcTypes]
  BY TypeParts DEF AccountInv
<1>3. TypeOK'
  BY <1>2, TypePartsNext
<1> QED
  BY <1>1, <1>3 DEF AccountInv, ProcsOK, SweptInv

LEMMA InvParts ==
    ASSUME AccountInv
    PROVE  /\ DataOK(acct, alias, call) /\ runs \in Seq(RunTypes)
           /\ request \in RequestTypes /\ HistoryTypes
           /\ Kept(request, runs, request, runs)
           /\ Unseen(call, late) /\ Approved(request, runs)
           /\ \A p \in Handler : /\ proc[p] \in ProcTypes
                                 /\ ProcOK(proc[p], request, runs)
                                 /\ Swept(proc[p], call, late)
  BY TypeParts DEF AccountInv, ProcsOK, SweptInv, Kept

LEMMA CountTypes ==
    ASSUME HistoryTypes, Count
    PROVE  begun' \in 0..MaxBegun
  BY AccountAssumption DEF HistoryTypes, Count

-----------------------------------------------------------------------------
(***************************************************************************)
(* Steps of one request that write no row.                                 *)
(***************************************************************************)
Rows == <<acct, alias, call, runs, request, placed, redecided, late, lifo>>

LEMMA ProcOnly ==
    ASSUME AccountInv, NEW p \in Handler, NEW x \in ProcTypes,
           proc' = [proc EXCEPT ![p] = x], UNCHANGED Rows,
           begun' \in 0..MaxBegun,
           ProcOK(x, request, runs), Swept(x, call, late)
    PROVE  AccountInv'
<1>1. UNCHANGED <<acct, alias, call, runs, request, late>>
  BY DEF Rows
<1>2. HistoryTypes'
  BY InvParts DEF Rows, HistoryTypes
<1> QED
  BY <1>1, <1>2, InvParts, OneProc

LEMMA BegunTypes ==
    ASSUME AccountInv
    PROVE  /\ begun \in 0..MaxBegun
           /\ Count => begun' \in 0..MaxBegun
  BY InvParts, CountTypes DEF HistoryTypes

LEMMA BeginResolveKeeps ==
    ASSUME AccountInv, NEW p \in Handler, NEW c \in Call, NEW a \in Account,
           BeginResolve(p, c, a)
    PROVE  AccountInv'
<1> DEFINE x == [Idle EXCEPT !.pc = "link", !.call = c, !.a = a,
                             !.da = acct[a].domain]
<1>1. proc' = [proc EXCEPT ![p] = x] /\ UNCHANGED Rows /\ begun' \in 0..MaxBegun
  BY BegunTypes DEF BeginResolve, Rows
<1>2. acct[a].domain \in Domain \cup {Null}
  BY InvParts DEF DataOK, AcctTypes
<1>3. x \in ProcTypes /\ x.pc = "link" /\ x.call = c /\ x.a = a
  BY <1>2, NullIsNone DEF Idle, ProcTypes
<1> HIDE DEF x
<1>4. ProcOK(x, request, runs) /\ Swept(x, call, late)
  BY <1>3 DEF ProcOK, Swept, Merging
<1> QED
  BY <1>1, <1>3, <1>4, ProcOnly

LEMMA BeginAutoKeeps ==
    ASSUME AccountInv, NEW p \in Handler, NEW c \in Call, BeginAuto(p, c)
    PROVE  AccountInv'
<1>1. PICK a \in Matches(c) :
        proc' = [proc EXCEPT ![p] = [Idle EXCEPT !.pc = "auto", !.call = c, !.a = a]]
  BY DEF BeginAuto
<1> DEFINE x == [Idle EXCEPT !.pc = "auto", !.call = c, !.a = a]
<1>2. proc' = [proc EXCEPT ![p] = x] /\ UNCHANGED Rows /\ begun' \in 0..MaxBegun
  BY <1>1, BegunTypes DEF BeginAuto, Rows
<1>3. a \in Accounts
  BY NullIsNone DEF Matches
<1>4. x \in ProcTypes /\ x.pc = "auto" /\ x.call = c
  BY <1>3, NullIsNone DEF Idle, ProcTypes
<1> HIDE DEF x
<1>5. ProcOK(x, request, runs) /\ Swept(x, call, late)
  BY <1>4 DEF ProcOK, Swept, Merging
<1> QED
  BY <1>2, <1>4, <1>5, ProcOnly

LEMMA StartMergeKeeps ==
    ASSUME AccountInv, NEW p \in Handler, NEW kind \in {"merge", "legacy"},
           NEW a, NEW b, NEW reviewed \in BOOLEAN,
           StartMerge(p, kind, a, b, reviewed),
           reviewed => /\ kind = "merge" /\ request.status # "none"
                       /\ a = request.primary /\ b = request.secondary
    PROVE  AccountInv'
<1> DEFINE at == IF kind = "merge" THEN "read" ELSE "update"
           x == [Idle EXCEPT !.pc = at, !.kind = kind, !.reviewed = reviewed,
                      !.a = a, !.b = b, !.da = acct[a].domain,
                      !.db = acct[b].domain,
                      !.crm = ~acct[a].crm /\ acct[b].crm]
<1>1. proc' = [proc EXCEPT ![p] = x] /\ UNCHANGED Rows /\ begun' \in 0..MaxBegun
  BY BegunTypes DEF StartMerge, Rows
<1>2. a \in Account /\ b \in Account /\ a # b
  BY DEF StartMerge, Live
<1>3. acct[a].domain \in Domain \cup {Null} /\ acct[b].domain \in Domain \cup {Null}
  BY <1>2, InvParts DEF DataOK, AcctTypes
<1>4. (~acct[a].crm /\ acct[b].crm) \in BOOLEAN
  OBVIOUS
<1>5. /\ x \in ProcTypes /\ x.pc \in {"read", "update"} /\ x.a = a /\ x.b = b
      /\ x.reviewed = reviewed /\ x.kind = kind /\ x.kind # "undo"
  BY <1>2, <1>3, <1>4, NullIsNone DEF Idle, ProcTypes
<1> HIDE DEF x
<1>6. ProcOK(x, request, runs) /\ Swept(x, call, late)
  BY <1>2, <1>5 DEF ProcOK, Swept, Merging
<1> QED
  BY <1>1, <1>5, <1>6, ProcOnly

LEMMA ReadCallsKeeps ==
    ASSUME AccountInv, NEW p \in Handler, ReadCalls(p)
    PROVE  AccountInv'
<1> DEFINE b == proc[p].b
           x == [proc[p] EXCEPT !.pc = "update", !.moved = CallsAt(b),
                                !.snap = acct[b].domain]
<1>1. proc' = [proc EXCEPT ![p] = x]
  BY TypeParts DEF ReadCalls, AccountInv
<1>2. UNCHANGED Rows /\ begun' \in 0..MaxBegun
  BY BegunTypes DEF ReadCalls, Rows
<1>3. proc[p] \in ProcTypes /\ ProcOK(proc[p], request, runs) /\ proc[p].pc = "read"
  BY InvParts DEF ReadCalls
<1>4. b \in Account /\ acct[b].domain \in Domain \cup {Null} /\ CallsAt(b) \subseteq Call
  BY InvParts DEF ReadCalls, Live, DataOK, AcctTypes, CallsAt
<1>5. /\ x \in ProcTypes /\ x.pc = "update" /\ x.a = proc[p].a /\ x.b = b
      /\ x.reviewed = proc[p].reviewed /\ x.kind = proc[p].kind
  BY <1>3, <1>4 DEF ProcTypes
<1>6. proc[p].kind # "undo"
  BY <1>3 DEF ProcOK, Merging
<1> HIDE DEF x
<1>7. ProcOK(x, request, runs) /\ Swept(x, call, late)
  BY <1>3, <1>5, <1>6 DEF ProcOK, Swept, Merging
<1> QED
  BY <1>1, <1>2, <1>5, <1>7, ProcOnly

LEMMA BeginUndoKeeps ==
    ASSUME AccountInv, NEW p \in Handler, NEW i \in DOMAIN runs, BeginUndo(p, i)
    PROVE  AccountInv'
<1> DEFINE x == [Idle EXCEPT !.pc = "update", !.kind = "undo", !.a = runs[i].primary,
                      !.b = runs[i].secondary, !.moved = runs[i].moved,
                      !.run = i]
<1>1. proc' = [proc EXCEPT ![p] = x] /\ UNCHANGED Rows /\ begun' \in 0..MaxBegun
  BY BegunTypes DEF BeginUndo, Rows
<1>2. runs[i] \in RunTypes /\ i \in Nat
  BY InvParts
<1>3. runs[i].primary \in Account /\ runs[i].secondary \in Account
      /\ runs[i].moved \subseteq Call
  BY <1>2 DEF RunTypes
<1>4. /\ x \in ProcTypes /\ x.pc = "update" /\ x.kind = "undo" /\ ~x.reviewed
      /\ x.a = runs[i].primary /\ x.b = runs[i].secondary
      /\ x.moved = runs[i].moved /\ x.run = i
  BY <1>2, <1>3, NullIsNone DEF Idle, ProcTypes
<1> HIDE DEF x
<1>5. ProcOK(x, request, runs) /\ Swept(x, call, late)
  BY <1>3, <1>4 DEF ProcOK, Swept
<1> QED
  BY <1>1, <1>4, <1>5, ProcOnly

LEMMA SoughtIs ==
    ASSUME NEW p
    PROVE  /\ Sought(p) \subseteq Call
           /\ proc[p].kind # "undo" => Sought(p) = CallsAt(proc[p].b)
           /\ proc[p].kind = "undo" =>
                Sought(p) = CallsAt(proc[p].a) \cap proc[p].moved
  BY DEF Sought, CallsAt

\* An update looks for rows or takes them: p goes on with the set s of them.
LEMMA UpdateStep ==
    ASSUME AccountInv, NEW p \in Handler, NEW x \in ProcTypes,
           proc[p].pc \in {"update", "take"}, x.pc \in {"take", "commit"},
           proc' = [proc EXCEPT ![p] = x],
           UNCHANGED <<acct, alias, call, runs, request, begun, placed, redecided, late>>,
           lifo' \in BOOLEAN,
           x.a = proc[p].a, x.b = proc[p].b, x.kind = proc[p].kind,
           x.reviewed = proc[p].reviewed, x.moved = proc[p].moved, x.run = proc[p].run,
           Swept(x, call, late)
    PROVE  AccountInv'
<1>1. ProcOK(x, request, runs)
  <2>1. ProcOK(proc[p], request, runs) /\ proc[p].pc \in Merging
    BY InvParts DEF Merging
  <2> QED
    BY <2>1 DEF ProcOK, Merging
<1>2. HistoryTypes'
  BY InvParts DEF HistoryTypes
<1>3. \A q \in Handler : Swept(proc[q], call', late')
  BY InvParts
<1> QED
  BY <1>1, <1>2, <1>3, InvParts, OneProc

LEMMA InOrderTypes == ASSUME NEW p, lifo' = InOrder(p) PROVE lifo' \in BOOLEAN
  BY DEF InOrder

LEMMA BeginUpdateKeeps ==
    ASSUME AccountInv, NEW p \in Handler, BeginUpdate(p)
    PROVE  AccountInv'
<1> DEFINE cr == proc[p].kind = "undo" /\ ~Live(proc[p].b)
           x == [proc[p] EXCEPT !.pc = "take", !.taken = Sought(p), !.create = cr]
<1>1. /\ proc' = [proc EXCEPT ![p] = x] /\ proc[p].pc = "update"
      /\ UNCHANGED <<acct, alias, call, runs, request, begun, placed, redecided, late>>
      /\ lifo' = InOrder(p)
  BY TypeParts DEF BeginUpdate, AccountInv
<1>2. proc[p] \in ProcTypes /\ cr \in BOOLEAN
  BY InvParts
<1>3. /\ x \in ProcTypes /\ x.pc = "take" /\ x.taken = Sought(p)
      /\ x.a = proc[p].a /\ x.b = proc[p].b /\ x.kind = proc[p].kind
      /\ x.reviewed = proc[p].reviewed /\ x.moved = proc[p].moved /\ x.run = proc[p].run
  BY <1>2, SoughtIs DEF ProcTypes
<1> HIDE DEF x
<1>4. Swept(x, call, late)
  BY <1>3, SoughtIs DEF Swept, CallsAt
<1>5. lifo' \in BOOLEAN
  BY <1>1, InOrderTypes
<1> QED
  BY <1>1, <1>3, <1>4, <1>5, UpdateStep

LEMMA TakeCallsKeeps ==
    ASSUME AccountInv, NEW p \in Handler, TakeCalls(p)
    PROVE  AccountInv'
<1> DEFINE t == proc[p].taken \cap Sought(p)
           x == [proc[p] EXCEPT !.pc = "commit", !.taken = t]
<1>1. /\ proc' = [proc EXCEPT ![p] = x] /\ proc[p].pc = "take"
      /\ UNCHANGED <<acct, alias, call, runs, request, begun, placed, redecided, late>>
      /\ lifo' = InOrder(p)
  BY TypeParts DEF TakeCalls, AccountInv
<1>2. proc[p] \in ProcTypes /\ Swept(proc[p], call, late)
  BY InvParts
<1>3. /\ x \in ProcTypes /\ x.pc = "commit" /\ x.taken = t
      /\ x.a = proc[p].a /\ x.b = proc[p].b /\ x.kind = proc[p].kind
      /\ x.reviewed = proc[p].reviewed /\ x.moved = proc[p].moved /\ x.run = proc[p].run
  BY <1>2 DEF ProcTypes
<1> HIDE DEF x
<1>4. Swept(x, call, late)
  BY <1>1, <1>2, <1>3, SoughtIs DEF Swept, CallsAt
<1>5. lifo' \in BOOLEAN
  BY <1>1, InOrderTypes
<1> QED
  BY <1>1, <1>3, <1>4, <1>5, UpdateStep

LEMMA ReviewRejectKeeps ==
    ASSUME AccountInv, NEW p \in Handler, ReviewReject(p)
    PROVE  AccountInv'
<1> DEFINE x == [proc[p] EXCEPT !.pc = "reject"]
<1>1. proc' = [proc EXCEPT ![p] = x] /\ UNCHANGED Rows /\ begun' \in 0..MaxBegun
  BY BegunTypes, TypeParts DEF ReviewReject, Goto, Rows, AccountInv
<1>2. x \in ProcTypes /\ x.pc = "reject"
  BY InvParts DEF ProcTypes
<1> HIDE DEF x
<1>3. ProcOK(x, request, runs) /\ Swept(x, call, late)
  BY <1>2 DEF ProcOK, Swept, Merging
<1> QED
  BY <1>1, <1>2, <1>3, ProcOnly

LEMMA FailKeeps ==
    ASSUME AccountInv, NEW p \in Handler, Fail(p)
    PROVE  AccountInv'
<1>1. proc' = [proc EXCEPT ![p] = Idle] /\ UNCHANGED Rows /\ begun' \in 0..MaxBegun
  BY BegunTypes DEF Fail, Finish, Rows
<1>2. ProcOK(Idle, request, runs) /\ Swept(Idle, call, late)
  BY IdleOK
<1> QED
  BY <1>1, <1>2, IdleTypes, ProcOnly

-----------------------------------------------------------------------------
(***************************************************************************)
(* Deciding on the account of a call.                                      *)
(***************************************************************************)
Methods == {"NONE", "FUZZY_NAME", "MANUAL"}

LEMMA DecideFacts ==
    ASSUME AccountInv, NEW c \in Call, NEW a \in Accounts, NEW m \in Methods,
           Decide(c, a, m), a = Null => m = "NONE",
           UNCHANGED <<acct, alias, begun, lifo>>
    PROVE  /\ DataOK(acct', alias', call') /\ HistoryTypes'
           /\ Unseen(call', late')
           /\ \A q \in Handler : Swept(proc[q], call', late')
<1> DEFINE rec == [call[c] EXCEPT !.account = a, !.method = m]
<1>1. /\ DataOK(acct, alias, call) /\ HistoryTypes /\ Unseen(call, late)
      /\ \A q \in Handler : Swept(proc[q], call, late)
  BY InvParts
<1>2. call' = [call EXCEPT ![c] = rec]
  BY <1>1 DEF Decide, DataOK
<1>3. rec \in CallTypes /\ rec.account = a /\ rec.method = m
  BY <1>1 DEF DataOK, CallTypes, Methods
<1> HIDE DEF rec
<1>4. /\ call' \in [Call -> CallTypes]
      /\ \A z \in Call : call'[z] = IF z = c THEN rec ELSE call[z]
  BY <1>1, <1>2, <1>3 DEF DataOK
<1>5. a # Null => LiveIn(acct, a)
  BY DEF Decide, Live, LiveIn
<1>6. CallLive(acct, call')
  BY <1>1, <1>3, <1>4, <1>5 DEF CallLive, DataOK
<1>7. DataOK(acct', alias', call')
  BY <1>1, <1>4, <1>6 DEF DataOK
<1>8. /\ placed' = [placed EXCEPT ![c] = a]
      /\ redecided' \in {redecided \ {c}, redecided \cup {c}}
      /\ late' = IF Closing(a, c) THEN late \cup {c} ELSE late \ {c}
  BY DEF Decide
<1>9. HistoryTypes'
  <2>1. placed' \in [Call -> Accounts]
    BY <1>1, <1>8 DEF HistoryTypes
  <2>2. redecided' \subseteq Call /\ late' \subseteq Call
    BY <1>1, <1>8 DEF HistoryTypes
  <2> QED
    BY <1>1, <2>1, <2>2 DEF HistoryTypes
<1>10. \A z \in Call : z # c => (z \in late' <=> z \in late)
  BY <1>8
<1>11. Unseen(call', late')
  BY <1>1, <1>3, <1>4, <1>10 DEF Unseen
<1>12. ASSUME NEW q \in Handler, proc[q].pc \in {"take", "commit"},
              proc[q].kind # "undo", NEW z \in Call,
              call'[z].account = proc[q].b
       PROVE  z \in proc[q].taken \/ z \in late'
  <2>1. CASE z = c
    <3>1. c \in proc[q].taken \/ Closing(a, c)
      BY <1>3, <1>4, <1>12, <2>1 DEF Closing
    <3> QED
      BY <1>8, <2>1, <3>1
  <2>2. CASE z # c
    BY <1>1, <1>4, <1>10, <1>12, <2>2 DEF Swept
  <2> QED
    BY <2>1, <2>2
<1> QED
  BY <1>7, <1>9, <1>11, <1>12 DEF Swept

\* The decision ends a step of request p, which goes on to x.
LEMMA DecideStep ==
    ASSUME AccountInv, NEW p \in Handler, NEW c \in Call, NEW a \in Accounts,
           NEW m \in Methods, Decide(c, a, m), a = Null => m = "NONE",
           UNCHANGED <<acct, alias, runs, request, begun, lifo>>,
           NEW x \in ProcTypes, proc' = [proc EXCEPT ![p] = x],
           ProcOK(x, request, runs), x.pc \notin {"take", "commit"}
    PROVE  AccountInv'
<1>1. /\ DataOK(acct', alias', call') /\ HistoryTypes'
      /\ Unseen(call', late')
      /\ \A q \in Handler : Swept(proc[q], call', late')
  BY DecideFacts
<1>2. Swept(x, call', late')
  BY DEF Swept
<1> QED
  BY <1>1, <1>2, InvParts, OneProc

LEMMA LinkManuallyKeeps ==
    ASSUME AccountInv, NEW p \in Handler, LinkManually(p)
    PROVE  AccountInv'
<1> DEFINE x == [proc[p] EXCEPT !.pc = "alias"]
<1>1. /\ proc[p].pc = "link" /\ Decide(proc[p].call, proc[p].a, "MANUAL")
      /\ UNCHANGED <<acct, alias, runs, request, begun, lifo>>
  BY DEF LinkManually
<1>2. proc' = [proc EXCEPT ![p] = x]
  BY TypeParts DEF LinkManually, Goto, AccountInv
<1>3. proc[p] \in ProcTypes /\ ProcOK(proc[p], request, runs)
  BY InvParts
<1>4. proc[p].call \in Call /\ proc[p].a \in Account
  BY <1>1, <1>3 DEF ProcOK
<1>5. /\ x \in ProcTypes /\ x.pc = "alias" /\ x.call = proc[p].call
      /\ x.a = proc[p].a
  BY <1>3 DEF ProcTypes
<1> HIDE DEF x
<1>6. ProcOK(x, request, runs)
  BY <1>4, <1>5 DEF ProcOK, Merging
<1>7. proc[p].a \in Accounts /\ proc[p].a # Null /\ "MANUAL" \in Methods
  BY <1>4, NullIsNone DEF Methods
<1> QED
  BY <1>1, <1>2, <1>4, <1>5, <1>6, <1>7, DecideStep

LEMMA LinkAutoKeeps ==
    ASSUME AccountInv, NEW p \in Handler, LinkAuto(p)
    PROVE  AccountInv'
<1> DEFINE c == proc[p].call
           a == proc[p].a
           x == [proc[p] EXCEPT !.pc = "hint"]
<1>1. /\ proc[p].pc = "auto" /\ Decide(c, a, MethodAfter(c, a))
      /\ UNCHANGED <<acct, alias, runs, request, begun, lifo>>
  BY DEF LinkAuto
<1>2. proc' = [proc EXCEPT ![p] = x] \/ proc' = [proc EXCEPT ![p] = Idle]
  BY TypeParts DEF LinkAuto, Goto, Finish, AccountInv
<1>3. proc[p] \in ProcTypes /\ ProcOK(proc[p], request, runs)
  BY InvParts
<1>4. c \in Call /\ a \in Accounts
  BY <1>1, <1>3 DEF ProcOK, ProcTypes
<1>5. x \in ProcTypes /\ x.pc = "hint" /\ x.call = c
  BY <1>3 DEF ProcTypes
<1> HIDE DEF x
<1>6. ProcOK(x, request, runs) /\ ProcOK(Idle, request, runs)
  BY <1>4, <1>5, IdleTypes DEF ProcOK, Merging
<1>7. call[c].method \in Methods
  BY <1>4, InvParts DEF DataOK, CallTypes, Methods
<1>8. MethodAfter(c, a) \in Methods /\ (a = Null => MethodAfter(c, a) = "NONE")
  BY <1>7 DEF MethodAfter, Methods
<1> HIDE DEF c, a
<1>9. CASE proc' = [proc EXCEPT ![p] = x]
  BY <1>1, <1>4, <1>5, <1>6, <1>8, <1>9, DecideStep
<1>10. CASE proc' = [proc EXCEPT ![p] = Idle]
  BY <1>1, <1>4, <1>6, <1>8, <1>10, IdleTypes, DecideStep
<1> QED
  BY <1>2, <1>9, <1>10

LEMMA LinkByHintKeeps ==
    ASSUME AccountInv, NEW p \in Handler, LinkByHint(p)
    PROVE  AccountInv'
<1>1. /\ proc[p].pc = "fuzzy" /\ Decide(proc[p].call, proc[p].a, "FUZZY_NAME")
      /\ UNCHANGED <<acct, alias, runs, request, begun, lifo>>
      /\ proc' = [proc EXCEPT ![p] = Idle]
  BY DEF LinkByHint, Finish
<1>2. proc[p].call \in Call /\ proc[p].a \in Account
  BY <1>1, InvParts DEF ProcOK
<1>3. proc[p].a \in Accounts /\ proc[p].a # Null /\ "FUZZY_NAME" \in Methods
  BY <1>2, NullIsNone DEF Methods
<1>4. ProcOK(Idle, request, runs)
  BY IdleTypes DEF ProcOK, Merging
<1> QED
  BY <1>1, <1>2, <1>3, <1>4, IdleTypes, DecideStep

LEMMA DismissKeeps ==
    ASSUME AccountInv, NEW c \in Call, Dismiss(c)
    PROVE  AccountInv'
<1> DEFINE rec == [call[c] EXCEPT !.dismissed = TRUE]
<1>1. /\ UNCHANGED <<acct, alias, runs, request, proc, placed, redecided, late, lifo>>
      /\ begun' \in 0..MaxBegun
  BY BegunTypes DEF Dismiss
<1>2. call' = [call EXCEPT ![c] = rec]
  BY InvParts DEF Dismiss, DataOK
<1>3. /\ rec \in CallTypes /\ rec.account = call[c].account
      /\ rec.method = call[c].method
  BY InvParts DEF DataOK, CallTypes
<1> HIDE DEF rec
<1>4. /\ call' \in [Call -> CallTypes]
      /\ \A z \in Call : /\ call'[z].account = call[z].account
                         /\ call'[z].method = call[z].method
  BY <1>2, <1>3, InvParts DEF DataOK
<1>5. CallLive(acct, call')
  BY <1>4, InvParts DEF DataOK, CallLive
<1>6. DataOK(acct', alias', call')
  BY <1>1, <1>4, <1>5, InvParts DEF DataOK
<1>7. Unseen(call', late') /\ \A q \in Handler : Swept(proc[q], call', late')
  BY <1>1, <1>4, InvParts DEF Unseen, Swept
<1>8. HistoryTypes'
  BY <1>1, InvParts DEF HistoryTypes
<1> QED
  BY <1>1, <1>6, <1>7, <1>8, InvParts, NoProc

-----------------------------------------------------------------------------
(***************************************************************************)
(* Writing accounts and aliases.                                           *)
(***************************************************************************)
\* An account that gets a free domain, and a CRM id only if none has one.
LEMMA AcctWritten ==
    ASSUME AccountInv, NEW a \in Account, NEW rec \in AcctTypes,
           acct' = [acct EXCEPT ![a] = rec], rec.status = "live",
           rec.domain # Null => ~Taken(rec.domain),
           rec.crm => \A b \in Account : b # a => ~(Live(b) /\ acct[b].crm)
    PROVE  DataOK(acct', alias, call)
<1>1. DataOK(acct, alias, call)
  BY InvParts
<1>2. /\ acct' \in [Account -> AcctTypes]
      /\ \A z \in Account : acct'[z] = IF z = a THEN rec ELSE acct[z]
  BY <1>1 DEF DataOK
<1>3. \A z \in Account : LiveIn(acct, z) => LiveIn(acct', z)
  BY <1>2 DEF LiveIn
<1>4. Unique(acct')
  <2> SUFFICES ASSUME NEW y \in Account, NEW z \in Account, y # z,
                      LiveIn(acct', y), LiveIn(acct', z)
               PROVE  /\ acct'[y].domain = acct'[z].domain => acct'[y].domain = Null
                      /\ ~(acct'[y].crm /\ acct'[z].crm)
    BY DEF Unique
  <2>1. CASE y # a /\ z # a
    BY <1>1, <1>2, <2>1 DEF DataOK, Unique, LiveIn
  <2>2. CASE y = a
    <3>1. acct'[y] = rec /\ acct'[z] = acct[z] /\ Live(z)
      BY <1>2, <2>2 DEF LiveIn, Live
    <3>2. rec.domain # Null => acct[z].domain # rec.domain
      BY <3>1 DEF Taken
    <3> QED
      BY <2>2, <3>1, <3>2
  <2>3. CASE z = a
    <3>1. acct'[z] = rec /\ acct'[y] = acct[y] /\ Live(y)
      BY <1>2, <2>3 DEF LiveIn, Live
    <3>2. rec.domain # Null => acct[y].domain # rec.domain
      BY <3>1 DEF Taken
    <3> QED
      BY <2>3, <3>1, <3>2
  <2> QED
    BY <2>1, <2>2, <2>3
<1>5. AliasLive(acct', alias)
  <2>1. \A r \in alias : r[1] \in Account /\ LiveIn(acct, r[1])
    BY <1>1 DEF DataOK, AliasLive
  <2> QED
    BY <1>3, <2>1 DEF AliasLive
<1>6. CallLive(acct', call)
  <2>1. \A c \in Call : call[c].account # Null => call[c].account \in Account
    BY <1>1 DEF DataOK, CallTypes, Accounts
  <2> QED
    BY <1>1, <1>3, <2>1 DEF DataOK, CallLive
<1> QED
  BY <1>1, <1>2, <1>4, <1>5, <1>6 DEF DataOK

LEMMA Created ==
    ASSUME AccountInv, NEW a \in Account, NEW d \in Domain \cup {Null},
           NEW crm \in BOOLEAN, Create(a, d, crm),
           crm => \A b \in Account : ~(Live(b) /\ acct[b].crm),
           alias' = alias, call' = call
    PROVE  DataOK(acct', alias', call')
<1> DEFINE rec == [status |-> "live", domain |-> d, crm |-> crm]
<1>1. acct' = [acct EXCEPT ![a] = rec] /\ (d # Null => ~Taken(d))
  BY DEF Create
<1>2. rec \in AcctTypes /\ rec.status = "live" /\ rec.domain = d /\ rec.crm = crm
  BY DEF AcctTypes
<1> HIDE DEF rec
<1> QED
  BY <1>1, <1>2, AcctWritten

\* Only accounts are written, by no request or by one that goes on to x.
LEMMA AcctStep ==
    ASSUME AccountInv, DataOK(acct', alias', call'), call' = call,
           UNCHANGED <<runs, request, placed, redecided, late, lifo>>,
           begun' \in 0..MaxBegun,
           \/ proc' = proc
           \/ \E p \in Handler, x \in ProcTypes :
                /\ proc' = [proc EXCEPT ![p] = x]
                /\ ProcOK(x, request, runs) /\ x.pc \notin {"take", "commit"}
    PROVE  AccountInv'
<1>1. HistoryTypes'
  BY InvParts DEF HistoryTypes
<1>2. Unseen(call', late') /\ \A q \in Handler : Swept(proc[q], call', late')
  BY InvParts
<1>3. CASE proc' = proc
  BY <1>1, <1>2, <1>3, InvParts, NoProc
<1>4. ASSUME NEW p \in Handler, NEW x \in ProcTypes,
             proc' = [proc EXCEPT ![p] = x],
             ProcOK(x, request, runs), x.pc \notin {"take", "commit"}
      PROVE  AccountInv'
  <2>1. Swept(x, call', late')
    BY <1>4 DEF Swept
  <2> QED
    BY <1>1, <1>2, <1>4, <2>1, InvParts, OneProc
<1> QED
  BY <1>3, <1>4

LEMMA CreateFromCallKeeps ==
    ASSUME AccountInv, NEW p \in Handler, NEW c \in Call, NEW a \in Account,
           NEW d \in Domain \cup {Null}, CreateFromCall(p, c, a, d)
    PROVE  AccountInv'
<1> DEFINE x == [Idle EXCEPT !.pc = "link", !.call = c, !.a = a, !.da = d]
<1>1. /\ Create(a, d, FALSE) /\ proc' = [proc EXCEPT ![p] = x]
      /\ UNCHANGED <<alias, call, runs, request, placed, redecided, late, lifo>>
      /\ begun' \in 0..MaxBegun
  BY BegunTypes DEF CreateFromCall
<1>2. x \in ProcTypes /\ x.pc = "link" /\ x.call = c /\ x.a = a
  BY NullIsNone DEF Idle, ProcTypes
<1> HIDE DEF x
<1>3. ProcOK(x, request, runs)
  BY <1>2 DEF ProcOK, Merging
<1>4. DataOK(acct', alias', call')
  BY <1>1, Created
<1> QED
  BY <1>1, <1>2, <1>3, <1>4, AcctStep

LEMMA UseHintKeeps ==
    ASSUME AccountInv, NEW p \in Handler, UseHint(p)
    PROVE  AccountInv'
<1> DEFINE d == CallDomain[proc[p].call]
<1>1. /\ proc[p].pc = "hint" /\ begun' = begun
      /\ UNCHANGED <<alias, call, runs, request, placed, redecided, late, lifo>>
  BY DEF UseHint
<1>2. PICK a \in Account :
        /\ \/ Live(a) /\ UNCHANGED acct
           \/ ~Taken(d) /\ Create(a, d, FALSE)
        /\ proc' = [proc EXCEPT ![p].pc = "fuzzy", ![p].a = a]
  BY DEF UseHint
<1> DEFINE x == [proc[p] EXCEPT !.pc = "fuzzy", !.a = a]
<1>3. proc' = [proc EXCEPT ![p] = x]
  BY <1>2, TypeParts DEF AccountInv
<1>4. proc[p] \in ProcTypes /\ proc[p].call \in Call
  BY <1>1, InvParts DEF ProcOK
<1>5. x \in ProcTypes /\ x.pc = "fuzzy" /\ x.a = a /\ x.call = proc[p].call
  BY <1>4, NullIsNone DEF ProcTypes
<1> HIDE DEF x
<1>6. ProcOK(x, request, runs)
  BY <1>4, <1>5 DEF ProcOK, Merging
<1>7. d \in Domain \cup {Null}
  BY <1>4, AccountAssumption
<1> HIDE DEF d
<1>8. DataOK(acct', alias', call')
  <2>1. CASE UNCHANGED acct
    BY <1>1, <2>1, InvParts
  <2>2. CASE Create(a, d, FALSE)
    BY <1>1, <1>7, <2>2, Created
  <2> QED
    BY <1>2, <2>1, <2>2
<1>9. begun' \in 0..MaxBegun
  BY <1>1, BegunTypes
<1> QED
  BY <1>1, <1>3, <1>5, <1>6, <1>8, <1>9, AcctStep

LEMMA SyncKeeps ==
    ASSUME AccountInv, NEW a \in Account, NEW d \in Domain \cup {Null},
           SyncCrmAccount(a, d) \/ PollAccount(a, d)
    PROVE  AccountInv'
<1>1. /\ UNCHANGED <<alias, call, runs, request, proc, placed, redecided, late, lifo>>
      /\ begun' \in 0..MaxBegun
  BY BegunTypes DEF SyncCrmAccount, PollAccount
<1>2. \/ Create(a, d, FALSE)
      \/ Create(a, d, TRUE) /\ \A b \in Account : ~(Live(b) /\ acct[b].crm)
  BY DEF SyncCrmAccount, PollAccount
<1>3. DataOK(acct', alias', call')
  BY <1>1, <1>2, Created
<1> QED
  BY <1>1, <1>3, AcctStep

LEMMA UpdateDomainKeeps ==
    ASSUME AccountInv, NEW a \in Account, NEW d \in Domain, UpdateDomain(a, d)
    PROVE  AccountInv'
<1> DEFINE rec == [acct[a] EXCEPT !.domain = d]
<1>1. /\ UNCHANGED <<alias, call, runs, request, proc, placed, redecided, late, lifo>>
      /\ begun' \in 0..MaxBegun /\ Live(a) /\ ~Taken(d)
  BY BegunTypes DEF UpdateDomain
<1>2. acct' = [acct EXCEPT ![a] = rec]
  BY InvParts DEF UpdateDomain, DataOK
<1>3. rec \in AcctTypes /\ rec.status = "live" /\ rec.domain = d /\ rec.crm = acct[a].crm
  BY <1>1, InvParts DEF DataOK, AcctTypes, Live
<1> HIDE DEF rec
<1>4. acct[a].crm => \A b \in Account : b # a => ~(Live(b) /\ acct[b].crm)
  BY <1>1, InvParts DEF DataOK, Unique, Live, LiveIn
<1>5. DataOK(acct', alias', call')
  BY <1>1, <1>2, <1>3, <1>4, AcctWritten
<1> QED
  BY <1>1, <1>5, AcctStep

LEMMA AddAliasKeeps ==
    ASSUME AccountInv, NEW p \in Handler, AddAlias(p)
    PROVE  AccountInv'
<1> DEFINE d == CallDomain[proc[p].call]
<1>1. /\ proc[p].pc = "alias" /\ proc' = [proc EXCEPT ![p] = Idle]
      /\ UNCHANGED <<acct, call, runs, request, begun, placed, redecided, late, lifo>>
      /\ \/ alias' = alias
         \/ Live(proc[p].a) /\ alias' = alias \cup {<<proc[p].a, d>>}
  BY DEF AddAlias, Finish
<1>2. proc[p].call \in Call /\ proc[p].a \in Account
  BY <1>1, InvParts DEF ProcOK
<1>3. d \in Domain
  BY <1>2, AccountAssumption
<1>4. alias' \subseteq Account \X Domain /\ AliasLive(acct, alias')
  BY <1>1, <1>2, <1>3, InvParts DEF DataOK, AliasLive, Live, LiveIn
<1>5. DataOK(acct', alias', call')
  BY <1>1, <1>4, InvParts DEF DataOK
<1>6. ProcOK(Idle, request, runs) /\ Idle.pc \notin {"take", "commit"} /\ begun' \in 0..MaxBegun
  BY <1>1, IdleTypes, BegunTypes DEF ProcOK, Merging
<1> QED
  BY <1>1, <1>5, <1>6, IdleTypes, AcctStep

-----------------------------------------------------------------------------
(***************************************************************************)
(* The commit of a merge, and its undoing.                                 *)
(***************************************************************************)
LEMMA RunAppended ==
    ASSUME NEW rs \in Seq(RunTypes), NEW run \in RunTypes, NEW rq
    PROVE  /\ Append(rs, run) \in Seq(RunTypes)
           /\ Kept(rq, rs, rq, Append(rs, run))
           /\ Append(rs, run)[Len(rs) + 1] = run
           /\ Len(rs) + 1 \in DOMAIN Append(rs, run)
<1>1. /\ Append(rs, run) \in Seq(RunTypes)
      /\ Append(rs, run)[Len(rs) + 1] = run
      /\ Len(rs) + 1 \in DOMAIN Append(rs, run)
      /\ \A i \in DOMAIN rs : i \in DOMAIN Append(rs, run) /\ Append(rs, run)[i] = rs[i]
  OBVIOUS
<1> QED
  BY <1>1 DEF Kept

LEMMA ApprovedKept ==
    ASSUME NEW rq, NEW rs, NEW rq2, NEW rs2, Approved(rq, rs),
           Kept(rq, rs, rq2, rs2), rq2 = rq
    PROVE  Approved(rq2, rs2)
  BY DEF Approved, Kept, MergedPair

\* What the commit knows of its accounts.
LEMMA CommitFacts ==
    ASSUME AccountInv, NEW p \in Handler, CommitMerge(p)
    PROVE  /\ proc[p].a \in Account /\ proc[p].b \in Account
           /\ proc[p].a # proc[p].b
           /\ proc[p].taken \subseteq Call /\ proc[p].snap \in Domain \cup {Null}
           /\ proc[p].taken # {} => LiveIn(acct, proc[p].a)
           /\ MergedAliases(proc[p].a, proc[p].b, proc[p].da, proc[p].db) # {} =>
                LiveIn(acct, proc[p].a)
           /\ proc[p].pc = "commit" /\ proc[p].kind # "undo"
           /\ proc[p].moved \subseteq Call
<1>1. proc[p] \in ProcTypes /\ ProcOK(proc[p], request, runs)
  BY InvParts
<1>2. /\ proc[p].pc = "commit" /\ proc[p].kind # "undo"
      /\ \/ proc[p].taken # {}
         \/ MergedAliases(proc[p].a, proc[p].b, proc[p].da, proc[p].db) # {}
         => Live(proc[p].a)
  BY DEF CommitMerge
<1>3. proc[p].taken \subseteq Call /\ proc[p].moved \subseteq Call
      /\ proc[p].snap \in Domain \cup {Null}
  BY <1>1 DEF ProcTypes
<1> QED
  BY <1>1, <1>2, <1>3 DEF ProcOK, Live, LiveIn, Merging

LEMMA CommitAcct ==
    ASSUME AccountInv, NEW p \in Handler, CommitMerge(p)
    PROVE  /\ acct' \in [Account -> AcctTypes] /\ Unique(acct')
           /\ \A z \in Account : z # proc[p].b /\ LiveIn(acct, z) => LiveIn(acct', z)
<1> DEFINE b == proc[p].b
           rec == [acct[b] EXCEPT !.status = "deleted", !.crm = FALSE, !.domain = Null]
<1>1. b \in Account /\ acct \in [Account -> AcctTypes] /\ Unique(acct)
  BY CommitFacts, InvParts DEF DataOK
<1>2. acct' = [acct EXCEPT ![b] = rec]
  BY <1>1 DEF CommitMerge
<1>3. rec \in AcctTypes /\ rec.status = "deleted"
  BY <1>1 DEF AcctTypes
<1> HIDE DEF rec
<1>4. /\ acct' \in [Account -> AcctTypes]
      /\ \A z \in Account : acct'[z] = IF z = b THEN rec ELSE acct[z]
  BY <1>1, <1>2, <1>3
<1>5. \A z \in Account : LiveIn(acct', z) => z # b /\ acct'[z] = acct[z] /\ LiveIn(acct, z)
  BY <1>3, <1>4 DEF LiveIn
<1>6. Unique(acct')
  BY <1>1, <1>5 DEF Unique
<1> QED
  BY <1>4, <1>6 DEF LiveIn

LEMMA CommitAlias ==
    ASSUME AccountInv, NEW p \in Handler, CommitMerge(p)
    PROVE  alias' \subseteq Account \X Domain /\ AliasLive(acct', alias')
<1> DEFINE a == proc[p].a
           b == proc[p].b
           ds == MergedAliases(a, b, proc[p].da, proc[p].db)
<1>1. alias' = {r \in alias : r[1] # b} \cup {<<a, d>> : d \in ds}
  BY DEF CommitMerge, AliasesAfter
<1>2. /\ a \in Account /\ b \in Account /\ a # b
      /\ ds # {} => LiveIn(acct, a)
  BY CommitFacts
<1>3. ds \subseteq Domain
  BY DEF MergedAliases
<1>4. alias \subseteq Account \X Domain /\ \A r \in alias : LiveIn(acct, r[1])
  BY InvParts DEF DataOK, AliasLive
<1>5. \A z \in Account : z # b /\ LiveIn(acct, z) => LiveIn(acct', z)
  BY CommitAcct
<1> HIDE DEF a, b, ds
<1>6. ASSUME NEW r \in alias'
      PROVE  r \in Account \X Domain /\ LiveIn(acct', r[1])
  <2>1. CASE r \in alias /\ r[1] # b
    <3>1. r \in Account \X Domain /\ r[1] \in Account /\ LiveIn(acct, r[1])
      BY <1>4, <2>1
    <3> QED
      BY <1>5, <2>1, <3>1
  <2>2. CASE \E d \in ds : r = <<a, d>>
    <3>1. PICK d \in ds : r = <<a, d>>
      BY <2>2
    <3>2. r[1] = a /\ d \in Domain /\ LiveIn(acct', a)
      BY <1>2, <1>3, <1>5, <3>1
    <3> QED
      BY <1>2, <3>1, <3>2
  <2> QED
    BY <1>1, <1>6, <2>1, <2>2
<1> QED
  BY <1>6 DEF AliasLive

LEMMA CommitCalls ==
    ASSUME AccountInv, NEW p \in Handler, CommitMerge(p)
    PROVE  /\ call' \in [Call -> CallTypes]
           /\ \A c \in Call :
                /\ call'[c].account =
                     AccountAfter(c, proc[p].a, proc[p].b, proc[p].taken)
                /\ call'[c].method = call[c].method
<1> DEFINE acc(c) == AccountAfter(c, proc[p].a, proc[p].b, proc[p].taken)
<1>1. call' = [c \in Call |-> [call[c] EXCEPT !.account = acc(c)]]
  BY DEF CommitMerge
<1>2. \A c \in Call : call[c] \in CallTypes
  BY InvParts DEF DataOK
<1>3. \A c \in Call : acc(c) \in Accounts
  BY <1>2, CommitFacts, NullIsNone DEF AccountAfter, CallTypes
<1> HIDE DEF acc
<1>4. ASSUME NEW c \in Call
      PROVE  /\ [call[c] EXCEPT !.account = acc(c)] \in CallTypes
             /\ [call[c] EXCEPT !.account = acc(c)].account = acc(c)
             /\ [call[c] EXCEPT !.account = acc(c)].method = call[c].method
  BY <1>2, <1>3 DEF CallTypes
<1>5. \A c \in Call : call'[c].account = acc(c) /\ call'[c].method = call[c].method
  BY <1>1, <1>4
<1> QED
  BY <1>1, <1>4, <1>5 DEF acc

LEMMA CommitData ==
    ASSUME AccountInv, NEW p \in Handler, CommitMerge(p)
    PROVE  DataOK(acct', alias', call')
<1>1. \A z \in Account : z # proc[p].b /\ LiveIn(acct, z) => LiveIn(acct', z)
  BY CommitAcct
<1>2. CallLive(acct', call')
  <2> SUFFICES ASSUME NEW c \in Call, call'[c].account # Null
               PROVE  LiveIn(acct', call'[c].account)
    BY DEF CallLive
  <2>1. call'[c].account = AccountAfter(c, proc[p].a, proc[p].b, proc[p].taken)
    BY CommitCalls
  <2>2. CASE c \in proc[p].taken
    BY <1>1, <2>1, <2>2, CommitFacts DEF AccountAfter
  <2>3. CASE c \notin proc[p].taken
    <3>1. call'[c].account = call[c].account /\ call[c].account # proc[p].b
      BY <2>1, <2>3 DEF AccountAfter
    <3>2. call[c].account \in Account /\ LiveIn(acct, call[c].account)
      BY <3>1, InvParts DEF DataOK, CallLive, CallTypes, Accounts
    <3> QED
      BY <1>1, <3>1, <3>2
  <2> QED
    BY <2>2, <2>3
<1> QED
  BY <1>2, CommitAcct, CommitAlias, CommitCalls DEF DataOK

LEMMA CommitLate ==
    ASSUME AccountInv, NEW p \in Handler, CommitMerge(p)
    PROVE  /\ late' \subseteq Call /\ late \subseteq late'
           /\ Unseen(call', late')
           /\ \A q \in Handler : q # p => Swept(proc[q], call', late')
<1> DEFINE a == proc[p].a
           b == proc[p].b
           m == proc[p].taken
<1>1. late' = late \cup {c \in m : Closing(a, c)}
  BY DEF CommitMerge
<1>2. a \in Account /\ m \subseteq Call /\ late \subseteq Call /\ a # Null
  BY CommitFacts, InvParts, NullIsNone DEF HistoryTypes
<1>3. \A c \in Call : /\ call'[c].account = AccountAfter(c, a, b, m)
                      /\ call'[c].method = call[c].method
  BY CommitCalls
<1>4. /\ Swept(proc[p], call, late) /\ Unseen(call, late) /\ proc[p].pc = "commit"
      /\ proc[p].kind # "undo"
  BY InvParts, CommitFacts
<1>5. late' \subseteq Call /\ late \subseteq late'
  BY <1>1, <1>2
<1>6. ASSUME NEW c \in Call, call'[c].account = Null
      PROVE  call'[c].method = "NONE" \/ c \in late'
  <2>1. c \notin m
    BY <1>2, <1>3, <1>6 DEF AccountAfter
  <2>2. call[c].account = b \/ call[c].account = Null
    BY <1>3, <1>6, <2>1 DEF AccountAfter
  <2> QED
    BY <1>3, <1>4, <1>5, <2>1, <2>2 DEF Swept, Unseen
<1>7. ASSUME NEW q \in Handler, q # p, proc[q].pc \in {"take", "commit"},
             proc[q].kind # "undo", NEW c \in Call, call'[c].account = proc[q].b
      PROVE  c \in proc[q].taken \/ c \in late'
  <2>1. proc[q].b # Null /\ Swept(proc[q], call, late)
    BY <1>7, InvParts, NullIsNone DEF ProcOK, Merging
  <2>2. CASE c \in m
    <3>1. proc[q].b = a
      BY <1>3, <1>7, <2>2 DEF AccountAfter
    <3>2. c \in proc[q].taken \/ Closing(a, c)
      BY <1>7, <3>1 DEF Closing
    <3> QED
      BY <1>1, <2>2, <3>2
  <2>3. CASE c \notin m
    <3>1. call[c].account = proc[q].b
      BY <1>3, <1>7, <2>1, <2>3 DEF AccountAfter
    <3> QED
      BY <1>5, <1>7, <2>1, <3>1 DEF Swept
  <2> QED
    BY <2>2, <2>3
<1> QED
  BY <1>5, <1>6, <1>7 DEF Unseen, Swept

LEMMA CommitHistory ==
    ASSUME AccountInv, NEW p \in Handler, CommitMerge(p)
    PROVE  HistoryTypes'
<1>1. HistoryTypes /\ late' \subseteq Call
  BY InvParts, CommitLate
<1>2. proc[p].a \in Accounts /\ proc[p].taken \subseteq Call /\ proc[p].moved \subseteq Call
  BY CommitFacts, NullIsNone
<1>3. placed' \in [Call -> Accounts]
  BY <1>1, <1>2 DEF CommitMerge, HistoryTypes
<1>4. redecided' \subseteq Call
  BY <1>1, <1>2 DEF CommitMerge, HistoryTypes, Misread
<1>5. UNCHANGED <<begun, lifo>>
  BY DEF CommitMerge
<1> QED
  BY <1>1, <1>3, <1>4, <1>5 DEF HistoryTypes

LEMMA CommitKeeps ==
    ASSUME AccountInv, NEW p \in Handler, CommitMerge(p)
    PROVE  AccountInv'
<1> DEFINE run == NewRun(proc[p].a, proc[p].b, proc[p].snap, proc[p].moved)
           y == [Idle EXCEPT !.pc = "approve"]
<1>1. proc[p] \in ProcTypes /\ ProcOK(proc[p], request, runs) /\ runs \in Seq(RunTypes)
  BY InvParts
<1>2. /\ run \in RunTypes /\ run.primary = proc[p].a /\ run.secondary = proc[p].b
  BY CommitFacts DEF NewRun, RunTypes
<1>3. /\ runs' = IF proc[p].kind = "merge" THEN Append(runs, run) ELSE runs
      /\ request' = request
  BY DEF CommitMerge
<1> HIDE DEF run
<1>4. runs' \in Seq(RunTypes) /\ Kept(request, runs, request', runs')
  BY <1>1, <1>2, <1>3, RunAppended, InvParts
<1>5. Approved(request', runs')
  BY <1>3, <1>4, InvParts, ApprovedKept
<1>6. proc' = IF proc[p].reviewed THEN [proc EXCEPT ![p] = y]
              ELSE [proc EXCEPT ![p] = Idle]
  BY DEF CommitMerge
<1>7. y \in ProcTypes /\ y.pc = "approve"
  BY IdleTypes DEF ProcTypes
<1> HIDE DEF y
<1>8. CASE proc[p].reviewed
  <2>1. /\ proc[p].kind = "merge" /\ request.status # "none"
        /\ proc[p].a = request.primary /\ proc[p].b = request.secondary
    BY <1>1, <1>8, CommitFacts DEF ProcOK, Merging
  <2>2. runs'[Len(runs) + 1] = run /\ Len(runs) + 1 \in DOMAIN runs'
    BY <1>1, <1>2, <1>3, <2>1, RunAppended
  <2>3. MergedPair(runs', request')
    BY <1>2, <1>3, <2>1, <2>2 DEF MergedPair
  <2>4. ProcOK(y, request', runs') /\ Swept(y, call', late')
    BY <1>3, <1>7, <2>1, <2>3 DEF ProcOK, Swept, Merging
  <2>5. proc' = [proc EXCEPT ![p] = y] /\ request' \in RequestTypes
    BY <1>3, <1>6, <1>8, InvParts
  <2> QED
    BY <1>4, <1>5, <1>7, <2>4, <2>5, CommitData, CommitLate, CommitHistory, OneProc
<1>9. CASE ~proc[p].reviewed
  <2>1. ProcOK(Idle, request', runs') /\ Swept(Idle, call', late')
    BY IdleTypes DEF ProcOK, Swept, Merging
  <2>2. proc' = [proc EXCEPT ![p] = Idle] /\ request' \in RequestTypes
    BY <1>3, <1>6, <1>9, InvParts
  <2> QED
    BY <1>4, <1>5, <2>1, <2>2, IdleTypes, CommitData, CommitLate, CommitHistory,
       OneProc
<1> QED
  BY <1>8, <1>9

LEMMA UndoRuns ==
    ASSUME NEW rs \in Seq(RunTypes), NEW i \in DOMAIN rs, NEW rq
    PROVE  /\ [rs EXCEPT ![i].status = "UNDONE"] \in Seq(RunTypes)
           /\ Kept(rq, rs, rq, [rs EXCEPT ![i].status = "UNDONE"])
<1> DEFINE row == [rs[i] EXCEPT !.status = "UNDONE"]
           new == [rs EXCEPT ![i].status = "UNDONE"]
<1>1. rs[i] \in RunTypes /\ DOMAIN rs = 1..Len(rs) /\ Len(rs) \in Nat
  OBVIOUS
<1>2. /\ row \in RunTypes /\ row.primary = rs[i].primary
      /\ row.secondary = rs[i].secondary /\ row.moved = rs[i].moved
  BY <1>1 DEF RunTypes
<1>3. new = [rs EXCEPT ![i] = row]
  OBVIOUS
<1> HIDE DEF row, new
<1>4. /\ DOMAIN new = DOMAIN rs
      /\ \A j \in DOMAIN rs : new[j] = IF j = i THEN row ELSE rs[j]
  BY <1>3
<1>5. new \in Seq(RunTypes)
  BY <1>2, <1>3
<1>6. Kept(rq, rs, rq, new)
  BY <1>2, <1>4 DEF Kept
<1> QED
  BY <1>5, <1>6 DEF new

LEMMA UndoKeeps ==
    ASSUME AccountInv, NEW p \in Handler, CommitUndo(p)
    PROVE  AccountInv'
<1> DEFINE s == proc[p].b
           t == proc[p].taken
           i == proc[p].run
<1>1. /\ UNCHANGED <<alias, request, begun, placed, redecided>>
      /\ runs' = [runs EXCEPT ![i].status = "UNDONE"]
      /\ late' = late \cup {c \in t : Closing(s, c)}
      /\ call' = [c \in Call |-> IF c \in t
                                 THEN [call[c] EXCEPT !.account = s] ELSE call[c]]
      /\ lifo' = InOrder(p)
      /\ proc' = [proc EXCEPT ![p] = Idle]
  BY DEF CommitUndo, Finish
<1>2. /\ proc[p] \in ProcTypes /\ ProcOK(proc[p], request, runs)
      /\ proc[p].pc = "commit" /\ proc[p].kind = "undo" /\ runs \in Seq(RunTypes)
  BY InvParts DEF CommitUndo
<1>3. s \in Account /\ t \subseteq Call /\ i \in DOMAIN runs
  BY <1>2 DEF ProcOK, Merging, ProcTypes
<1>4. runs[i] \in RunTypes
  BY <1>2, <1>3
<1>5. runs[i].domain \in Domain \cup {Null}
  BY <1>4 DEF RunTypes
<1>6. DataOK(acct', alias, call) /\ (t # {} => LiveIn(acct', s))
  <2>1. CASE ~proc[p].create
    BY <2>1, InvParts DEF CommitUndo, Live, LiveIn
  <2>2. CASE proc[p].create
    <3> DEFINE rec == [status |-> "live", domain |-> runs[i].domain, crm |-> FALSE]
    <3>1. acct' = [acct EXCEPT ![s] = rec] /\ (runs[i].domain # Null => ~Taken(runs[i].domain))
      BY <2>2 DEF CommitUndo
    <3>2. rec \in AcctTypes /\ rec.status = "live" /\ rec.domain = runs[i].domain /\ ~rec.crm
      BY <1>5 DEF AcctTypes
    <3> HIDE DEF rec
    <3>3. DataOK(acct', alias, call)
      BY <1>3, <3>1, <3>2, AcctWritten
    <3>4. acct'[s] = rec
      BY <1>3, <3>1, InvParts DEF DataOK
    <3> QED
      BY <3>2, <3>3, <3>4 DEF LiveIn
  <2> QED
    BY <2>1, <2>2
<1> HIDE DEF s, t
<1>7. ASSUME NEW c \in Call
      PROVE  /\ call'[c] \in CallTypes /\ call'[c].method = call[c].method
             /\ call'[c].account = IF c \in t THEN s ELSE call[c].account
  <2>1. call[c] \in CallTypes /\ s \in Accounts
    BY <1>3, InvParts, NullIsNone DEF DataOK
  <2>2. /\ [call[c] EXCEPT !.account = s] \in CallTypes
        /\ [call[c] EXCEPT !.account = s].account = s
        /\ [call[c] EXCEPT !.account = s].method = call[c].method
    BY <2>1 DEF CallTypes
  <2> QED
    BY <1>1, <2>1, <2>2
<1>8. call' \in [Call -> CallTypes]
  BY <1>1, <1>7
<1>9. CallLive(acct', call')
  BY <1>6, <1>7 DEF CallLive, DataOK
<1>10. DataOK(acct', alias', call')
  BY <1>1, <1>6, <1>8, <1>9 DEF DataOK
<1>11. late' \subseteq Call /\ late \subseteq late'
  BY <1>1, <1>3, InvParts DEF HistoryTypes
<1>12. Unseen(call', late')
  BY <1>3, <1>7, <1>11, InvParts, NullIsNone DEF Unseen
<1>13. ASSUME NEW q \in Handler, proc[q].pc \in {"take", "commit"},
              proc[q].kind # "undo", NEW c \in Call, call'[c].account = proc[q].b
       PROVE  c \in proc[q].taken \/ c \in late'
  <2>1. CASE c \in t
    <3>1. c \in proc[q].taken \/ Closing(s, c)
      BY <1>7, <1>13, <2>1 DEF Closing
    <3> QED
      BY <1>1, <2>1, <3>1
  <2>2. CASE c \notin t
    BY <1>7, <1>11, <1>13, <2>2, InvParts DEF Swept
  <2> QED
    BY <2>1, <2>2
<1>14. \A q \in Handler : Swept(proc[q], call', late')
  BY <1>13 DEF Swept
<1>15. runs' \in Seq(RunTypes) /\ Kept(request, runs, request', runs')
  BY <1>1, <1>2, <1>3, UndoRuns
<1>16. Approved(request', runs')
  BY <1>1, <1>15, InvParts, ApprovedKept
<1>17. HistoryTypes'
  BY <1>1, <1>11, InvParts, InOrderTypes DEF HistoryTypes
<1>18. request' \in RequestTypes /\ ProcOK(Idle, request', runs') /\ Swept(Idle, call', late')
  BY <1>1, InvParts, IdleOK
<1> QED
  BY <1>1, <1>10, <1>12, <1>14, <1>15, <1>16, <1>17, <1>18, IdleTypes, OneProc

-----------------------------------------------------------------------------
(***************************************************************************)
(* Requests, and every step together.                                      *)
(***************************************************************************)
LEMMA RequestKeeps ==
    ASSUME AccountInv, NEW a \in Account, NEW b \in Account, RequestMerge(a, b)
    PROVE  AccountInv'
<1>1. /\ UNCHANGED <<acct, alias, call, runs, proc, placed, redecided, late, lifo>>
      /\ begun' \in 0..MaxBegun /\ request.status = "none"
      /\ request' = [status |-> "PENDING", primary |-> a, secondary |-> b]
  BY BegunTypes DEF RequestMerge
<1>2. request' \in RequestTypes /\ request'.status = "PENDING"
  BY <1>1, NullIsNone DEF RequestTypes
<1>3. Kept(request, runs, request', runs')
  BY <1>1 DEF Kept
<1>4. Approved(request', runs')
  BY <1>2 DEF Approved
<1>5. HistoryTypes'
  BY <1>1, InvParts DEF HistoryTypes
<1> QED
  BY <1>1, <1>2, <1>3, <1>4, <1>5, InvParts, NoProc

LEMMA FinalizeKeeps ==
    ASSUME AccountInv, NEW p \in Handler, Finalize(p)
    PROVE  AccountInv'
<1> DEFINE st == IF proc[p].pc = "approve" THEN "APPROVED" ELSE "REJECTED"
<1>1. /\ UNCHANGED <<acct, alias, call, runs, begun, placed, redecided, late, lifo>>
      /\ request' = [request EXCEPT !.status = st]
      /\ proc' = [proc EXCEPT ![p] = Idle]
  BY DEF Finalize, Finish
<1>2. /\ request' \in RequestTypes /\ request'.status = st
      /\ request'.primary = request.primary /\ request'.secondary = request.secondary
  BY <1>1, InvParts DEF RequestTypes
<1>3. Kept(request, runs, request', runs')
  BY <1>1, <1>2 DEF Kept
<1>4. Approved(request', runs')
  <2>1. st = "APPROVED" => MergedPair(runs, request)
    BY InvParts DEF ProcOK
  <2> QED
    BY <1>1, <1>2, <2>1 DEF Approved, MergedPair
<1>5. HistoryTypes'
  BY <1>1, InvParts DEF HistoryTypes
<1>6. ProcOK(Idle, request', runs') /\ Swept(Idle, call', late')
  BY IdleTypes DEF ProcOK, Swept, Merging
<1> QED
  BY <1>1, <1>2, <1>3, <1>4, <1>5, <1>6, IdleTypes, InvParts, OneProc

LEMMA HandlerKeeps ==
    ASSUME AccountInv, NEW p \in Handler,
           \/ \E c \in Call, a \in Account : BeginResolve(p, c, a)
           \/ LinkManually(p) \/ AddAlias(p)
           \/ \E c \in Call, a \in Account, d \in Domain \cup {Null} :
                CreateFromCall(p, c, a, d)
           \/ \E c \in Call : BeginAuto(p, c)
           \/ LinkAuto(p) \/ UseHint(p) \/ LinkByHint(p)
           \/ \E a, b \in Account : BeginMerge(p, a, b)
           \/ \E a, b \in Account : BeginLegacyMerge(p, a, b)
           \/ ReadCalls(p) \/ BeginUpdate(p) \/ TakeCalls(p) \/ CommitMerge(p)
           \/ \E i \in DOMAIN runs : BeginUndo(p, i)
           \/ CommitUndo(p)
           \/ ReviewApprove(p) \/ ReviewReject(p) \/ Finalize(p)
           \/ Fail(p)
    PROVE  AccountInv'
<1>1. ASSUME NEW a \in Account, NEW b \in Account,
             BeginMerge(p, a, b) \/ BeginLegacyMerge(p, a, b)
      PROVE  AccountInv'
  BY <1>1, StartMergeKeeps DEF BeginMerge, BeginLegacyMerge
<1>2. CASE ReviewApprove(p)
  <2>1. /\ StartMerge(p, "merge", request.primary, request.secondary, TRUE)
        /\ request.status # "none"
    BY <1>2 DEF ReviewApprove
  <2> QED
    BY <2>1, StartMergeKeeps
<1> QED
  BY <1>1, <1>2, BeginResolveKeeps, LinkManuallyKeeps, AddAliasKeeps,
     CreateFromCallKeeps, BeginAutoKeeps, LinkAutoKeeps, UseHintKeeps,
     LinkByHintKeeps, ReadCallsKeeps, BeginUpdateKeeps, TakeCallsKeeps, CommitKeeps,
     BeginUndoKeeps, UndoKeeps, ReviewRejectKeeps, FinalizeKeeps, FailKeeps

LEMMA AccountNext ==
    ASSUME AccountInv, [Next]_vars
    PROVE  AccountInv'
<1>1. CASE UNCHANGED vars
  <2>1. /\ UNCHANGED <<acct, alias, call, runs, request, proc, late>>
        /\ UNCHANGED <<begun, placed, redecided, lifo>>
    BY <1>1 DEF vars
  <2>2. HistoryTypes'
    BY <2>1, InvParts DEF HistoryTypes
  <2> QED
    BY <2>1, <2>2, InvParts, NoProc
<1> QED
  BY <1>1, HandlerKeeps, DismissKeeps, SyncKeeps, UpdateDomainKeeps, RequestKeeps
     DEF Next

LEMMA AccountInit == Init => AccountInv
<1> SUFFICES ASSUME Init PROVE AccountInv
  OBVIOUS
<1>1. PICK n \in Account :
         /\ acct = [a \in Account |->
              [status |-> IF a \in 1..n THEN "live" ELSE "fresh",
               domain |-> IF a \in (1..n) \cap Domain THEN a ELSE Null,
               crm |-> a \in 1..n /\ a = CrmKnown]]
         /\ call \in [Call -> [account : (1..n) \cup {Null}, method : {"NONE"},
                               dismissed : {FALSE}]]
  BY DEF Init
<1>3. 1..n \subseteq Account
  <2>1. Cardinality(Account) \in Nat
    BY AccountAssumption, FS_CardinalityType
  <2>2. n \in 1..Cardinality(Account)
    BY AccountAssumption
  <2>3. 1..n \subseteq 1..Cardinality(Account)
    BY <2>1, <2>2
  <2> QED
    BY <2>3, AccountAssumption
<1>4. \A a \in Account : /\ acct[a].status = IF a \in 1..n THEN "live" ELSE "fresh"
                         /\ acct[a].domain = IF a \in (1..n) \cap Domain THEN a ELSE Null
                         /\ acct[a].crm = (a \in 1..n /\ a = CrmKnown)
  BY <1>1
<1>5. acct \in [Account -> AcctTypes]
  BY <1>1 DEF AcctTypes
<1>6. Unique(acct)
  <2> SUFFICES ASSUME NEW a \in Account, NEW b \in Account, a # b
               PROVE  /\ acct[a].domain = acct[b].domain => acct[a].domain = Null
                      /\ ~(acct[a].crm /\ acct[b].crm)
    BY DEF Unique
  <2>1. acct[a].domain \in {a, Null} /\ acct[b].domain \in {b, Null}
    BY <1>4
  <2>2. acct[a].domain = acct[b].domain => acct[a].domain = Null
    BY <2>1
  <2>3. (acct[a].crm => a = CrmKnown) /\ (acct[b].crm => b = CrmKnown)
    BY <1>4
  <2>4. ~(acct[a].crm /\ acct[b].crm)
    BY <2>3, Zenon
  <2> QED
    BY <2>2, <2>4
<1>7. \A c \in Call : /\ call[c].account \in (1..n) \cup {Null}
                      /\ call[c].method = "NONE"
  BY <1>1
<1>8. call \in [Call -> CallTypes]
  BY <1>1, <1>3, NullIsNone DEF CallTypes, Accounts
<1>9. CallLive(acct, call)
  BY <1>3, <1>4, <1>7 DEF CallLive, LiveIn
<1>10. /\ alias = {} /\ runs = <<>> /\ begun = 0 /\ redecided = {} /\ late = {}
       /\ placed = [c \in Call |-> call[c].account]
       /\ request = [status |-> "none", primary |-> Null, secondary |-> Null]
       /\ proc = [p \in Handler |-> Idle] /\ lifo = TRUE
  BY DEF Init
<1>11. DataOK(acct, alias, call)
  BY <1>5, <1>6, <1>8, <1>9, <1>10 DEF DataOK, AliasLive
<1>12. lifo \in BOOLEAN
  BY <1>10, Zenon
<1>13. placed \in [Call -> Accounts]
  BY <1>8, <1>10 DEF CallTypes
<1>14. HistoryTypes
  BY <1>10, <1>12, <1>13, AccountAssumption DEF HistoryTypes
<1>15. request \in RequestTypes /\ request.status = "none"
  BY <1>10, NullIsNone DEF RequestTypes
<1>16. runs \in Seq(RunTypes)
  BY <1>10
<1>17. proc \in [Handler -> ProcTypes] /\ \A p \in Handler : proc[p] = Idle
  BY <1>10, IdleTypes
<1>18. TypeOK
  BY <1>11, <1>14, <1>15, <1>16, <1>17, TypeParts
<1>19. ProcsOK /\ SweptInv
  BY <1>17, IdleOK DEF ProcsOK, SweptInv
<1>20. Unseen(call, late)
  BY <1>7 DEF Unseen
<1>21. Approved(request, runs)
  BY <1>15 DEF Approved
<1> QED
  BY <1>18, <1>19, <1>20, <1>21 DEF AccountInv

(***************************************************************************)
(* The rows keep their types, their unique columns and their references,   *)
(* whichever resolutions, merges, undos and syncs overlap.                 *)
(***************************************************************************)
THEOREM AccountRowsHold == Spec => []TypeOK
<1>1. AccountInv => TypeOK
  BY DEF AccountInv
<1> QED
  BY <1>1, AccountInit, AccountNext, PTL DEF Spec

(***************************************************************************)
(* A call loses its account unseen only if it was put on an account after  *)
(* that account's merge looked for the calls to move, or was dismissed.    *)
(***************************************************************************)
THEOREM UnlinkedCallsAreQueued == Spec => []UnlinkedIsQueued
<1>1. AccountInv => UnlinkedIsQueued
  BY DEF AccountInv, Unseen, InQueue, UnlinkedIsQueued
<1> QED
  BY <1>1, AccountInit, AccountNext, PTL DEF Spec

(***************************************************************************)
(* An approved merge request has been carried out (approveMergeRequest).   *)
(***************************************************************************)
THEOREM ApprovedRequestsMerged == Spec => []ApprovedMeansMerged
<1>1. AccountInv => ApprovedMeansMerged
  BY DEF AccountInv, Approved, MergedPair, ApprovedMeansMerged
<1> QED
  BY <1>1, AccountInit, AccountNext, PTL DEF Spec

-----------------------------------------------------------------------------
(***************************************************************************)
(* Sets of natural numbers.                                                *)
(***************************************************************************)
\* A nonempty set of natural numbers has a least element.
LEMMA LeastNat ==
    ASSUME NEW T, T \subseteq Nat, T # {}
    PROVE  \E x \in T : \A y \in T : x <= y
<1>1. PICK R : R = OpToRel(<, Nat)
  OBVIOUS
<1>2. IsWellFoundedOn(R, Nat)
  BY <1>1, NatLessThanWellFounded
<1>3. PICK x \in T : \A y \in T : ~ (<<y, x>> \in R)
  BY <1>2, WFMin
<1>4. ASSUME NEW y \in T PROVE x <= y
  <2>1. x \in Nat /\ y \in Nat
    BY <1>3
  <2>2. y < x => <<y, x>> \in R
    BY <1>1, <2>1 DEF OpToRel
  <2> QED
    BY <1>3, <2>1, <2>2
<1> QED
  BY <1>3, <1>4

\* A nonempty bounded one has a greatest, by which Max is defined.
LEMMA MaxOf ==
    ASSUME NEW n \in Nat, NEW S, S \subseteq 0..n, S # {}
    PROVE  Max(S) \in S /\ \A y \in S : y <= Max(S)
<1> DEFINE T == {m \in Nat : \A y \in S : y <= m}
<1>1. n \in T
  OBVIOUS
<1>2. PICK m \in T : \A k \in T : m <= k
  BY <1>1, LeastNat
<1>3. m \in S
  <2> SUFFICES ASSUME m \notin S PROVE FALSE
    OBVIOUS
  <2>1. PICK y \in S : TRUE
    OBVIOUS
  <2>2. m # 0 
    BY <2>1
  <2>3. m - 1 \in T
    BY <2>2
  <2> QED
    BY <1>2, <2>3
<1>4. \E x \in S : \A y \in S : x >= y
  BY <1>2, <1>3
<1> QED
  BY <1>4 DEF Max
-----------------------------------------------------------------------------
(***************************************************************************)
(* Undo.  The completed merges that moved a call form a chain from where   *)
(* the last resolution put it: each moved it from the primary of the one   *)
(* before.  An undo of the last merge takes the last link off.             *)
(***************************************************************************)
\* Where merges, in the order of rs, that moved a call from pl have put it.
Moving(rs, c) == {i \in DOMAIN rs : rs[i].status = "COMPLETED" /\ c \in rs[i].moved}
Top(rs, S, pl) == IF S = {} THEN pl ELSE rs[Max(S)].primary
Below(S, i) == {j \in S : j < i}

\* The merges that moved c form a chain from pl to x.
Chained(rs, x, pl, c) ==
    /\ x = Top(rs, Moving(rs, c), pl)
    /\ \A i \in Moving(rs, c) :
         rs[i].secondary = Top(rs, Below(Moving(rs, c), i), pl)

ChainInv ==
    lifo => \A c \in Call \ (late \cup redecided) :
              Chained(runs, call[c].account, placed[c], c)

\* The calls that a merge or an undo has taken and not yet committed: they
\* stay where it found them, and no other has them.
From(x) == IF x.kind = "undo" THEN x.a ELSE x.b

HeldInv ==
    \A p \in Handler : proc[p].pc = "commit" =>
        /\ \A c \in proc[p].taken : call[c].account = From(proc[p])
        /\ \A q \in Handler : q # p /\ proc[q].pc = "commit" =>
             proc[p].taken \cap proc[q].taken = {}

\* An undo of a merge not undone yet has looked for all the calls of its run
\* that the chains are about, and for no others.
Seen(x, rs, lt, rd) ==
    x.kind = "undo" /\ x.pc \in {"take", "commit"} =>
        /\ x.taken \subseteq x.moved
        /\ rs[x.run].status = "COMPLETED" =>
             \A c \in x.moved : c \in x.taken \/ c \in lt \/ c \in rd

SeenInv == lifo => \A p \in Handler : Seen(proc[p], runs, late, redecided)

LEMMA MaxOfRuns ==
    ASSUME NEW rs \in Seq(RunTypes), NEW S, S \subseteq DOMAIN rs, S # {}
    PROVE  Max(S) \in S /\ \A i \in S : i \in Nat /\ i <= Max(S)
<1>1. Len(rs) \in Nat /\ S \subseteq 0..Len(rs)
  OBVIOUS
<1> QED
  BY <1>1, MaxOf

\* Top looks at the primaries of S alone.
LEMMA TopSame ==
    ASSUME NEW rs \in Seq(RunTypes), NEW S, S \subseteq DOMAIN rs, NEW rs2, NEW pl,
           \A i \in S : rs2[i].primary = rs[i].primary
    PROVE  Top(rs2, S, pl) = Top(rs, S, pl)
<1>1. CASE S = {}
  BY <1>1 DEF Top
<1>2. CASE S # {}
  <2>1. Max(S) \in S
    BY <1>2, MaxOfRuns
  <2> QED
    BY <1>2, <2>1 DEF Top
<1> QED
  BY <1>1, <1>2

\* The chain of a call depends on nothing but the merges that moved it.
LEMMA ChainSame ==
    ASSUME NEW rs \in Seq(RunTypes), NEW rs2, NEW x, NEW pl, NEW c,
           Moving(rs2, c) = Moving(rs, c),
           \A i \in Moving(rs, c) : /\ rs2[i].primary = rs[i].primary
                                    /\ rs2[i].secondary = rs[i].secondary,
           Chained(rs, x, pl, c)
    PROVE  Chained(rs2, x, pl, c)
<1>1. Moving(rs, c) \subseteq DOMAIN rs
  BY DEF Moving
<1>2. Top(rs2, Moving(rs, c), pl) = Top(rs, Moving(rs, c), pl)
  BY <1>1, TopSame
<1>3. ASSUME NEW i
      PROVE  Top(rs2, Below(Moving(rs, c), i), pl) = Top(rs, Below(Moving(rs, c), i), pl)
  <2>1. Below(Moving(rs, c), i) \subseteq Moving(rs, c)
    BY DEF Below
  <2> QED
    BY <1>1, <2>1, TopSame
<1> QED
  BY <1>2, <1>3 DEF Chained

\* A merge that moved the call extends its chain.
LEMMA ChainExtends ==
    ASSUME NEW rs \in Seq(RunTypes), NEW run \in RunTypes, NEW pl, NEW c,
           run.status = "COMPLETED", c \in run.moved,
           Chained(rs, run.secondary, pl, c)
    PROVE  Chained(Append(rs, run), run.primary, pl, c)
<1> DEFINE n == Len(rs) + 1
           new == Append(rs, run)
           S == Moving(rs, c)
           S2 == Moving(new, c)
<1>1. /\ new \in Seq(RunTypes) /\ n \in DOMAIN new /\ new[n] = run
      /\ n \in Nat /\ DOMAIN rs = 1..(n - 1) /\ DOMAIN new = 1..n
      /\ \A i \in DOMAIN rs : new[i] = rs[i]
  OBVIOUS
<1> HIDE DEF n, new
<1>2. S \subseteq DOMAIN rs /\ S2 \subseteq DOMAIN new
  BY DEF Moving
<1>3. S2 = S \cup {n}
  BY <1>1 DEF Moving
<1> HIDE DEF S, S2
<1>4. Max(S2) = n
  <2>1. Max(S2) \in S2 /\ n <= Max(S2)
    BY <1>1, <1>2, <1>3, MaxOfRuns
  <2> QED
    BY <1>1, <1>2, <2>1
<1>5. run.primary = Top(new, S2, pl)
  BY <1>1, <1>3, <1>4 DEF Top
<1>6. Below(S2, n) = S
  BY <1>1, <1>2, <1>3 DEF Below
<1>7. \A i \in S : Below(S2, i) = Below(S, i)
  BY <1>1, <1>2, <1>3 DEF Below
<1>8. \A U \in SUBSET S : Top(new, U, pl) = Top(rs, U, pl)
  BY <1>1, <1>2, TopSame
<1>9. ASSUME NEW i \in S2 PROVE new[i].secondary = Top(new, Below(S2, i), pl)
  <2>1. CASE i = n
    <3>1. run.secondary = Top(rs, S, pl)
      BY DEF Chained, S
    <3> QED
      BY <1>1, <1>6, <1>8, <2>1, <3>1
  <2>2. CASE i \in S
    <3>1. rs[i].secondary = Top(rs, Below(S, i), pl)
      BY <2>2 DEF Chained, S
    <3>2. Below(S, i) \in SUBSET S /\ i \in DOMAIN rs
      BY <1>2, <2>2 DEF Below
    <3> QED
      BY <1>1, <1>7, <1>8, <2>2, <3>1, <3>2
  <2> QED
    BY <1>3, <2>1, <2>2
<1> QED
  BY <1>5, <1>9 DEF Chained, S2, new

\* Undoing the last merge takes the last link off.
LEMMA ChainUndone ==
    ASSUME NEW rs \in Seq(RunTypes), NEW i \in DOMAIN rs, NEW x, NEW pl, NEW c,
           rs[i].status = "COMPLETED", c \in rs[i].moved,
           \A j \in DOMAIN rs : j > i => rs[j].status = "UNDONE",
           Chained(rs, x, pl, c), NEW new, DOMAIN new = DOMAIN rs,
           \A j \in DOMAIN rs : j # i => new[j] = rs[j], new[i].status = "UNDONE"
    PROVE  x = rs[i].primary /\ Chained(new, rs[i].secondary, pl, c)
<1> DEFINE S == Moving(rs, c)
           S2 == Moving(new, c)
<1>1. DOMAIN rs \subseteq Nat
  OBVIOUS
<1>2. S \subseteq DOMAIN rs /\ i \in S /\ \A j \in S : rs[j].status = "COMPLETED"
  BY DEF Moving
<1>3. S2 = S \ {i}
  BY <1>1 DEF Moving
<1>4. \A j \in S : j <= i
  BY <1>1, <1>2
<1> HIDE DEF S, S2
<1>5. Max(S) = i
  <2>1. Max(S) \in S /\ i <= Max(S)
    BY <1>2, MaxOfRuns
  <2> QED
    BY <1>1, <1>2, <1>4, <2>1
<1>6. x = rs[i].primary
  BY <1>2, <1>5 DEF Chained, Top, S
<1>7. S2 = Below(S, i)
  BY <1>1, <1>2, <1>3, <1>4 DEF Below
<1>8. ASSUME NEW U \in SUBSET S2 PROVE Top(new, U, pl) = Top(rs, U, pl)
  <2>1. U \subseteq DOMAIN rs /\ \A k \in U : new[k].primary = rs[k].primary
    BY <1>1, <1>2, <1>3
  <2> QED
    BY <2>1, TopSame
<1>9. rs[i].secondary = Top(new, S2, pl)
  <2>1. rs[i].secondary = Top(rs, Below(S, i), pl)
    BY <1>2 DEF Chained, S
  <2> QED
    BY <1>7, <1>8, <2>1
<1>10. ASSUME NEW j \in S2 PROVE new[j].secondary = Top(new, Below(S2, j), pl)
  <2>1. j \in S /\ j # i /\ j \in DOMAIN rs /\ new[j] = rs[j]
    BY <1>1, <1>2, <1>3
  <2>2. rs[j].secondary = Top(rs, Below(S, j), pl)
    BY <2>1 DEF Chained, S
  <2>3. Below(S2, j) = Below(S, j) /\ Below(S2, j) \in SUBSET S2
    BY <1>1, <1>2, <1>3, <1>4, <2>1 DEF Below
  <2> QED
    BY <1>8, <2>1, <2>2, <2>3
<1> QED
  BY <1>6, <1>9, <1>10 DEF Chained, S2

-----------------------------------------------------------------------------
(***************************************************************************)
(* The steps.  A merge moves the calls it has locked from its secondary,   *)
(* where every chain that it extends ends; an undo has locked the calls    *)
(* whose chains end with its merge.                                        *)
(***************************************************************************)
UndoInv == AccountInv /\ HeldInv /\ ChainInv /\ SeenInv

Undone == HeldInv /\ ChainInv /\ SeenInv

LEMMA UndoParts ==
    ASSUME UndoInv
    PROVE  /\ AccountInv /\ HeldInv /\ ChainInv /\ SeenInv
           /\ proc \in [Handler -> ProcTypes] /\ runs \in Seq(RunTypes)
           /\ call \in [Call -> CallTypes] /\ placed \in [Call -> Accounts]
           /\ late \subseteq Call /\ redecided \subseteq Call
           /\ \A q \in Handler : /\ proc[q].taken \subseteq Call
                                 /\ proc[q].moved \subseteq Call
                                 /\ ProcOK(proc[q], request, runs)
                                 /\ Swept(proc[q], call, late)
<1>1. AccountInv
  BY DEF UndoInv
<1>2. \A q \in Handler : proc[q].taken \subseteq Call /\ proc[q].moved \subseteq Call
  BY <1>1, InvParts DEF ProcTypes
<1> QED
  BY <1>1, <1>2, InvParts, TypeParts DEF UndoInv, AccountInv, DataOK, HistoryTypes

\* Only p moves, to a step that holds nothing; what the others hold stays.
LEMMA HeldKept ==
    ASSUME HeldInv, NEW p, \A q \in Handler : q # p => proc'[q] = proc[q],
           p \in Handler => proc'[p].pc # "commit",
           \A q \in Handler : q # p /\ proc[q].pc = "commit" =>
              \A c \in proc[q].taken : call'[c].account = call[c].account
    PROVE  HeldInv'
<1> SUFFICES ASSUME NEW q \in Handler, proc'[q].pc = "commit"
             PROVE  /\ \A c \in proc'[q].taken : call'[c].account = From(proc'[q])
                    /\ \A r \in Handler : r # q /\ proc'[r].pc = "commit" =>
                         proc'[q].taken \cap proc'[r].taken = {}
  BY DEF HeldInv, From
<1>1. q # p /\ proc'[q] = proc[q] /\ proc[q].pc = "commit"
  OBVIOUS
<1>2. /\ \A c \in proc[q].taken : call[c].account = From(proc[q])
      /\ \A r \in Handler : r # q /\ proc[r].pc = "commit" =>
             proc[q].taken \cap proc[r].taken = {}
  BY <1>1 DEF HeldInv
<1>3. \A c \in proc[q].taken : call'[c].account = From(proc[q])
  BY <1>1, <1>2
<1>4. \A r \in Handler : proc'[r].pc = "commit" => proc'[r] = proc[r]
  OBVIOUS
<1> QED
  BY <1>1, <1>2, <1>3, <1>4

\* Only p moves, to a step that is no undo's search; runs and exceptions only
\* grow for the calls that the undos are about.
LEMMA SeenKept ==
    ASSUME SeenInv, NEW p, \A q \in Handler : q # p => proc'[q] = proc[q],
           p \in Handler => proc'[p].pc \notin {"take", "commit"},
           lifo' => lifo,
           \A q \in Handler : q # p /\ Seen(proc[q], runs, late, redecided)
              => Seen(proc[q], runs', late', redecided')
    PROVE  SeenInv'
<1> SUFFICES ASSUME lifo', NEW q \in Handler
             PROVE  Seen(proc'[q], runs', late', redecided')
  BY DEF SeenInv
<1>1. CASE q = p
  BY <1>1 DEF Seen
<1>2. CASE q # p
  BY <1>2 DEF SeenInv
<1> QED
  BY <1>1, <1>2

\* Steps that move no call.
LEMMA UndoSame ==
    ASSUME UndoInv, UNCHANGED <<runs, placed, redecided, late, lifo>>,
           \A c \in Call : call'[c].account = call[c].account,
           \/ proc' = proc
           \/ \E p \in Handler : /\ proc'[p].pc \notin {"take", "commit"}
                                 /\ \A q \in Handler : q # p => proc'[q] = proc[q]
    PROVE  Undone'
<1>0. /\ HeldInv /\ ChainInv /\ SeenInv
      /\ \A q \in Handler : \A c \in proc[q].taken : call'[c].account = call[c].account
  BY UndoParts
<1>1. ChainInv'
  BY <1>0 DEF ChainInv
<1>2. ASSUME NEW p \in Handler, proc'[p].pc \notin {"take", "commit"},
             \A q \in Handler : q # p => proc'[q] = proc[q]
      PROVE  HeldInv' /\ SeenInv'
  <2>1. HeldInv'
    BY <1>0, <1>2, HeldKept
  <2>2. SeenInv'
    BY <1>0, <1>2, SeenKept
  <2> QED
    BY <2>1, <2>2
<1>3. CASE proc' = proc
  <2>1. HeldInv'
    BY <1>0, <1>3 DEF HeldInv, From
  <2>2. SeenInv'
    BY <1>0, <1>3 DEF SeenInv
  <2> QED
    BY <1>1, <2>1, <2>2 DEF Undone
<1> QED
  BY <1>1, <1>2, <1>3 DEF Undone

LEMMA UndoDecide ==
    ASSUME UndoInv, NEW p \in Handler, NEW c \in Call, NEW a, NEW m, Decide(c, a, m),
           UNCHANGED <<runs, lifo>>, proc'[p].pc \notin {"take", "commit"},
           \A q \in Handler : q # p => proc'[q] = proc[q]
    PROVE  Undone'
<1>0. /\ HeldInv /\ ChainInv /\ SeenInv
      /\ call \in [Call -> CallTypes] /\ placed \in [Call -> Accounts]
      /\ \A q \in Handler : proc[q].taken \subseteq Call /\ proc[q].moved \subseteq Call
      /\ \A q \in Handler : ProcOK(proc[q], request, runs)
  BY UndoParts
<1>1. /\ ~Locked(c)
      /\ call' = [call EXCEPT ![c].account = a, ![c].method = m]
      /\ placed' = [placed EXCEPT ![c] = a]
      /\ redecided' = IF MovedBy(c) = {} THEN redecided \ {c} ELSE redecided \cup {c}
      /\ late' = IF Closing(a, c) THEN late \cup {c} ELSE late \ {c}
  BY DEF Decide
<1>2. /\ call'[c].account = a /\ placed'[c] = a
      /\ \A z \in Call : z # c => /\ call'[z] = call[z] /\ placed'[z] = placed[z]
                                  /\ z \in late' <=> z \in late
                                  /\ z \in redecided' <=> z \in redecided
  BY <1>0, <1>1 DEF CallTypes
<1>3. \A q \in Handler : proc[q].pc = "commit" => c \notin proc[q].taken
  BY <1>1 DEF Locked
<1>4. HeldInv'
  <2>1. \A q \in Handler : q # p /\ proc[q].pc = "commit" =>
          \A z \in proc[q].taken : call'[z].account = call[z].account
    BY <1>0, <1>2, <1>3
  <2> QED
    BY <1>0, <2>1, HeldKept
<1>5. ASSUME lifo, NEW z \in Call, z \notin late', z \notin redecided'
      PROVE  Chained(runs, call'[z].account, placed'[z], z)
  <2>1. CASE z # c
    BY <1>0, <1>2, <1>5, <2>1 DEF ChainInv
  <2>2. CASE z = c
    <3>1. Moving(runs, c) = {}
      BY <1>1, <1>5, <2>2 DEF MovedBy, Moving
    <3> QED
      BY <1>2, <2>2, <3>1 DEF Chained, Top
  <2> QED
    BY <2>1, <2>2
<1>6. ChainInv'
  BY <1>5 DEF ChainInv
<1>7. ASSUME NEW q \in Handler, q # p, Seen(proc[q], runs, late, redecided)
      PROVE  Seen(proc[q], runs', late', redecided')
  <2> SUFFICES ASSUME proc[q].kind = "undo", proc[q].pc \in {"take", "commit"},
                      runs[proc[q].run].status = "COMPLETED", NEW z \in proc[q].moved
               PROVE  z \in proc[q].taken \/ z \in late' \/ z \in redecided'
    BY <1>7 DEF Seen
  <2>1. z \in proc[q].taken \/ z \in late \/ z \in redecided
    BY <1>7 DEF Seen
  <2>2. CASE z # c
    BY <1>0, <1>2, <2>1, <2>2
  <2>3. CASE z = c
    <3>1. proc[q].run \in DOMAIN runs /\ runs[proc[q].run].moved = proc[q].moved
      BY <1>0 DEF ProcOK, Merging
    <3>2. MovedBy(c) # {}
      BY <2>3, <3>1 DEF MovedBy
    <3> QED
      BY <1>1, <2>3, <3>2
  <2> QED
    BY <2>2, <2>3
<1>8. SeenInv'
  BY <1>0, <1>7, SeenKept
<1> QED
  BY <1>4, <1>6, <1>8 DEF Undone

\* The newest merge that is not undone is the last link of every chain it is in.
LEMMA NewestFound ==
    ASSUME UndoInv, lifo, NEW p \in Handler, proc[p].kind = "undo",
           proc[p].pc \in Merging, Newest(proc[p].run)
    PROVE  \A c \in proc[p].moved :
             call[c].account = proc[p].a \/ c \in late \/ c \in redecided
<1> DEFINE i == proc[p].run
<1>1. /\ i \in DOMAIN runs /\ runs[i].moved = proc[p].moved
      /\ runs[i].primary = proc[p].a /\ proc[p].moved \subseteq Call
      /\ runs \in Seq(RunTypes) /\ ChainInv
  BY UndoParts DEF ProcOK
<1>2. /\ runs[i].status = "COMPLETED"
      /\ \A j \in DOMAIN runs : j > i => runs[j].status = "UNDONE"
  BY DEF Newest
<1> HIDE DEF i
<1>3. ASSUME NEW c \in proc[p].moved, c \notin late, c \notin redecided
      PROVE  call[c].account = proc[p].a
  <2> DEFINE new == [runs EXCEPT ![i].status = "UNDONE"]
  <2>1. Chained(runs, call[c].account, placed[c], c)
    BY <1>1, <1>3 DEF ChainInv
  <2>2. /\ DOMAIN new = DOMAIN runs /\ \A j \in DOMAIN runs : j # i => new[j] = runs[j]
        /\ new[i].status = "UNDONE"
    <3>1. runs[i] \in RunTypes
      BY <1>1
    <3> QED
      BY <1>1, <3>1 DEF RunTypes
  <2> HIDE DEF new
  <2> QED
    BY <1>1, <1>2, <1>3, <2>1, <2>2, ChainUndone
<1> QED
  BY <1>3

\* An update looks for its rows, or takes them.
LEMMA UndoUpdate ==
    ASSUME UndoInv, NEW p \in Handler, BeginUpdate(p) \/ TakeCalls(p)
    PROVE  Undone'
<1> DEFINE t == proc'[p].taken
<1>0. /\ HeldInv /\ ChainInv /\ SeenInv /\ proc \in [Handler -> ProcTypes]
      /\ \A q \in Handler : Sought(q) \subseteq Call
  BY UndoParts, SoughtIs
<1>1. /\ UNCHANGED <<call, runs, placed, redecided, late>> /\ lifo' = InOrder(p)
      /\ \A q \in Handler : q # p => proc'[q] = proc[q]
  BY <1>0 DEF BeginUpdate, TakeCalls
<1>2. /\ proc'[p].kind = proc[p].kind /\ proc'[p].a = proc[p].a /\ proc'[p].b = proc[p].b
      /\ proc'[p].moved = proc[p].moved /\ proc'[p].run = proc[p].run
      /\ proc[p].pc \in {"update", "take"}
  BY <1>0 DEF BeginUpdate, TakeCalls, ProcTypes
<1>3. \/ proc'[p].pc = "take" /\ t = Sought(p)
      \/ /\ proc'[p].pc = "commit" /\ proc[p].pc = "take"
         /\ t = proc[p].taken \cap Sought(p)
         /\ \A c \in t : ~Locked(c)
  BY <1>0 DEF BeginUpdate, TakeCalls, ProcTypes
<1>4. HeldInv'
  <2>1. CASE proc'[p].pc # "commit"
    BY <1>0, <1>1, <2>1, HeldKept
  <2>2. CASE proc'[p].pc = "commit"
    <3>1. \A c \in t : call[c].account = From(proc'[p])
      BY <1>2, <1>3, <2>2, SoughtIs DEF From, CallsAt
    <3>2. \A q \in Handler : q # p /\ proc[q].pc = "commit" => t \cap proc[q].taken = {}
      BY <1>3, <2>2 DEF Locked
    <3> SUFFICES ASSUME NEW q \in Handler, proc'[q].pc = "commit"
                 PROVE  /\ \A c \in proc'[q].taken : call'[c].account = From(proc'[q])
                        /\ \A r \in Handler : r # q /\ proc'[r].pc = "commit" =>
                             proc'[q].taken \cap proc'[r].taken = {}
      BY DEF HeldInv, From
    <3>3. CASE q = p
      BY <1>1, <3>1, <3>2, <3>3
    <3>4. CASE q # p
      <4>1. /\ \A c \in proc[q].taken : call[c].account = From(proc[q])
            /\ \A r \in Handler : r # q /\ proc[r].pc = "commit" =>
                 proc[q].taken \cap proc[r].taken = {}
        BY <1>0, <1>1, <3>4 DEF HeldInv
      <4>2. t \cap proc[q].taken = {}
        BY <1>1, <3>2, <3>4
      <4> QED
        BY <1>1, <3>4, <4>1, <4>2
    <3> QED
      BY <3>3, <3>4
  <2> QED
    BY <2>1, <2>2
<1>5. lifo' => lifo /\ (proc[p].kind = "undo" => Newest(proc[p].run))
  BY <1>1 DEF InOrder
<1>6. ChainInv'
  BY <1>0, <1>1, <1>5 DEF ChainInv
<1>7. ASSUME lifo', proc[p].kind = "undo"
      PROVE  /\ t \subseteq proc[p].moved
             /\ \A c \in proc[p].moved : c \in t \/ c \in late \/ c \in redecided
  <2>1. \A c \in proc[p].moved : call[c].account = proc[p].a \/ c \in late \/ c \in redecided
    BY <1>2, <1>5, <1>7, NewestFound DEF Merging
  <2>2. Sought(p) = CallsAt(proc[p].a) \cap proc[p].moved /\ proc[p].moved \subseteq Call
    BY <1>7, SoughtIs, UndoParts
  <2>3. \A c \in proc[p].moved : c \in Sought(p) \/ c \in late \/ c \in redecided
    BY <2>1, <2>2 DEF CallsAt
  <2>4. CASE t = Sought(p)
    BY <2>2, <2>3, <2>4
  <2>5. CASE proc[p].pc = "take" /\ t = proc[p].taken \cap Sought(p)
    <3>1. Seen(proc[p], runs, late, redecided) /\ runs[proc[p].run].status = "COMPLETED"
      BY <1>0, <1>5, <1>7 DEF SeenInv, Newest
    <3>2. \A c \in proc[p].moved : c \in proc[p].taken \/ c \in late \/ c \in redecided
      BY <1>7, <2>5, <3>1 DEF Seen
    <3> QED
      BY <2>2, <2>3, <2>5, <3>2
  <2> QED
    BY <1>3, <2>4, <2>5
<1>8. ASSUME lifo', NEW q \in Handler
      PROVE  Seen(proc'[q], runs', late', redecided')
  <2>1. CASE q = p
    BY <1>1, <1>2, <1>7, <1>8, <2>1 DEF Seen
  <2>2. CASE q # p
    BY <1>0, <1>1, <1>5, <1>8, <2>2 DEF SeenInv
  <2> QED
    BY <2>1, <2>2
<1>9. SeenInv'
  BY <1>8 DEF SeenInv
<1> QED
  BY <1>4, <1>6, <1>9 DEF Undone

LEMMA UndoCommit ==
    ASSUME UndoInv, NEW p \in Handler, CommitMerge(p)
    PROVE  Undone'
<1> DEFINE a == proc[p].a
           b == proc[p].b
           t == proc[p].taken
           mv == proc[p].moved
           run == NewRun(a, b, proc[p].snap, mv)
           y == IF proc[p].reviewed THEN [Idle EXCEPT !.pc = "approve"] ELSE Idle
<1>0. /\ HeldInv /\ ChainInv /\ SeenInv /\ AccountInv
      /\ proc \in [Handler -> ProcTypes]
      /\ runs \in Seq(RunTypes) /\ call \in [Call -> CallTypes]
      /\ placed \in [Call -> Accounts] /\ late \subseteq Call /\ redecided \subseteq Call
      /\ \A q \in Handler : proc[q].taken \subseteq Call
      /\ \A q \in Handler : ProcOK(proc[q], request, runs)
      /\ Swept(proc[p], call, late)
  BY UndoParts
<1>1. /\ a \in Account /\ b \in Account /\ t \subseteq Call /\ mv \subseteq Call
      /\ proc[p].pc = "commit" /\ proc[p].kind # "undo"
      /\ proc[p].snap \in Domain \cup {Null}
  BY <1>0, CommitFacts
<1>2. run \in RunTypes /\ run.status = "COMPLETED" /\ run.moved = mv /\ run.primary = a /\ run.secondary = b
  BY <1>1 DEF NewRun, RunTypes
<1>3. /\ call' = [c \in Call |-> [call[c] EXCEPT !.account = AccountAfter(c, a, b, t)]]
      /\ late \subseteq late' /\ lifo' = lifo
      /\ \/ /\ runs' = Append(runs, run) /\ UNCHANGED placed
            /\ redecided' = redecided \cup Misread(p)
         \/ /\ placed' = [c \in Call |-> IF c \in t THEN a ELSE placed[c]]
            /\ redecided' = redecided \cup {c \in t : MovedBy(c) # {}}
            /\ UNCHANGED runs
      /\ proc' = [proc EXCEPT ![p] = y]
  BY DEF CommitMerge
<1>31. y.pc \notin {"take", "commit"}
  BY IdleTypes DEF ProcTypes
<1> HIDE DEF run, y
<1>4. /\ \A q \in Handler : q # p => proc'[q] = proc[q]
      /\ proc'[p].pc \notin {"take", "commit"}
  BY <1>0, <1>3, <1>31
<1>5. \A c \in Call : call'[c].account = AccountAfter(c, a, b, t)
  BY <1>0, <1>3 DEF CallTypes
<1>6. \A c \in Call : call[c].account = b => c \in t \/ c \in late
  BY <1>0, <1>1 DEF Swept
<1>7. \A c \in Call : c \notin t /\ c \notin late => call'[c].account = call[c].account
  BY <1>5, <1>6 DEF AccountAfter
<1>8. \A c \in t : call'[c].account = a /\ call[c].account = b
  BY <1>0, <1>1, <1>5 DEF HeldInv, From, AccountAfter
<1>9. HeldInv'
  <2>1. ASSUME NEW q \in Handler, q # p, proc[q].pc = "commit", NEW c \in proc[q].taken
        PROVE  call'[c].account = call[c].account
    <3>1. c \in Call /\ call[c].account = From(proc[q]) /\ c \notin t
      BY <1>0, <1>1, <2>1 DEF HeldInv
    <3>2. b \notin {proc[q].a, proc[q].b}
      BY <2>1 DEF CommitMerge, Deletable
    <3>3. call[c].account # b
      BY <3>1, <3>2 DEF From
    <3> QED
      BY <1>5, <3>1, <3>3 DEF AccountAfter
  <2> QED
    BY <1>0, <1>4, <2>1, HeldKept
<1>10. ASSUME lifo, NEW c \in Call, c \notin late', c \notin redecided'
       PROVE  Chained(runs', call'[c].account, placed'[c], c)
  <2>0. c \notin late /\ c \notin redecided
    BY <1>3, <1>10
  <2>1. Chained(runs, call[c].account, placed[c], c)
    BY <1>0, <1>10, <2>0 DEF ChainInv
  <2>2. CASE /\ runs' = Append(runs, run) /\ UNCHANGED placed
             /\ redecided' = redecided \cup Misread(p)
    <3>0. c \in mv <=> c \in t
      BY <1>10, <2>2 DEF Misread
    <3>1. CASE c \in mv
      <4>1. Chained(runs, run.secondary, placed[c], c)
        BY <1>2, <1>8, <2>1, <3>0, <3>1
      <4>2. Chained(Append(runs, run), run.primary, placed[c], c)
        BY <1>0, <1>2, <3>1, <4>1, ChainExtends
      <4> QED
        BY <1>2, <1>8, <2>2, <3>0, <3>1, <4>2
    <3>2. CASE c \notin mv
      <4>1. /\ \A i \in DOMAIN runs : i \in DOMAIN runs' /\ runs'[i] = runs[i]
            /\ \A i \in DOMAIN runs' : i \in DOMAIN runs \/ runs'[i] = run
        BY <1>0, <1>2, <2>2
      <4>2. Moving(runs', c) = Moving(runs, c)
        BY <1>2, <3>2, <4>1 DEF Moving
      <4>3. \A i \in Moving(runs, c) : runs'[i] = runs[i]
        BY <4>1 DEF Moving
      <4>4. Chained(runs', call[c].account, placed[c], c)
        BY <1>0, <2>1, <4>2, <4>3, ChainSame
      <4> QED
        BY <1>7, <2>0, <2>2, <3>0, <3>2, <4>4
    <3> QED
      BY <3>1, <3>2
  <2>3. CASE /\ placed' = [z \in Call |-> IF z \in t THEN a ELSE placed[z]]
             /\ redecided' = redecided \cup {z \in t : MovedBy(z) # {}}
             /\ UNCHANGED runs
    <3>1. CASE c \in t
      <4>1. Moving(runs, c) = {}
        BY <1>10, <2>3, <3>1 DEF MovedBy, Moving
      <4>2. call'[c].account = placed'[c]
        BY <1>8, <2>3, <3>1
      <4> QED
        BY <2>3, <4>1, <4>2 DEF Chained, Top
    <3>2. CASE c \notin t
      BY <1>7, <2>0, <2>1, <2>3, <3>2
    <3> QED
      BY <3>1, <3>2
  <2> QED
    BY <1>3, <2>2, <2>3
<1>11. ChainInv'
  BY <1>3, <1>10 DEF ChainInv
<1>12. ASSUME NEW q \in Handler, q # p, Seen(proc[q], runs, late, redecided)
       PROVE  Seen(proc[q], runs', late', redecided')
  <2>1. proc[q].kind = "undo" /\ proc[q].pc \in {"take", "commit"} => proc[q].run \in DOMAIN runs
    BY <1>0 DEF ProcOK, Merging
  <2>2. \A i \in DOMAIN runs : runs'[i] = runs[i]
    BY <1>0, <1>2, <1>3
  <2>3. redecided \subseteq redecided' /\ late \subseteq late'
    BY <1>3
  <2> QED
    BY <1>12, <2>1, <2>2, <2>3 DEF Seen
<1>13. SeenInv'
  BY <1>0, <1>3, <1>4, <1>12, SeenKept
<1> QED
  BY <1>9, <1>11, <1>13 DEF Undone

LEMMA UndoUndo ==
    ASSUME UndoInv, NEW p \in Handler, CommitUndo(p)
    PROVE  Undone'
<1> DEFINE s == proc[p].b
           t == proc[p].taken
           i == proc[p].run
<1>0. /\ HeldInv /\ ChainInv /\ SeenInv /\ proc \in [Handler -> ProcTypes]
      /\ runs \in Seq(RunTypes) /\ call \in [Call -> CallTypes] /\ late \subseteq Call
      /\ \A q \in Handler : proc[q].taken \subseteq Call
      /\ ProcOK(proc[p], request, runs)
  BY UndoParts
<1>1. /\ proc[p].pc = "commit" /\ proc[p].kind = "undo"
      /\ call' = [c \in Call |-> IF c \in t THEN [call[c] EXCEPT !.account = s]
                                 ELSE call[c]]
      /\ runs' = [runs EXCEPT ![i].status = "UNDONE"]
      /\ late \subseteq late' /\ lifo' = InOrder(p)
      /\ UNCHANGED <<placed, redecided>>
      /\ proc' = [proc EXCEPT ![p] = Idle]
  BY DEF CommitUndo, Finish
<1>2. /\ i \in DOMAIN runs /\ runs[i].secondary = s /\ runs[i].moved = proc[p].moved
      /\ t \subseteq Call
  BY <1>0, <1>1 DEF ProcOK, Merging
<1>3. lifo' => lifo /\ Newest(i)
  BY <1>1 DEF InOrder
<1>4. \A c \in Call : call'[c].account = IF c \in t THEN s ELSE call[c].account
  BY <1>0, <1>1 DEF CallTypes
<1>5. /\ DOMAIN runs' = DOMAIN runs /\ runs[i] \in RunTypes
      /\ \A j \in DOMAIN runs : j # i => runs'[j] = runs[j]
      /\ runs'[i].status = "UNDONE" /\ runs'[i].moved = runs[i].moved
  <2>1. runs[i] \in RunTypes /\ DOMAIN runs = 1..Len(runs) /\ Len(runs) \in Nat
    BY <1>0, <1>2
  <2> QED
    BY <1>1, <1>2, <2>1 DEF RunTypes
<1>6. /\ \A q \in Handler : q # p => proc'[q] = proc[q]
      /\ proc'[p].pc \notin {"take", "commit"}
  BY <1>0, <1>1, IdleTypes
<1>7. HeldInv'
  <2>1. \A q \in Handler : q # p /\ proc[q].pc = "commit" =>
          \A c \in proc[q].taken : call'[c].account = call[c].account
    BY <1>0, <1>1, <1>4 DEF HeldInv
  <2> QED
    BY <1>0, <1>6, <2>1, HeldKept
<1>8. ASSUME lifo', NEW c \in Call, c \notin late', c \notin redecided
      PROVE  Chained(runs', call'[c].account, placed[c], c)
  <2>0. c \notin late /\ lifo
    BY <1>1, <1>3, <1>8
  <2>1. Chained(runs, call[c].account, placed[c], c)
    BY <1>0, <1>8, <2>0 DEF ChainInv
  <2>2. /\ runs[i].status = "COMPLETED"
        /\ \A j \in DOMAIN runs : j > i => runs[j].status = "UNDONE"
    BY <1>3, <1>8 DEF Newest
  <2>3. Seen(proc[p], runs, late, redecided)
    BY <1>0, <2>0 DEF SeenInv
  <2>4. c \in t <=> c \in runs[i].moved
    BY <1>1, <1>2, <1>8, <2>0, <2>2, <2>3 DEF Seen
  <2>5. CASE c \in runs[i].moved
    <3>1. PICK new : new = runs'
      OBVIOUS
    <3>2. /\ DOMAIN new = DOMAIN runs /\ \A j \in DOMAIN runs : j # i => new[j] = runs[j]
          /\ new[i].status = "UNDONE"
      BY <1>5, <3>1
    <3>3. Chained(new, runs[i].secondary, placed[c], c)
      BY <1>0, <1>2, <2>1, <2>2, <2>5, <3>2, ChainUndone
    <3> QED
      BY <1>2, <1>4, <2>4, <2>5, <3>1, <3>3
  <2>6. CASE c \notin runs[i].moved
    <3>1. Moving(runs', c) = Moving(runs, c)
      BY <1>5, <2>6 DEF Moving
    <3>2. \A j \in Moving(runs, c) : j # i /\ runs'[j] = runs[j]
      BY <1>5, <2>6 DEF Moving
    <3>3. Chained(runs', call[c].account, placed[c], c)
      BY <1>0, <2>1, <3>1, <3>2, ChainSame
    <3> QED
      BY <1>4, <2>4, <2>6, <3>3
  <2> QED
    BY <2>5, <2>6
<1>9. ChainInv'
  BY <1>1, <1>8 DEF ChainInv
<1>10. ASSUME NEW q \in Handler, q # p, Seen(proc[q], runs, late, redecided)
       PROVE  Seen(proc[q], runs', late', redecided')
  <2>1. runs'[proc[q].run].status = "COMPLETED" /\ proc[q].run \in DOMAIN runs
          => runs[proc[q].run].status = "COMPLETED"
    BY <1>5
  <2>2. proc[q].kind = "undo" /\ proc[q].pc \in {"take", "commit"} => proc[q].run \in DOMAIN runs
    BY UndoParts DEF ProcOK, Merging
  <2> QED
    BY <1>1, <1>10, <2>1, <2>2 DEF Seen
<1>11. SeenInv'
  BY <1>0, <1>3, <1>6, <1>10, SeenKept
<1> QED
  BY <1>7, <1>9, <1>11 DEF Undone

LEMMA UndoHandler ==
    ASSUME UndoInv, NEW p \in Handler,
           \/ \E c \in Call, a \in Account : BeginResolve(p, c, a)
           \/ LinkManually(p) \/ AddAlias(p)
           \/ \E c \in Call, a \in Account, d \in Domain \cup {Null} :
                CreateFromCall(p, c, a, d)
           \/ \E c \in Call : BeginAuto(p, c)
           \/ LinkAuto(p) \/ UseHint(p) \/ LinkByHint(p)
           \/ \E a, b \in Account : BeginMerge(p, a, b)
           \/ \E a, b \in Account : BeginLegacyMerge(p, a, b)
           \/ ReadCalls(p) \/ BeginUpdate(p) \/ TakeCalls(p) \/ CommitMerge(p)
           \/ \E i \in DOMAIN runs : BeginUndo(p, i)
           \/ CommitUndo(p)
           \/ ReviewApprove(p) \/ ReviewReject(p) \/ Finalize(p)
           \/ Fail(p)
    PROVE  Undone'
<1>0. /\ proc \in [Handler -> ProcTypes] /\ proc[p] \in ProcTypes
      /\ ProcOK(proc[p], request, runs)
  BY UndoParts
<1>1. ASSUME NEW x, proc' = [proc EXCEPT ![p] = x], x.pc \notin {"take", "commit"}
      PROVE  /\ proc'[p].pc \notin {"take", "commit"}
             /\ \A q \in Handler : q # p => proc'[q] = proc[q]
  BY <1>0, <1>1
<1>2. ASSUME NEW pc, Goto(p, pc), pc \notin {"take", "commit"}
      PROVE  /\ proc'[p].pc \notin {"take", "commit"}
             /\ \A q \in Handler : q # p => proc'[q] = proc[q]
  BY <1>0, <1>2 DEF Goto, ProcTypes
<1>3. ASSUME Finish(p)
      PROVE  /\ proc'[p].pc \notin {"take", "commit"}
             /\ \A q \in Handler : q # p => proc'[q] = proc[q]
  BY <1>1, <1>3, IdleTypes DEF Finish
<1>4. CASE LinkManually(p)
  <2>1. proc[p].pc = "link" /\ proc[p].call \in Call
    BY <1>0, <1>4 DEF LinkManually, ProcOK
  <2> QED
    BY <1>2, <1>4, <2>1, UndoDecide DEF LinkManually
<1>5. CASE LinkAuto(p)
  <2>1. proc[p].pc = "auto" /\ proc[p].call \in Call
    BY <1>0, <1>5 DEF LinkAuto, ProcOK
  <2>2. Finish(p) \/ Goto(p, "hint")
    BY <1>5 DEF LinkAuto
  <2> QED
    BY <1>2, <1>3, <1>5, <2>1, <2>2, UndoDecide DEF LinkAuto
<1>6. CASE LinkByHint(p)
  <2>1. proc[p].pc = "fuzzy" /\ proc[p].call \in Call
    BY <1>0, <1>6 DEF LinkByHint, ProcOK
  <2> QED
    BY <1>3, <1>6, <2>1, UndoDecide DEF LinkByHint
<1>7. CASE BeginUpdate(p) \/ TakeCalls(p) \/ CommitMerge(p) \/ CommitUndo(p)
  BY <1>7, UndoUpdate, UndoCommit, UndoUndo
<1>8. ASSUME UNCHANGED <<call, runs, placed, redecided, late, lifo>>,
             proc'[p].pc \notin {"take", "commit"},
             \A q \in Handler : q # p => proc'[q] = proc[q]
      PROVE  Undone'
  BY <1>0, <1>8, UndoSame
<1>9. ASSUME NEW c \in Call, NEW a \in Account, NEW d,
             \/ BeginResolve(p, c, a) \/ CreateFromCall(p, c, a, d)
      PROVE  Undone'
  <2>1. PICK e : proc' = [proc EXCEPT ![p] = [Idle EXCEPT !.pc = "link", !.call = c,
                                                         !.a = a, !.da = e]]
    BY <1>9 DEF BeginResolve, CreateFromCall
  <2> DEFINE x == [Idle EXCEPT !.pc = "link", !.call = c, !.a = a, !.da = e]
  <2>2. proc' = [proc EXCEPT ![p] = x] /\ x.pc = "link"
    BY <2>1, IdleTypes DEF ProcTypes
  <2> HIDE DEF x
  <2>3. UNCHANGED <<call, runs, placed, redecided, late, lifo>>
    BY <1>9 DEF BeginResolve, CreateFromCall
  <2> QED
    BY <1>1, <1>8, <2>2, <2>3
<1>10. ASSUME NEW c \in Call, BeginAuto(p, c) PROVE Undone'
  <2>1. PICK a : proc' = [proc EXCEPT ![p] = [Idle EXCEPT !.pc = "auto", !.call = c, !.a = a]]
    BY <1>10 DEF BeginAuto
  <2> DEFINE x == [Idle EXCEPT !.pc = "auto", !.call = c, !.a = a]
  <2>2. proc' = [proc EXCEPT ![p] = x] /\ x.pc = "auto"
    BY <2>1, IdleTypes DEF ProcTypes
  <2> HIDE DEF x
  <2>3. UNCHANGED <<call, runs, placed, redecided, late, lifo>>
    BY <1>10 DEF BeginAuto
  <2> QED
    BY <1>1, <1>8, <2>2, <2>3
<1>11. ASSUME NEW k, NEW a, NEW b, NEW rv, StartMerge(p, k, a, b, rv)
       PROVE  Undone'
  <2> DEFINE x == [Idle EXCEPT !.pc = IF k = "merge" THEN "read" ELSE "update",
                      !.kind = k, !.reviewed = rv,
                      !.a = a, !.b = b, !.da = acct[a].domain,
                      !.db = acct[b].domain,
                      !.crm = ~acct[a].crm /\ acct[b].crm]
  <2>1. proc' = [proc EXCEPT ![p] = x] /\ x.pc \in {"read", "update"}
    BY <1>11, IdleTypes DEF StartMerge, ProcTypes
  <2> HIDE DEF x
  <2>2. UNCHANGED <<call, runs, placed, redecided, late, lifo>>
    BY <1>11 DEF StartMerge
  <2> QED
    BY <1>1, <1>8, <2>1, <2>2
<1>12. CASE AddAlias(p) \/ Finalize(p) \/ Fail(p)
  BY <1>3, <1>8, <1>12 DEF AddAlias, Finalize, Fail
<1>13. CASE ReviewReject(p)
  BY <1>2, <1>8, <1>13 DEF ReviewReject
<1>14. CASE UseHint(p)
  <2>1. PICK a \in Account : proc' = [proc EXCEPT ![p].pc = "fuzzy", ![p].a = a]
    BY <1>14 DEF UseHint
  <2>2. proc'[p].pc \notin {"take", "commit"} /\ \A q \in Handler : q # p => proc'[q] = proc[q]
    BY <1>0, <2>1 DEF ProcTypes
  <2> QED
    BY <1>8, <1>14, <2>2 DEF UseHint
<1>15. CASE ReadCalls(p)
  <2>1. proc'[p].pc = "update" /\ \A q \in Handler : q # p => proc'[q] = proc[q]
    BY <1>0, <1>15 DEF ReadCalls, ProcTypes
  <2> QED
    BY <1>8, <1>15, <2>1 DEF ReadCalls
<1>16. ASSUME NEW i \in DOMAIN runs, BeginUndo(p, i) PROVE Undone'
  <2>1. proc'[p].pc = "update" /\ \A q \in Handler : q # p => proc'[q] = proc[q]
    BY <1>0, <1>16, IdleTypes DEF BeginUndo, ProcTypes
  <2> QED
    BY <1>8, <1>16, <2>1 DEF BeginUndo
<1> QED
  BY <1>4, <1>5, <1>6, <1>7, <1>9, <1>10, <1>11, <1>12, <1>13, <1>14, <1>15, <1>16
     DEF BeginMerge, BeginLegacyMerge, ReviewApprove

LEMMA UndoNext ==
    ASSUME UndoInv, [Next]_vars
    PROVE  UndoInv'
<1>0. AccountInv /\ call \in [Call -> CallTypes]
  BY UndoParts
<1>1. AccountInv'
  BY <1>0, AccountNext
<1>2. ASSUME UNCHANGED <<proc, runs, placed, redecided, late, lifo>>,
             \A c \in Call : call'[c].account = call[c].account
      PROVE  Undone'
  BY <1>0, <1>2, UndoSame
<1>3. ASSUME NEW c \in Call, Dismiss(c) PROVE Undone'
  <2>1. \A z \in Call : call'[z].account = call[z].account
    BY <1>0, <1>3 DEF Dismiss, CallTypes
  <2> QED
    BY <1>2, <1>3, <2>1 DEF Dismiss
<1>4. ASSUME NEW a, NEW d, SyncCrmAccount(a, d) \/ PollAccount(a, d) \/ UpdateDomain(a, d)
      PROVE  Undone'
  BY <1>2, <1>4 DEF SyncCrmAccount, PollAccount, UpdateDomain
<1>5. ASSUME NEW a, NEW b, RequestMerge(a, b) PROVE Undone'
  BY <1>2, <1>5 DEF RequestMerge
<1>6. ASSUME UNCHANGED vars PROVE Undone'
  BY <1>2, <1>6 DEF vars
<1>7. Undone'
  BY <1>3, <1>4, <1>5, <1>6, UndoHandler DEF Next
<1> QED
  BY <1>1, <1>7 DEF UndoInv, Undone

LEMMA UndoInit == Init => UndoInv
<1> SUFFICES ASSUME Init PROVE UndoInv
  OBVIOUS
<1>1. AccountInv
  BY AccountInit
<1>2. /\ runs = <<>> /\ proc = [p \in Handler |-> Idle]
      /\ placed = [c \in Call |-> call[c].account]
  BY DEF Init
<1>3. HeldInv /\ SeenInv
  BY <1>2, IdleTypes DEF HeldInv, SeenInv, Seen
<1>4. \A c \in Call : Moving(runs, c) = {}
  BY <1>2 DEF Moving
<1>5. ChainInv
  BY <1>2, <1>4 DEF ChainInv, Chained, Top
<1> QED
  BY <1>1, <1>3, <1>5 DEF UndoInv

(***************************************************************************)
(* undoMerge: while every undo works on the newest merge that is still     *)
(* done, every call is where the last completed merge that moved it put    *)
(* it, or where it was resolved to, but for the calls decided on between   *)
(* the statements of a merge or after it; for any number of merges, undos, *)
(* resolutions and requests at once, statement by statement.               *)
(***************************************************************************)
THEOREM UndoRestores == Spec => []UndoIsExact
<1>1. UndoInv => UndoIsExact
  BY DEF UndoInv, ChainInv, Chained, Top, Moving, MovedBy, UndoIsExact
<1> QED
  BY <1>1, UndoInit, UndoNext, PTL DEF Spec
=============================================================================
