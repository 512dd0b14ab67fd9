------------------------ MODULE PublishApprovalProofs ------------------------
(***************************************************************************)
(* Proofs about PageEditing and PublishApproval, for any number of tabs,   *)
(* API clients, texts and requests: types, the refinement of the register, *)
(* what an editor may overwrite, what becomes of a text, and what the      *)
(* approval rows promise.                                                  *)
(***************************************************************************)
EXTENDS PublishApproval, TLAPS

-----------------------------------------------------------------------------
(***************************************************************************)
(* Types.                                                                  *)
(***************************************************************************)
LEMMA Bounds ==
    /\ 1 \in Text /\ 1 \in Stamp /\ 0 \in Stamp /\ 0 \in 0..MaxText
    /\ Text \subseteq 0..MaxText /\ Text \subseteq Nat /\ Stamp \subseteq Nat
  BY EditingAssumption DEF Text, Stamp

LEMMA AppendTypes ==
    ASSUME NEW S, NEW q \in Seq(S), NEW x \in S
    PROVE  Append(q, x) \in Seq(S)
  OBVIOUS

LEMMA SlotOf ==
    ASSUME NEW c \in Clients
    PROVE  /\ <<c, "manual">> \in Slots /\ <<c, "auto">> \in Slots
           /\ <<c, "manual">>[1] = c /\ <<c, "auto">>[1] = c
  BY DEF Slots

LEMMA ApiSlot ==
    ASSUME NEW a \in Callers
    PROVE  /\ <<a, "api">> \in Slots
           /\ <<a, "api">>[1] \notin Clients
  BY EditingAssumption DEF Slots

\* What the answers and key presses make of an editor is an editor.
LEMMA LoadedTypes ==
    ASSUME NEW e \in EditorTypes, NEW row, row.body \in Text, row.stamp \in Stamp
    PROVE  Loaded(e, row) \in EditorTypes
  BY Bounds DEF Loaded, EditorTypes, NoStamp

LEMMA TypedTypes ==
    ASSUME NEW e \in EditorTypes, NEW t \in Text
    PROVE  Typed(e, t) \in EditorTypes
  BY Bounds DEF Typed, EditorTypes, NoStamp

LEMMA SavedTypes ==
    ASSUME NEW e \in EditorTypes, NEW r \in ReqTypes
    PROVE  Saved(e, r) \in EditorTypes
  BY Bounds DEF Saved, EditorTypes, ReqTypes, NoStamp

LEMMA ConflictedTypes ==
    ASSUME NEW e \in EditorTypes, NEW r \in ReqTypes, NEW row \in PageTypes
    PROVE  Conflicted(e, r, row) \in EditorTypes
  BY Bounds DEF Conflicted, EditorTypes, ReqTypes, PageTypes, NoStamp

LEMMA IdleTypes == Idle \in ReqTypes
  BY Bounds DEF Idle, ReqTypes, NoStamp

\* A request that is sent.
Sent(kind, text, version) ==
    [Idle EXCEPT !.pc = "read", !.kind = kind, !.new = text, !.expected = version]

LEMMA SentTypes ==
    ASSUME NEW kind \in {"save", "overwrite", "auto", "api"}, NEW t \in Text,
           NEW v \in Stamp
    PROVE  /\ Sent(kind, t, v) \in ReqTypes
           /\ Sent(kind, t, v).pc = "read"
           /\ Sent(kind, t, v).new = t
           /\ Sent(kind, t, v).expected = v
  BY Bounds DEF Idle, Sent, ReqTypes, NoStamp

LEMMA InitTypes == Init => TypeOK
<1> SUFFICES ASSUME Init PROVE TypeOK
  OBVIOUS
<1>1. page \in PageTypes
  BY Bounds DEF Init, EditInit, PageTypes
<1>2. ed \in [Clients -> EditorTypes]
  BY Bounds DEF Init, EditInit, EditorTypes, Closed, NoStamp
<1>3. req \in [Slots -> ReqTypes]
  BY IdleTypes DEF Init, EditInit
<1>4. edits \in Seq([prev : Text, new : Text]) /\ accepted \in Seq(SaveEntry)
  BY DEF Init, EditInit
<1>5. typed \in Text /\ begun \in 0..MaxBegun
  BY Bounds, EditingAssumption DEF Init, EditInit
<1>6. shown \in [Clients -> SUBSET Text] /\ late \in [Clients -> SUBSET Stamp]
      /\ gone \subseteq Text
  BY DEF Init, EditInit
<1>7. EditTypeOK
  BY <1>1, <1>2, <1>3, <1>4, <1>5, <1>6 DEF EditTypeOK
<1>8. op \in [Handlers -> OpTypes]
  BY DEF Init, NoOp, OpTypes
<1>9. approval \in Seq(ApprovalTypes) /\ versions \in Seq(VersionTypes)
      /\ required \in BOOLEAN /\ settled \subseteq Row
  BY DEF Init
<1> QED
  BY <1>7, <1>8, <1>9 DEF TypeOK

-----------------------------------------------------------------------------
(***************************************************************************)
(* The steps of the editors keep the types.                                *)
(***************************************************************************)

\* Begun requests are counted.
LEMMA SendTypes ==
    ASSUME EditTypeOK, NEW s \in Slots,
           NEW kind \in {"save", "overwrite", "auto", "api"}, NEW t \in Text,
           NEW v \in Stamp, Send(s, kind, t, v)
    PROVE  /\ req' = [req EXCEPT ![s] = Sent(kind, t, v)]
           /\ req' \in [Slots -> ReqTypes]
           /\ begun' \in 0..MaxBegun
<1>1. req' = [req EXCEPT ![s] = Sent(kind, t, v)]
  BY DEF Send, Sent
<1>2. req' \in [Slots -> ReqTypes]
  BY <1>1, SentTypes DEF EditTypeOK
<1>3. begun' \in 0..MaxBegun
  BY EditingAssumption DEF Send, EditTypeOK
<1> QED
  BY <1>1, <1>2, <1>3

LEMMA OpenTypes ==
    ASSUME EditTypeOK, NEW c \in Clients, Open(c)
    PROVE  EditTypeOK'
<1>1. page.body \in Text /\ page.stamp \in Stamp
  BY DEF EditTypeOK, PageTypes
<1>2. Loaded(ed[c], page) \in EditorTypes
  BY <1>1, LoadedTypes DEF EditTypeOK
<1>3. ed' \in [Clients -> EditorTypes]
  BY <1>2 DEF Open, EditTypeOK
<1>4. shown' \in [Clients -> SUBSET Text]
  BY <1>1 DEF Open, EditTypeOK
<1> QED
  BY <1>3, <1>4 DEF Open, EditTypeOK

LEMMA TypeTypes ==
    ASSUME EditTypeOK, NEW c \in Clients, Type(c)
    PROVE  EditTypeOK'
<1>1. typed + 1 \in Text
  BY EditingAssumption DEF Type, EditTypeOK, Text
<1>2. Typed(ed[c], typed + 1) \in EditorTypes
  BY <1>1, TypedTypes DEF EditTypeOK
<1>3. ed' \in [Clients -> EditorTypes]
  BY <1>2 DEF Type, EditTypeOK
<1>4. shown' \in [Clients -> SUBSET Text]
  BY <1>1 DEF Type, EditTypeOK
<1> QED
  BY <1>1, <1>3, <1>4 DEF Type, EditTypeOK

LEMMA SaveDraftTypes ==
    ASSUME EditTypeOK, NEW c \in Clients, SaveDraft(c)
    PROVE  EditTypeOK'
<1>1. ed[c].body \in Text /\ ed[c].version \in Stamp
  BY DEF EditTypeOK, EditorTypes
<1>2. Send(<<c, "manual">>, "save", ed[c].body, ed[c].version)
  BY DEF SaveDraft
<1>3. req' \in [Slots -> ReqTypes] /\ begun' \in 0..MaxBegun
  BY <1>1, <1>2, SendTypes, SlotOf
<1>4. UNCHANGED <<page, ed, edits, typed, accepted, shown, late, gone>>
  BY DEF SaveDraft
<1> QED
  BY <1>3, <1>4 DEF EditTypeOK

LEMMA OverwriteTypes ==
    ASSUME EditTypeOK, NEW c \in Clients, Overwrite(c)
    PROVE  EditTypeOK'
<1>1. ed[c].draft \in Text /\ ed[c].conflict \in Stamp
  BY DEF EditTypeOK, EditorTypes
<1>2. Send(<<c, "manual">>, "overwrite", ed[c].draft, ed[c].conflict)
  BY DEF Overwrite
<1>3. req' \in [Slots -> ReqTypes] /\ begun' \in 0..MaxBegun
  BY <1>1, <1>2, SendTypes, SlotOf
<1>4. UNCHANGED <<page, ed, edits, typed, accepted, shown, late, gone>>
  BY DEF Overwrite
<1> QED
  BY <1>3, <1>4 DEF EditTypeOK

LEMMA AutosaveTypes ==
    ASSUME EditTypeOK, NEW c \in Clients, Autosave(c)
    PROVE  EditTypeOK'
<1>1. ed[c].timer \in Text /\ ed[c].timerVersion \in Stamp
  BY EditingAssumption DEF EditTypeOK, EditorTypes, Autosave, Text
<1>2. Send(<<c, "auto">>, "auto", ed[c].timer, ed[c].timerVersion)
  BY DEF Autosave
<1>3. req' \in [Slots -> ReqTypes] /\ begun' \in 0..MaxBegun
  BY <1>1, <1>2, SendTypes, SlotOf
<1>4. ed' \in [Clients -> EditorTypes]
  BY Bounds DEF Autosave, EditTypeOK, EditorTypes, NoStamp
<1>5. UNCHANGED <<page, edits, typed, accepted, shown, late, gone>>
  BY DEF Autosave
<1> QED
  BY <1>3, <1>4, <1>5 DEF EditTypeOK

LEMMA LoadLatestTypes ==
    ASSUME EditTypeOK, NEW c \in Clients, LoadLatest(c)
    PROVE  EditTypeOK'
<1> DEFINE row == [body |-> ed[c].latest, stamp |-> ed[c].conflict]
           rec == Loaded(ed[c], row)
<1>1. row.body \in Text /\ row.stamp \in Stamp
  BY DEF EditTypeOK, EditorTypes
<1>2. rec \in EditorTypes
  BY <1>1, LoadedTypes DEF EditTypeOK
<1>3. ed' = [ed EXCEPT ![c] = [rec EXCEPT !.unsaved = FALSE]]
  BY DEF LoadLatest
<1> HIDE DEF rec
<1>4. [rec EXCEPT !.unsaved = FALSE] \in EditorTypes
  BY <1>2 DEF EditorTypes
<1>5. ed' \in [Clients -> EditorTypes]
  BY <1>3, <1>4 DEF EditTypeOK
<1>6. gone' \subseteq Text
  BY DEF LoadLatest, EditTypeOK, EditorTypes
<1>7. UNCHANGED <<page, req, edits, typed, begun, accepted, shown, late>>
  BY DEF LoadLatest
<1> QED
  BY <1>5, <1>6, <1>7 DEF EditTypeOK

LEMMA ApiSaveTypes ==
    ASSUME EditTypeOK, NEW a \in Callers, ApiSave(a)
    PROVE  EditTypeOK'
<1>1. typed + 1 \in Text /\ NoStamp \in Stamp
  BY Bounds, EditingAssumption DEF ApiSave, EditTypeOK, Text, NoStamp
<1>2. Send(<<a, "api">>, "api", typed + 1, NoStamp)
  BY DEF ApiSave
<1>3. req' \in [Slots -> ReqTypes] /\ begun' \in 0..MaxBegun
  BY <1>1, <1>2, SendTypes, ApiSlot
<1>4. /\ typed' = typed + 1
      /\ UNCHANGED <<page, ed, edits, accepted, shown, late, gone>>
  BY DEF ApiSave
<1> QED
  BY <1>1, <1>3, <1>4 DEF EditTypeOK

LEMMA AnswerTypes ==
    ASSUME EditTypeOK, NEW s \in Slots, AnswerConflict(s)
    PROVE  EditTypeOK'
<1>1. page \in PageTypes /\ page.body \in Text /\ req[s] \in ReqTypes
  BY DEF EditTypeOK, PageTypes
<1>2. \A c \in Clients : Conflicted(ed[c], req[s], page) \in EditorTypes
  BY <1>1, ConflictedTypes DEF EditTypeOK
<1>3. ed' = [ed EXCEPT ![s[1]] = Conflicted(ed[s[1]], req[s], page)]
  BY DEF AnswerConflict
<1>4. ed' \in [Clients -> EditorTypes]
  BY <1>2, <1>3 DEF EditTypeOK
<1>5. shown' \in [Clients -> SUBSET Text]
  BY <1>1 DEF AnswerConflict, EditTypeOK
<1>6. req' \in [Slots -> ReqTypes]
  BY IdleTypes DEF AnswerConflict, EditTypeOK
<1>7. UNCHANGED <<page, edits, typed, begun, accepted, late, gone>>
  BY DEF AnswerConflict
<1> QED
  BY <1>4, <1>5, <1>6, <1>7 DEF EditTypeOK

\* Where a request may go, with the fields that are set on the way.
LEMMA ReqFields ==
    ASSUME NEW r \in ReqTypes, NEW p \in {"idle", "read", "write", "conflict", "reread", "log"},
           NEW b \in Text, NEW v \in Stamp, NEW g \in Stamp
    PROVE  /\ [r EXCEPT !.pc = p] \in ReqTypes
           /\ [r EXCEPT !.pc = p, !.prev = b] \in ReqTypes
           /\ [r EXCEPT !.pc = p, !.got = g] \in ReqTypes
           /\ [r EXCEPT !.pc = p, !.wrote = v, !.got = g] \in ReqTypes
  BY DEF ReqTypes

LEMMA ReadExistingTypes ==
    ASSUME EditTypeOK, NEW s \in Slots, ReadExisting(s)
    PROVE  EditTypeOK'
<1>1. CASE AnswerConflict(s)
  BY <1>1, AnswerTypes
<1>2. ASSUME req' = [req EXCEPT ![s].pc = "write", ![s].prev = page.body],
             UNCHANGED <<page, ed, edits, typed, begun, accepted, shown, late, gone>>
      PROVE  EditTypeOK'
  <2>1. req[s] \in ReqTypes /\ page.body \in Text
    BY DEF EditTypeOK, PageTypes
  <2>2. [req[s] EXCEPT !.pc = "write", !.prev = page.body] \in ReqTypes
    BY <2>1, ReqFields, Bounds
  <2>3. req' \in [Slots -> ReqTypes]
    BY <1>2, <2>2 DEF EditTypeOK
  <2> QED
    BY <1>2, <2>3 DEF EditTypeOK
<1> QED
  BY <1>1, <1>2 DEF ReadExisting

LEMMA WriteBodyTypes ==
    ASSUME EditTypeOK, NEW s \in Slots, WriteBody(s)
    PROVE  EditTypeOK'
<1> DEFINE p == IF req[s].expected = NoStamp THEN "log" ELSE "reread"
           entry == [expected |-> req[s].expected, prev |-> req[s].prev,
                     new |-> req[s].new]
<1>1. req[s] \in ReqTypes /\ page.stamp + 1 \in Stamp
  BY EditingAssumption DEF WriteBody, EditTypeOK, PageTypes, Stamp
<1>2. [req[s] EXCEPT !.pc = p, !.wrote = page.stamp + 1, !.got = page.stamp + 1]
        \in ReqTypes
  BY <1>1, ReqFields, Bounds
<1>3. req' = [req EXCEPT ![s] = [req[s] EXCEPT !.pc = p, !.wrote = page.stamp + 1,
                                               !.got = page.stamp + 1]]
  BY DEF WriteBody, EditTypeOK
<1>4. req' \in [Slots -> ReqTypes]
  BY <1>2, <1>3 DEF EditTypeOK
<1>5. page' \in PageTypes
  BY <1>1 DEF WriteBody, NewBody, EditTypeOK, PageTypes, ReqTypes
<1>6. entry \in SaveEntry
  BY <1>1 DEF SaveEntry, ReqTypes
<1>7. accepted' \in Seq(SaveEntry)
  BY <1>6 DEF WriteBody, EditTypeOK
<1>8. UNCHANGED <<ed, edits, typed, shown, late, gone, begun>>
  BY DEF WriteBody
<1> QED
  BY <1>4, <1>5, <1>7, <1>8 DEF EditTypeOK

LEMMA WriteMissedTypes ==
    ASSUME EditTypeOK, NEW s \in Slots, WriteMissed(s)
    PROVE  EditTypeOK'
<1>1. [req[s] EXCEPT !.pc = "conflict"] \in ReqTypes
  BY ReqFields, Bounds DEF EditTypeOK
<1>2. req' \in [Slots -> ReqTypes]
  BY <1>1 DEF WriteMissed, Goto, EditTypeOK
<1>3. UNCHANGED <<page, ed, edits, typed, begun, accepted, shown, late, gone>>
  BY DEF WriteMissed
<1> QED
  BY <1>2, <1>3 DEF EditTypeOK

LEMMA ReadStampTypes ==
    ASSUME EditTypeOK, NEW s \in Slots, ReadStamp(s)
    PROVE  EditTypeOK'
<1>1. req[s] \in ReqTypes /\ page.stamp \in Stamp
  BY DEF EditTypeOK, PageTypes
<1>2. [req[s] EXCEPT !.pc = "log", !.got = page.stamp] \in ReqTypes
  BY <1>1, ReqFields, Bounds
<1>3. req' \in [Slots -> ReqTypes]
  BY <1>2 DEF ReadStamp, EditTypeOK
<1>4. UNCHANGED <<page, ed, edits, typed, begun, accepted, shown, late, gone>>
  BY DEF ReadStamp
<1> QED
  BY <1>3, <1>4 DEF EditTypeOK

LEMMA LogEditTypes ==
    ASSUME EditTypeOK, NEW s \in Slots, LogEdit(s)
    PROVE  EditTypeOK'
<1>1. req[s] \in ReqTypes /\ req[s].got \in Stamp
  BY DEF EditTypeOK, ReqTypes
<1>2. req' \in [Slots -> ReqTypes]
  BY IdleTypes DEF LogEdit, EditTypeOK
<1>3. EditRow(req[s]) \in [prev : Text, new : Text]
  BY <1>1 DEF EditRow, ReqTypes
<1>4. edits' \in Seq([prev : Text, new : Text])
  <2>1. edits \in Seq([prev : Text, new : Text])
    BY DEF EditTypeOK
  <2>2. edits' = edits \/ edits' = Append(edits, EditRow(req[s]))
    BY DEF LogEdit
  <2> QED
    BY <1>3, <2>1, <2>2, AppendTypes
<1>5. UNCHANGED <<page, typed, begun, accepted, shown>>
  BY DEF LogEdit
<1>6. CASE s[1] \in Clients
  <2>1. Saved(ed[s[1]], req[s]) \in EditorTypes
    BY <1>1, <1>6, SavedTypes DEF EditTypeOK
  <2>2. ed' \in [Clients -> EditorTypes]
    BY <1>6, <2>1 DEF LogEdit, EditTypeOK
  <2>3. late' \in [Clients -> SUBSET Stamp]
    BY <1>1, <1>6 DEF LogEdit, EditTypeOK
  <2>4. gone' \subseteq Text
    BY <1>6 DEF LogEdit, EditTypeOK, EditorTypes
  <2> QED
    BY <1>2, <1>4, <1>5, <2>2, <2>3, <2>4 DEF EditTypeOK
<1>7. CASE s[1] \notin Clients
  <2>1. UNCHANGED <<ed, late, gone>>
    BY <1>7 DEF LogEdit
  <2> QED
    BY <1>2, <1>4, <1>5, <2>1 DEF EditTypeOK
<1> QED
  BY <1>6, <1>7

LEMMA FailSaveTypes ==
    ASSUME EditTypeOK, NEW s \in Slots, FailSave(s)
    PROVE  EditTypeOK'
<1>1. req' \in [Slots -> ReqTypes]
  BY IdleTypes DEF FailSave, EditTypeOK
<1>2. gone' \subseteq Text
  BY DEF FailSave, EditTypeOK, ReqTypes
<1>3. UNCHANGED <<page, ed, edits, typed, begun, accepted, shown, late>>
  BY DEF FailSave
<1> QED
  BY <1>1, <1>2, <1>3 DEF EditTypeOK

LEMMA ViewTypes ==
    ASSUME EditTypeOK, View
    PROVE  EditTypeOK'
<1>1. page' \in PageTypes
  BY EditingAssumption DEF View, EditTypeOK, PageTypes, Stamp
<1> QED
  BY <1>1 DEF View, EditTypeOK

LEMMA EditTypes ==
    ASSUME EditTypeOK, [EditNext]_editVars
    PROVE  EditTypeOK'
<1>1. ASSUME NEW c \in Clients,
             Open(c) \/ Type(c) \/ SaveDraft(c) \/ Autosave(c)
             \/ LoadLatest(c) \/ Overwrite(c)
      PROVE  EditTypeOK'
  BY <1>1, OpenTypes, TypeTypes, SaveDraftTypes, AutosaveTypes,
     LoadLatestTypes, OverwriteTypes
<1>2. ASSUME NEW a \in Callers, ApiSave(a)
      PROVE  EditTypeOK'
  BY <1>2, ApiSaveTypes
<1>3. ASSUME NEW s \in Slots,
             ReadExisting(s) \/ WriteBody(s) \/ WriteMissed(s) \/ ReadLatest(s)
             \/ ReadStamp(s) \/ LogEdit(s) \/ FailSave(s)
      PROVE  EditTypeOK'
  BY <1>3, ReadExistingTypes, WriteBodyTypes, WriteMissedTypes, AnswerTypes,
     ReadStampTypes, LogEditTypes, FailSaveTypes DEF ReadLatest
<1>4. CASE View
  BY <1>4, ViewTypes
<1>5. CASE UNCHANGED editVars
  BY <1>5 DEF editVars, EditTypeOK
<1> QED
  BY <1>1, <1>2, <1>3, <1>4, <1>5 DEF EditNext

-----------------------------------------------------------------------------
(***************************************************************************)
(* The steps of publishing and reviewing keep the types.                   *)
(***************************************************************************)
ApprovalTypeOK ==
    /\ approval \in Seq(ApprovalTypes)
    /\ versions \in Seq(VersionTypes)
    /\ required \in BOOLEAN
    /\ op \in [Handlers -> OpTypes]

\* What every step of a handler does to its record.
LEMMA BeginTypes ==
    ASSUME TypeOK, NEW h \in Handlers,
           NEW pc \in {"find", "publish", "reject"}, NEW i \in Nat, Begin(h, pc, i)
    PROVE  /\ op' = [op EXCEPT ![h] = [pc |-> pc, row |-> i]]
           /\ op' \in [Handlers -> OpTypes]
           /\ begun' \in 0..MaxBegun
<1>1. op' = [op EXCEPT ![h] = [pc |-> pc, row |-> i]]
  BY DEF Begin
<1>2. [pc |-> pc, row |-> i] \in OpTypes
  BY DEF OpTypes
<1>3. begun' \in 0..MaxBegun
  BY EditingAssumption DEF Begin, Count, TypeOK, EditTypeOK
<1> QED
  BY <1>1, <1>2, <1>3 DEF TypeOK

LEMMA StepTypes ==
    ASSUME TypeOK, NEW h \in Handlers, NEW from,
           NEW to \in {"idle", "create", "version", "mark"}, Step(h, from, to)
    PROVE  /\ op' \in [Handlers -> OpTypes]
           /\ to = "idle" => op' = [op EXCEPT ![h] = NoOp]
           /\ to # "idle" => op' = [op EXCEPT ![h] = [pc |-> to, row |-> op[h].row]]
<1>1. op[h] \in OpTypes
  BY DEF TypeOK
<1>2. [op[h] EXCEPT !.pc = to] = [pc |-> to, row |-> op[h].row]
  BY <1>1 DEF OpTypes
<1>3. NoOp \in OpTypes /\ [pc |-> to, row |-> op[h].row] \in OpTypes
  BY <1>1 DEF OpTypes, NoOp
<1>4. to = "idle" => op' = [op EXCEPT ![h] = NoOp]
  BY DEF Step
<1>5. to # "idle" => op' = [op EXCEPT ![h] = [pc |-> to, row |-> op[h].row]]
  BY <1>2 DEF Step
<1>6. op \in [Handlers -> OpTypes]
  BY DEF TypeOK
<1> QED
  BY <1>3, <1>4, <1>5, <1>6

\* A write of the page row that keeps or restores a text.
LEMMA WritePageTypes ==
    ASSUME TypeOK, NEW row \in PageTypes, WritePage(row)
    PROVE  /\ page' \in PageTypes
           /\ page'.body = row.body
           /\ page'.stamp = page.stamp + 1
<1>1. page.stamp + 1 \in Stamp
  BY EditingAssumption DEF WritePage, TypeOK, EditTypeOK, PageTypes, Stamp
<1> QED
  BY <1>1 DEF WritePage, PageTypes

LEMMA PageRows ==
    ASSUME TypeOK, NEW b \in Text
    PROVE  /\ [page EXCEPT !.status = "PUBLISHED", !.dated = TRUE] \in PageTypes
           /\ [page EXCEPT !.body = b, !.status = "PUBLISHED", !.dated = TRUE] \in PageTypes
           /\ [page EXCEPT !.status = "DRAFT", !.dated = FALSE] \in PageTypes
           /\ [page EXCEPT !.status = "ARCHIVED"] \in PageTypes
  BY DEF TypeOK, EditTypeOK, PageTypes

LEMMA VersionRow ==
    ASSUME TypeOK, NEW b \in Text, NEW i \in Nat
    PROVE  Append(versions, [body |-> b, row |-> i]) \in Seq(VersionTypes)
<1>1. [body |-> b, row |-> i] \in VersionTypes
  BY DEF VersionTypes
<1>2. versions \in Seq(VersionTypes)
  BY DEF TypeOK
<1> QED
  BY <1>1, <1>2, AppendTypes

\* The rows a decision leaves.
LEMMA DecideTypes ==
    ASSUME TypeOK, NEW i, NEW st \in {"APPROVED", "REJECTED"}, Decide(i, st)
    PROVE  /\ approval' \in Seq(ApprovalTypes)
           /\ Len(approval') = Len(approval)
           /\ DOMAIN approval' = DOMAIN approval
           /\ \A k \in DOMAIN approval :
                /\ approval'[k].by = approval[k].by
                /\ k # i => approval'[k] = approval[k]
                /\ k = i => approval'[k].status = st
<1>1. approval \in Seq(ApprovalTypes)
  BY DEF TypeOK
<1>2. \A k \in DOMAIN approval : approval[k] \in ApprovalTypes
  BY <1>1
<1>3. \A k \in DOMAIN approval : [approval[k] EXCEPT !.status = st] \in ApprovalTypes
  BY <1>2 DEF ApprovalTypes
<1>4. approval' = [k \in DOMAIN approval |->
                     IF k = i THEN [approval[k] EXCEPT !.status = st] ELSE approval[k]]
  BY <1>1 DEF Decide
<1>5. DOMAIN approval' = DOMAIN approval
  BY <1>4
<1>6. \A k \in DOMAIN approval :
        approval'[k] = IF k = i THEN [approval[k] EXCEPT !.status = st] ELSE approval[k]
  BY <1>4
<1>7. \A k \in DOMAIN approval : approval'[k] \in ApprovalTypes
  BY <1>2, <1>3, <1>6
<1>8. approval' \in [1..Len(approval) -> ApprovalTypes]
  <2>1. DOMAIN approval = 1..Len(approval) /\ Len(approval) \in Nat
    BY <1>1
  <2>2. approval' \in [DOMAIN approval -> ApprovalTypes]
    BY <1>4, <1>7
  <2> QED
    BY <2>1, <2>2
<1>9. approval' \in Seq(ApprovalTypes) /\ Len(approval') = Len(approval)
  BY <1>1, <1>8
<1>10. \A k \in DOMAIN approval :
         /\ approval'[k].by = approval[k].by
         /\ k = i => approval'[k].status = st
  BY <1>2, <1>6 DEF ApprovalTypes
<1> QED
  BY <1>5, <1>6, <1>9, <1>10

-----------------------------------------------------------------------------
(***************************************************************************)
(* The invariant of the approval rows: a handler names a row that exists,  *)
(* one that will mark it approved has made a version of it, one that will  *)
(* create a row has no pending row of its own; a later row than a pending  *)
(* one is another handler's; a settled row is decided and in no review.    *)
(***************************************************************************)
HasVersion(i) == \E v \in DOMAIN versions : versions[v].row = i

PendingBy(h) ==
    {i \in DOMAIN approval : approval[i].status = "PENDING" /\ approval[i].by = h}

HandlerInv ==
    \A h \in Handlers :
        /\ op[h].row # 0 => op[h].row \in DOMAIN approval
        /\ op[h].pc \in {"reject", "mark"} => op[h].row # 0
        /\ op[h].pc = "mark" => HasVersion(op[h].row)
        /\ op[h].pc = "create" => PendingBy(h) = {}

RowInv ==
    \A i \in DOMAIN approval :
        /\ approval[i].status = "APPROVED" => HasVersion(i)
        /\ approval[i].status = "PENDING" =>
             \A j \in DOMAIN approval : j > i => approval[j].by # approval[i].by

SettledInv ==
    \A i \in settled :
        /\ i \in DOMAIN approval
        /\ approval[i].status # "PENDING"
        /\ \A h \in Handlers : op[h].row # i

RowsInv == HandlerInv /\ RowInv /\ SettledInv

\* What a step may not do to settled rows.
Stands ==
    \A i \in settled :
        /\ i \in DOMAIN approval'
        /\ approval'[i] = approval[i]
        /\ \A h \in Handlers : op'[h].row # i

\* Versions are only added.
LEMMA VersionsGrow ==
    ASSUME TypeOK, NEW x, versions' = versions \/ versions' = Append(versions, x)
    PROVE  /\ \A i : HasVersion(i) => HasVersion(i)'
           /\ versions' = Append(versions, x) =>
                \E v \in DOMAIN versions' : versions'[v].row = x.row
<1>1. versions \in Seq(VersionTypes)
  BY DEF TypeOK
<1>2. \A i : HasVersion(i) => HasVersion(i)'
  <2> SUFFICES ASSUME NEW i, HasVersion(i) PROVE HasVersion(i)'
    OBVIOUS
  <2>1. PICK v \in DOMAIN versions : versions[v].row = i
    BY DEF HasVersion
  <2>2. v \in DOMAIN versions' /\ versions'[v] = versions[v]
    BY <1>1, <2>1
  <2> QED
    BY <2>1, <2>2 DEF HasVersion
<1>3. ASSUME versions' = Append(versions, x)
      PROVE  \E v \in DOMAIN versions' : versions'[v].row = x.row
  <2>1. Len(versions) + 1 \in DOMAIN versions' /\ versions'[Len(versions) + 1] = x
    BY <1>1, <1>3
  <2> QED
    BY <2>1
<1> QED
  BY <1>2, <1>3

\* A handler moves, and the rows stay as they are.
LEMMA MoveKeeps ==
    ASSUME TypeOK, RowsInv, NEW h \in Handlers, NEW new \in OpTypes,
           op' = [op EXCEPT ![h] = new], approval' = approval,
           \A i : HasVersion(i) => HasVersion(i)',
           new.row # 0 => /\ new.row \in DOMAIN approval
                          /\ \/ new.row = op[h].row
                             \/ approval[new.row].status = "PENDING",
           new.pc \in {"reject", "mark"} => new.row # 0,
           new.pc = "mark" => \E v \in DOMAIN versions' : versions'[v].row = new.row,
           new.pc = "create" => PendingBy(h) = {}
    PROVE  HandlerInv' /\ RowInv' /\ Stands
<1>1. \A g \in Handlers : op'[g] = IF g = h THEN new ELSE op[g]
  BY DEF TypeOK
<1>2. HandlerInv'
  <2> SUFFICES ASSUME NEW g \in Handlers
               PROVE  /\ op'[g].row # 0 => op'[g].row \in DOMAIN approval'
                      /\ op'[g].pc \in {"reject", "mark"} => op'[g].row # 0
                      /\ op'[g].pc = "mark" => HasVersion(op[g].row)'
                      /\ op'[g].pc = "create" => PendingBy(g)' = {}
    BY DEF HandlerInv
  <2>1. PendingBy(g)' = PendingBy(g)
    BY DEF PendingBy
  <2>2. CASE g = h
    BY <1>1, <2>1, <2>2 DEF HasVersion
  <2>3. CASE g # h
    BY <1>1, <2>1, <2>3 DEF RowsInv, HandlerInv
  <2> QED
    BY <2>2, <2>3
<1>3. RowInv'
  BY DEF RowsInv, RowInv
<1>4. Stands
  <2> SUFFICES ASSUME NEW i \in settled, NEW g \in Handlers
               PROVE  op'[g].row # i
    BY DEF RowsInv, SettledInv, Stands
  <2>1. /\ i \in DOMAIN approval /\ approval[i].status # "PENDING"
        /\ op[g].row # i /\ op[h].row # i
    BY DEF RowsInv, SettledInv
  <2>2. i # 0
    BY <2>1 DEF TypeOK
  <2> QED
    BY <1>1, <2>1, <2>2
<1> QED
  BY <1>2, <1>3, <1>4

\* A review writes its decision.
LEMMA DecideKeeps ==
    ASSUME TypeOK, RowsInv, NEW h \in Handlers, NEW st \in {"APPROVED", "REJECTED"},
           op' = [op EXCEPT ![h] = NoOp], Decide(op[h].row, st),
           versions' = versions, op[h].row # 0,
           st = "APPROVED" => HasVersion(op[h].row)
    PROVE  HandlerInv' /\ RowInv' /\ Stands
<1>1. \A g \in Handlers : op'[g] = IF g = h THEN NoOp ELSE op[g]
  BY DEF TypeOK
<1>2. NoOp.row = 0 /\ NoOp.pc = "idle"
  BY DEF NoOp
<1>3. /\ DOMAIN approval' = DOMAIN approval
      /\ \A k \in DOMAIN approval :
            /\ approval'[k].by = approval[k].by
            /\ k # op[h].row => approval'[k] = approval[k]
            /\ k = op[h].row => approval'[k].status = st
  BY DecideTypes
<1>4. \A i : HasVersion(i)' <=> HasVersion(i)
  BY DEF HasVersion
<1>5. HandlerInv'
  <2> SUFFICES ASSUME NEW g \in Handlers
               PROVE  /\ op'[g].row # 0 => op'[g].row \in DOMAIN approval'
                      /\ op'[g].pc \in {"reject", "mark"} => op'[g].row # 0
                      /\ op'[g].pc = "mark" => HasVersion(op[g].row)'
                      /\ op'[g].pc = "create" => PendingBy(g)' = {}
    BY DEF HandlerInv
  <2>1. PendingBy(g)' \subseteq PendingBy(g)
    BY <1>3 DEF PendingBy
  <2>2. CASE g = h
    BY <1>1, <1>2, <2>2
  <2>3. CASE g # h
    BY <1>1, <1>3, <1>4, <2>1, <2>3 DEF RowsInv, HandlerInv
  <2> QED
    BY <2>2, <2>3
<1>6. RowInv'
  <2> SUFFICES ASSUME NEW i \in DOMAIN approval
               PROVE  /\ approval'[i].status = "APPROVED" => HasVersion(i)'
                      /\ approval'[i].status = "PENDING" =>
                           \A j \in DOMAIN approval' :
                             j > i => approval'[j].by # approval'[i].by
    BY <1>3 DEF RowInv
  <2>1. CASE i = op[h].row
    BY <1>3, <1>4, <2>1
  <2>2. CASE i # op[h].row
    BY <1>3, <1>4, <2>2 DEF RowsInv, RowInv
  <2> QED
    BY <2>1, <2>2
<1>7. Stands
  <2> SUFFICES ASSUME NEW i \in settled
               PROVE  /\ i \in DOMAIN approval' /\ approval'[i] = approval[i]
                      /\ \A g \in Handlers : op'[g].row # i
    BY DEF Stands
  <2>1. i \in DOMAIN approval /\ i # op[h].row /\ \A g \in Handlers : op[g].row # i
    BY DEF RowsInv, SettledInv
  <2>2. i # 0
    BY <2>1 DEF TypeOK
  <2> QED
    BY <1>1, <1>2, <1>3, <2>1, <2>2
<1> QED
  BY <1>5, <1>6, <1>7

\* A handler that found nothing pending creates its row.
LEMMA CreateKeeps ==
    ASSUME TypeOK, RowsInv, NEW h \in Handlers, op[h].pc = "create",
           op' = [op EXCEPT ![h] = NoOp], versions' = versions,
           approval' = Append(approval, [status |-> "PENDING", by |-> h])
    PROVE  HandlerInv' /\ RowInv' /\ Stands
<1> DEFINE n == Len(approval) + 1
<1>1. \A g \in Handlers : op'[g] = IF g = h THEN NoOp ELSE op[g]
  BY DEF TypeOK
<1>2. NoOp.row = 0 /\ NoOp.pc = "idle"
  BY DEF NoOp
<1>3. approval \in Seq(ApprovalTypes)
  BY DEF TypeOK
<1>4. /\ DOMAIN approval' = DOMAIN approval \cup {n}
      /\ n \notin DOMAIN approval /\ DOMAIN approval \subseteq Nat /\ n \in Nat
      /\ \A k \in DOMAIN approval : k < n /\ approval'[k] = approval[k]
      /\ approval'[n] = [status |-> "PENDING", by |-> h]
  BY <1>3
<1>5. approval'[n].status = "PENDING" /\ approval'[n].by = h
  BY <1>4
<1>6. \A i : HasVersion(i)' <=> HasVersion(i)
  BY DEF HasVersion
<1> HIDE DEF n
<1>7. HandlerInv'
  <2> SUFFICES ASSUME NEW g \in Handlers
               PROVE  /\ op'[g].row # 0 => op'[g].row \in DOMAIN approval'
                      /\ op'[g].pc \in {"reject", "mark"} => op'[g].row # 0
                      /\ op'[g].pc = "mark" => HasVersion(op[g].row)'
                      /\ op'[g].pc = "create" => PendingBy(g)' = {}
    BY DEF HandlerInv
  <2>1. CASE g = h
    BY <1>1, <1>2, <2>1
  <2>2. CASE g # h
    <3>1. PendingBy(g)' \subseteq PendingBy(g)
      BY <1>4, <1>5, <2>2 DEF PendingBy
    <3> QED
      BY <1>1, <1>4, <1>6, <2>2, <3>1 DEF RowsInv, HandlerInv
  <2> QED
    BY <2>1, <2>2
<1>8. RowInv'
  <2> SUFFICES ASSUME NEW i \in DOMAIN approval'
               PROVE  /\ approval'[i].status = "APPROVED" => HasVersion(i)'
                      /\ approval'[i].status = "PENDING" =>
                           \A j \in DOMAIN approval' :
                             j > i => approval'[j].by # approval'[i].by
    BY DEF RowInv
  <2>1. CASE i = n
    <3>1. \A j \in DOMAIN approval' : ~ (j > i)
      BY <1>4, <2>1
    <3> QED
      BY <1>5, <2>1, <3>1
  <2>2. CASE i # n
    <3>1. i \in DOMAIN approval /\ approval'[i] = approval[i]
      BY <1>4, <2>2
    <3>2. PendingBy(h) = {}
      BY DEF RowsInv, HandlerInv
    <3>3. approval[i].status = "PENDING" => approval[i].by # h
      BY <3>1, <3>2 DEF PendingBy
    <3>4. approval[i].status = "PENDING" =>
            \A j \in DOMAIN approval : j > i => approval[j].by # approval[i].by
      BY <3>1 DEF RowsInv, RowInv
    <3>5. approval[i].status = "APPROVED" => HasVersion(i)
      BY <3>1 DEF RowsInv, RowInv
    <3> QED
      BY <1>4, <1>5, <1>6, <3>1, <3>3, <3>4, <3>5
  <2> QED
    BY <2>1, <2>2
<1>9. Stands
  <2> SUFFICES ASSUME NEW i \in settled
               PROVE  /\ i \in DOMAIN approval' /\ approval'[i] = approval[i]
                      /\ \A g \in Handlers : op'[g].row # i
    BY DEF Stands
  <2>1. i \in DOMAIN approval /\ \A g \in Handlers : op[g].row # i
    BY DEF RowsInv, SettledInv
  <2>2. i # 0
    BY <1>3, <2>1
  <2> QED
    BY <1>1, <1>2, <1>4, <2>1, <2>2
<1> QED
  BY <1>7, <1>8, <1>9

-----------------------------------------------------------------------------
(***************************************************************************)
(* What each step of publishing and reviewing does: the editors stay, the  *)
(* page row keeps its stamp or gets the next one, the rows keep their      *)
(* invariant and their settled part.                                       *)
(***************************************************************************)
PageStep ==
    \/ page' = page
    \/ page' \in PageTypes /\ page'.stamp = page.stamp + 1

StepOK ==
    /\ ApprovalTypeOK' /\ begun' \in 0..MaxBegun
    /\ PageStep /\ UNCHANGED Editors
    /\ HandlerInv' /\ RowInv' /\ Stands

LEMMA RowsAreNumbers ==
    ASSUME TypeOK
    PROVE  /\ DOMAIN approval \subseteq Row
           /\ \A v \in DOMAIN versions : versions[v].body \in Text
           /\ \A h \in Handlers : op[h] \in OpTypes /\ op[h].row \in Nat
<1>1. approval \in Seq(ApprovalTypes) /\ versions \in Seq(VersionTypes)
  BY DEF TypeOK
<1>2. DOMAIN approval \subseteq Row
  BY <1>1 DEF Row
<1>3. \A v \in DOMAIN versions : versions[v] \in VersionTypes
  BY <1>1
<1>4. \A h \in Handlers : op[h] \in OpTypes
  BY DEF TypeOK
<1> QED
  BY <1>2, <1>3, <1>4 DEF VersionTypes, OpTypes

LEMMA BeginOK ==
    ASSUME TypeOK, RowsInv, NEW h \in Handlers,
           NEW pc \in {"find", "publish", "reject"}, NEW i \in Nat, Begin(h, pc, i),
           i # 0 => i \in DOMAIN approval /\ approval[i].status = "PENDING",
           pc = "reject" => i # 0,
           UNCHANGED <<page, Editors, approval, versions, required>>
    PROVE  StepOK
<1> DEFINE new == [pc |-> pc, row |-> i]
<1>1. /\ op' = [op EXCEPT ![h] = new] /\ op' \in [Handlers -> OpTypes]
      /\ begun' \in 0..MaxBegun
  BY BeginTypes
<1>2. new \in OpTypes /\ new.pc = pc /\ new.row = i
  BY DEF OpTypes
<1> HIDE DEF new
<1>3. approval' = approval /\ \A k : HasVersion(k) => HasVersion(k)'
  BY DEF HasVersion
<1>4. HandlerInv' /\ RowInv' /\ Stands
  BY <1>1, <1>2, <1>3, MoveKeeps
<1>5. ApprovalTypeOK'
  BY <1>1 DEF ApprovalTypeOK, TypeOK
<1> QED
  BY <1>1, <1>4, <1>5 DEF StepOK, PageStep

LEMMA BeginPublishOK ==
    ASSUME TypeOK, RowsInv, NEW h \in Handlers, BeginPublish(h)
    PROVE  StepOK
<1>1. CASE required
  BY <1>1, BeginOK DEF BeginPublish
<1>2. CASE ~required
  BY <1>2, BeginOK DEF BeginPublish
<1> QED
  BY <1>1, <1>2

LEMMA ReviewOK ==
    ASSUME TypeOK, RowsInv, NEW h \in Handlers, NEW i \in Rows,
           ReviewChain(h, i) \/ ReviewQueue(h, i)
    PROVE  StepOK
<1>1. i \in Nat /\ i # 0 /\ i \in DOMAIN approval
  BY RowsAreNumbers DEF Rows, Row
<1>2. /\ approval[i].status = "PENDING"
      /\ Begin(h, "reject", i) \/ Begin(h, "publish", i)
      /\ UNCHANGED <<page, Editors, approval, versions, required>>
  BY DEF ReviewChain, ReviewQueue, Reviewable
<1> QED
  BY <1>1, <1>2, BeginOK

\* A step of a handler on its way.
LEMMA StepOn ==
    ASSUME TypeOK, RowsInv, NEW h \in Handlers, NEW from,
           NEW to \in {"idle", "create", "version", "mark"}, Step(h, from, to),
           approval' = approval, required' = required, versions' \in Seq(VersionTypes),
           \A i : HasVersion(i) => HasVersion(i)',
           to = "mark" =>
             op[h].row # 0 /\ \E v \in DOMAIN versions' : versions'[v].row = op[h].row,
           to = "create" => PendingBy(h) = {}
    PROVE  ApprovalTypeOK' /\ HandlerInv' /\ RowInv' /\ Stands
<1> DEFINE new == IF to = "idle" THEN NoOp ELSE [pc |-> to, row |-> op[h].row]
<1>1. op' \in [Handlers -> OpTypes] /\ op' = [op EXCEPT ![h] = new]
  BY StepTypes
<1>2. op[h].row \in Nat /\ (op[h].row # 0 => op[h].row \in DOMAIN approval)
  BY RowsAreNumbers DEF RowsInv, HandlerInv
<1>3. /\ new \in OpTypes /\ new.pc = to
      /\ new.row = IF to = "idle" THEN 0 ELSE op[h].row
  BY <1>2 DEF OpTypes, NoOp
<1> HIDE DEF new
<1>4. HandlerInv' /\ RowInv' /\ Stands
  BY <1>1, <1>2, <1>3, MoveKeeps
<1>5. ApprovalTypeOK'
  BY <1>1 DEF ApprovalTypeOK, TypeOK
<1> QED
  BY <1>4, <1>5

LEMMA SameVersions ==
    ASSUME TypeOK, versions' = versions
    PROVE  versions' \in Seq(VersionTypes) /\ \A i : HasVersion(i) <=> HasVersion(i)'
  BY DEF TypeOK, HasVersion

LEMMA Idling ==
    ASSUME TypeOK, UNCHANGED editVars
    PROVE  begun' \in 0..MaxBegun /\ PageStep /\ UNCHANGED Editors
  BY DEF TypeOK, EditTypeOK, editVars, PageStep, Editors

LEMMA FindPendingOK ==
    ASSUME TypeOK, RowsInv, NEW h \in Handlers, FindPending(h)
    PROVE  StepOK
<1>1. UNCHANGED <<editVars, approval, versions, required>>
  BY DEF FindPending
<1>2. CASE Pending = {}
  <2>1. PendingBy(h) = {}
    BY <1>2 DEF Pending, PendingBy, Rows
  <2>2. Step(h, "find", "create")
    BY <1>2 DEF FindPending
  <2> QED
    BY <1>1, <2>1, <2>2, SameVersions, Idling, StepOn DEF StepOK
<1>3. CASE Pending # {}
  <2>1. Step(h, "find", "idle")
    BY <1>3 DEF FindPending
  <2> QED
    BY <1>1, <2>1, SameVersions, Idling, StepOn DEF StepOK
<1> QED
  BY <1>2, <1>3

LEMMA FailOpOK ==
    ASSUME TypeOK, RowsInv, NEW h \in Handlers, FailOp(h)
    PROVE  StepOK
<1>1. UNCHANGED <<editVars, approval, versions, required>> /\ Step(h, op[h].pc, "idle")
  BY DEF FailOp
<1> QED
  BY <1>1, SameVersions, Idling, StepOn DEF StepOK

LEMMA CreateRequestOK ==
    ASSUME TypeOK, RowsInv, NEW h \in Handlers, CreateRequest(h)
    PROVE  StepOK
<1> DEFINE row == [status |-> "PENDING", by |-> h]
<1>1. /\ Step(h, "create", "idle") /\ approval' = Append(approval, row)
      /\ UNCHANGED <<editVars, versions, required>>
  BY DEF CreateRequest
<1>2. op' \in [Handlers -> OpTypes] /\ op' = [op EXCEPT ![h] = NoOp]
  BY <1>1, StepTypes
<1>3. op[h].pc = "create"
  BY <1>1 DEF Step
<1>4. HandlerInv' /\ RowInv' /\ Stands
  BY <1>1, <1>2, <1>3, CreateKeeps
<1>5. row \in ApprovalTypes
  BY DEF ApprovalTypes
<1>6. approval' \in Seq(ApprovalTypes)
  BY <1>1, <1>5, AppendTypes DEF TypeOK
<1>7. ApprovalTypeOK'
  BY <1>1, <1>2, <1>6 DEF ApprovalTypeOK, TypeOK
<1> QED
  BY <1>1, <1>4, <1>7, Idling DEF StepOK

LEMMA DecideOK ==
    ASSUME TypeOK, RowsInv, NEW h \in Handlers, Reject(h) \/ MarkApproved(h)
    PROVE  StepOK
<1>1. UNCHANGED <<editVars, versions, required>>
  BY DEF Reject, MarkApproved
<1>2. op[h].pc \in {"reject", "mark"} /\ (op[h].pc = "mark" => HasVersion(op[h].row))
  BY DEF Reject, MarkApproved, Step, RowsInv, HandlerInv
<1>3. op[h].row # 0
  BY <1>2 DEF RowsInv, HandlerInv
<1>4. op' \in [Handlers -> OpTypes] /\ op' = [op EXCEPT ![h] = NoOp]
  BY StepTypes DEF Reject, MarkApproved
<1>5. ASSUME NEW st \in {"APPROVED", "REJECTED"}, Decide(op[h].row, st),
             st = "APPROVED" => HasVersion(op[h].row)
      PROVE  StepOK
  <2>1. HandlerInv' /\ RowInv' /\ Stands
    BY <1>1, <1>3, <1>4, <1>5, DecideKeeps
  <2>2. approval' \in Seq(ApprovalTypes)
    BY <1>5, DecideTypes
  <2>3. ApprovalTypeOK'
    BY <1>1, <1>4, <2>2 DEF ApprovalTypeOK, TypeOK
  <2> QED
    BY <1>1, <2>1, <2>3, Idling DEF StepOK
<1>6. CASE Reject(h)
  BY <1>5, <1>6 DEF Reject
<1>7. CASE MarkApproved(h)
  <2>1. op[h].pc = "mark" /\ Decide(op[h].row, "APPROVED")
    BY <1>7 DEF MarkApproved, Step
  <2> QED
    BY <1>2, <1>5, <2>1
<1> QED
  BY <1>6, <1>7

LEMMA PublishPageOK ==
    ASSUME TypeOK, RowsInv, NEW h \in Handlers, PublishPage(h)
    PROVE  StepOK
<1>1. /\ Step(h, "publish", "version")
      /\ UNCHANGED <<Editors, begun, approval, versions, required>>
      /\ WritePage([page EXCEPT !.status = "PUBLISHED", !.dated = TRUE])
  BY DEF PublishPage
<1>2. PageStep
  BY <1>1, PageRows, WritePageTypes, Bounds DEF PageStep
<1>3. begun' \in 0..MaxBegun
  BY <1>1 DEF TypeOK, EditTypeOK
<1>4. ApprovalTypeOK' /\ HandlerInv' /\ RowInv' /\ Stands
  BY <1>1, SameVersions, StepOn
<1> QED
  BY <1>1, <1>2, <1>3, <1>4 DEF StepOK

LEMMA CreateVersionOK ==
    ASSUME TypeOK, RowsInv, NEW h \in Handlers, CreateVersion(h)
    PROVE  StepOK
<1> DEFINE x == [body |-> page.body, row |-> op[h].row]
<1>1. /\ Step(h, "version", IF op[h].row = 0 THEN "idle" ELSE "mark")
      /\ versions' = Append(versions, x)
      /\ UNCHANGED <<editVars, approval, required>>
  BY DEF CreateVersion
<1>2. page.body \in Text /\ op[h].row \in Nat
  BY RowsAreNumbers DEF TypeOK, EditTypeOK, PageTypes
<1>3. versions' \in Seq(VersionTypes)
  BY <1>1, <1>2, VersionRow
<1>4. x.row = op[h].row
  OBVIOUS
<1> HIDE DEF x
<1>5. \A i : HasVersion(i) => HasVersion(i)'
  BY <1>1, VersionsGrow
<1>6. \E v \in DOMAIN versions' : versions'[v].row = op[h].row
  BY <1>1, <1>4, VersionsGrow
<1>7. ApprovalTypeOK' /\ HandlerInv' /\ RowInv' /\ Stands
  <2>1. CASE op[h].row = 0
    BY <1>1, <1>3, <1>5, <2>1, StepOn
  <2>2. CASE op[h].row # 0
    BY <1>1, <1>3, <1>5, <1>6, <2>2, StepOn
  <2> QED
    BY <2>1, <2>2
<1> QED
  BY <1>1, <1>7, Idling DEF StepOK

LEMMA CountTypes ==
    ASSUME TypeOK, Count
    PROVE  begun' \in 0..MaxBegun
  BY EditingAssumption DEF Count, TypeOK, EditTypeOK

\* No handler moves and no row changes.
LEMMA StillOK ==
    ASSUME TypeOK, RowsInv, op' = op, approval' = approval,
           \A i : HasVersion(i) => HasVersion(i)'
    PROVE  HandlerInv' /\ RowInv' /\ Stands
<1>1. \A g \in Handlers : PendingBy(g)' = PendingBy(g)
  BY DEF PendingBy
<1>2. \A g \in Handlers : op[g].pc = "mark" => HasVersion(op[g].row)'
  <2> SUFFICES ASSUME NEW g \in Handlers, op[g].pc = "mark"
               PROVE  HasVersion(op[g].row)'
    OBVIOUS
  <2>1. HasVersion(op[g].row)
    BY DEF RowsInv, HandlerInv
  <2>2. \E v \in DOMAIN versions' : versions'[v].row = op[g].row
    BY <2>1 DEF HasVersion
  <2> QED
    BY <2>2 DEF HasVersion
<1>3. HandlerInv'
  BY <1>1, <1>2 DEF RowsInv, HandlerInv
<1>4. RowInv'
  BY DEF RowsInv, RowInv
<1>5. Stands
  BY DEF RowsInv, SettledInv, Stands
<1> QED
  BY <1>3, <1>4, <1>5

LEMMA RollbackOK ==
    ASSUME TypeOK, RowsInv, NEW v \in DOMAIN versions, Rollback(v)
    PROVE  StepOK
<1> DEFINE x == [body |-> versions[v].body, row |-> 0]
<1>1. versions[v].body \in Text
  BY RowsAreNumbers
<1>2. /\ Count
      /\ WritePage([page EXCEPT !.body = versions[v].body,
                                !.status = "PUBLISHED", !.dated = TRUE])
      /\ versions' = Append(versions, x)
      /\ UNCHANGED <<Editors, approval, required, op>>
  BY DEF Rollback
<1>3. PageStep
  BY <1>1, <1>2, PageRows, WritePageTypes DEF PageStep
<1>4. versions' \in Seq(VersionTypes)
  BY <1>1, <1>2, VersionRow
<1>5. \A i : HasVersion(i) => HasVersion(i)'
  BY <1>2, VersionsGrow
<1>6. HandlerInv' /\ RowInv' /\ Stands
  BY <1>2, <1>5, StillOK
<1>7. ApprovalTypeOK'
  BY <1>2, <1>4 DEF ApprovalTypeOK, TypeOK
<1> QED
  BY <1>2, <1>3, <1>6, <1>7, CountTypes DEF StepOK

LEMMA StatusOK ==
    ASSUME TypeOK, RowsInv, Unpublish \/ Archive
    PROVE  StepOK
<1>1. Count /\ UNCHANGED <<Editors, approval, versions, required, op>>
  BY DEF Unpublish, Archive
<1>2. PageStep
  BY PageRows, WritePageTypes, Bounds DEF Unpublish, Archive, PageStep
<1>3. HandlerInv' /\ RowInv' /\ Stands
  BY <1>1, SameVersions, StillOK
<1>4. ApprovalTypeOK'
  BY <1>1 DEF ApprovalTypeOK, TypeOK
<1> QED
  BY <1>1, <1>2, <1>3, <1>4, CountTypes DEF StepOK

LEMMA SetPolicyOK ==
    ASSUME TypeOK, RowsInv, SetPolicy
    PROVE  StepOK
<1>1. Count /\ UNCHANGED <<page, Editors, approval, versions, op>>
  BY DEF SetPolicy
<1>2. required' \in BOOLEAN
  BY DEF SetPolicy, TypeOK
<1>3. HandlerInv' /\ RowInv' /\ Stands
  BY <1>1, SameVersions, StillOK
<1>4. ApprovalTypeOK'
  BY <1>1, <1>2 DEF ApprovalTypeOK, TypeOK
<1> QED
  BY <1>1, <1>3, <1>4, CountTypes DEF StepOK, PageStep

LEMMA ApprovalOK ==
    ASSUME TypeOK, RowsInv, ApprovalStep
    PROVE  StepOK
<1>1. ASSUME NEW h \in Handlers,
             BeginPublish(h) \/ FindPending(h) \/ CreateRequest(h)
             \/ Reject(h) \/ PublishPage(h) \/ CreateVersion(h) \/ MarkApproved(h)
             \/ FailOp(h)
      PROVE  StepOK
  BY <1>1, BeginPublishOK, FindPendingOK, CreateRequestOK, DecideOK,
     PublishPageOK, CreateVersionOK, FailOpOK
<1>2. ASSUME NEW h \in Handlers, NEW i \in Rows, ReviewChain(h, i) \/ ReviewQueue(h, i)
      PROVE  StepOK
  BY <1>2, ReviewOK
<1>3. ASSUME NEW v \in DOMAIN versions, Rollback(v)
      PROVE  StepOK
  BY <1>3, RollbackOK
<1>4. CASE Unpublish \/ Archive \/ SetPolicy
  BY <1>4, StatusOK, SetPolicyOK
<1> QED
  BY <1>1, <1>2, <1>3, <1>4 DEF ApprovalStep

-----------------------------------------------------------------------------
(***************************************************************************)
(* Types and rows, over a step of the whole.                               *)
(***************************************************************************)
LEMMA SettlingOK ==
    ASSUME TypeOK, RowsInv, StepOK, Settling
    PROVE  TypeOK' /\ RowsInv'
<1>1. page' \in PageTypes
  BY DEF StepOK, PageStep, TypeOK, EditTypeOK
<1>2. EditTypeOK'
  BY <1>1 DEF StepOK, Editors, TypeOK, EditTypeOK
<1>3. DOMAIN approval' \subseteq Row
  BY DEF StepOK, ApprovalTypeOK, Row
<1>4. \A i \in settled' :
        \/ i \in settled
        \/ /\ i \in DOMAIN approval' /\ approval'[i].status # "PENDING"
           /\ \A h \in Handlers : op'[h].row # i
  BY DEF Settling, Rows, InReview
<1>5. settled' \subseteq Row
  BY <1>3, <1>4 DEF TypeOK
<1>6. TypeOK'
  BY <1>2, <1>5 DEF TypeOK, StepOK, ApprovalTypeOK
<1>7. SettledInv'
  <2> SUFFICES ASSUME NEW i \in settled'
               PROVE  /\ i \in DOMAIN approval' /\ approval'[i].status # "PENDING"
                      /\ \A h \in Handlers : op'[h].row # i
    BY DEF SettledInv
  <2>1. CASE i \in settled
    BY <2>1 DEF StepOK, Stands, RowsInv, SettledInv
  <2> QED
    BY <1>4, <2>1
<1> QED
  BY <1>6, <1>7 DEF StepOK, RowsInv

LEMMA RowsStutter ==
    ASSUME RowsInv, UNCHANGED approvalVars
    PROVE  RowsInv'
<1>1. UNCHANGED <<approval, versions, op, settled>>
  BY DEF approvalVars
<1>2. HandlerInv'
  BY <1>1 DEF RowsInv, HandlerInv, HasVersion, PendingBy
<1>3. RowInv'
  BY <1>1 DEF RowsInv, RowInv, HasVersion
<1>4. SettledInv'
  BY <1>1 DEF RowsInv, SettledInv
<1> QED
  BY <1>2, <1>3, <1>4 DEF RowsInv

LEMMA RowsNext ==
    ASSUME TypeOK, RowsInv, [Next]_vars
    PROVE  TypeOK' /\ RowsInv'
<1>1. CASE ApprovalStep /\ Settling
  BY <1>1, ApprovalOK, SettlingOK
<1>2. ASSUME [EditNext]_editVars, UNCHANGED approvalVars
      PROVE  TypeOK' /\ RowsInv'
  <2>1. EditTypeOK'
    BY <1>2, EditTypes DEF TypeOK
  <2>2. TypeOK'
    BY <1>2, <2>1 DEF TypeOK, approvalVars
  <2> QED
    BY <1>2, <2>2, RowsStutter
<1>3. CASE UNCHANGED vars
  BY <1>2, <1>3 DEF vars
<1> QED
  BY <1>1, <1>2, <1>3 DEF Next

LEMMA RowsInit == Init => RowsInv
<1> SUFFICES ASSUME Init PROVE RowsInv
  OBVIOUS
<1>1. approval = <<>> /\ settled = {} /\ \A h \in Handlers : op[h] = NoOp
  BY DEF Init
<1>2. NoOp.row = 0 /\ NoOp.pc = "idle"
  BY DEF NoOp
<1>3. DOMAIN approval = {}
  BY <1>1
<1> QED
  BY <1>1, <1>2, <1>3 DEF RowsInv, HandlerInv, RowInv, SettledInv, HasVersion, PendingBy

(***************************************************************************)
(* The page row, the editors, the requests in progress and the approval    *)
(* rows keep their types through every handler and route.                  *)
(***************************************************************************)
THEOREM ReviewTypes == Spec => []TypeOK
<1> QED  BY InitTypes, RowsInit, RowsNext, PTL DEF Spec

(***************************************************************************)
(* Both review routes publish before they write APPROVED: an approved row  *)
(* has a version, however reviews overlap and fail half way.               *)
(***************************************************************************)
THEOREM ApprovedIsPublished == Spec => []ApprovedHasVersion
<1>1. RowsInv => ApprovedHasVersion
  BY DEF RowsInv, RowInv, ApprovedHasVersion, HasVersion, Rows
<1> QED  BY <1>1, InitTypes, RowsInit, RowsNext, PTL DEF Spec

(***************************************************************************)
(* The content queue hides a pending request only behind a later one that  *)
(* an overlapping publish request created.                                 *)
(***************************************************************************)
THEOREM PendingShown == Spec => []PendingIsShown
<1>1. TypeOK /\ RowsInv => PendingIsShown
  <2> SUFFICES ASSUME TypeOK, RowsInv, NEW i \in Pending, ~page.dated,
                      page.status # "ARCHIVED", ContentQueue # {"IN_REVIEW"}
               PROVE  \E j \in Rows : j > i /\ approval[j].by # approval[i].by
    BY DEF PendingIsShown
  <2> DEFINE n == Len(approval)
  <2>1. approval \in Seq(ApprovalTypes)
    BY DEF TypeOK
  <2>2. i \in DOMAIN approval /\ approval[i].status = "PENDING"
    BY DEF Pending, Rows
  <2>3. approval # <<>> /\ n \in DOMAIN approval /\ i \in Nat /\ n \in Nat /\ i <= n
    BY <2>1, <2>2
  <2>4. LatestStatus = approval[n].status
    BY <2>3 DEF LatestStatus
  <2>5. approval[n].status # "PENDING"
    <3> SUFFICES ASSUME approval[n].status = "PENDING" PROVE FALSE
      OBVIOUS
    <3>1. LifecycleStage(page.dated, LatestStatus) = "IN_REVIEW"
      BY <2>4 DEF LifecycleStage
    <3> QED
      BY <3>1 DEF ContentQueue
  <2> HIDE DEF n
  <2>6. n > i
    BY <2>2, <2>3, <2>5
  <2>7. approval[n].by # approval[i].by
    BY <2>2, <2>3, <2>6 DEF RowsInv, RowInv
  <2> QED
    BY <2>3, <2>6, <2>7 DEF Rows
<1> QED  BY <1>1, InitTypes, RowsInit, RowsNext, PTL DEF Spec

(***************************************************************************)
(* A decision stands once no review of its row is in progress, whichever   *)
(* of the two review routes wrote it.                                      *)
(***************************************************************************)
THEOREM DecisionsStand == Spec => DecisionStands
<1>1. TypeOK /\ RowsInv /\ [Next]_vars
        => [\A i \in settled : approval'[i] = approval[i]]_vars
  <2> SUFFICES ASSUME TypeOK, RowsInv, Next
               PROVE  \A i \in settled : approval'[i] = approval[i]
    OBVIOUS
  <2>1. CASE ApprovalStep
    BY <2>1, ApprovalOK DEF StepOK, Stands
  <2>2. CASE UNCHANGED approvalVars
    BY <2>2 DEF approvalVars
  <2> QED
    BY <2>1, <2>2 DEF Next
<1> QED  BY <1>1, InitTypes, RowsInit, RowsNext, PTL DEF Spec, DecisionStands

-----------------------------------------------------------------------------
(***************************************************************************)
(* The lock: a save between its read and its conditional write names a     *)
(* stamp that was the row's, and while it still is, the text it read is    *)
(* the row's.  A save the row took is among the accepted ones until its    *)
(* history row is written.                                                 *)
(***************************************************************************)
LockedAt(pg, r) ==
    r.pc = "write" =>
        /\ r.expected <= pg.stamp
        /\ r.expected = pg.stamp /\ r.expected # NoStamp => r.prev = pg.body

Taken(log, p, n) == \E j \in DOMAIN log : log[j].prev = p /\ log[j].new = n

TakenBy(log, r) == r.pc \in {"reread", "log"} => Taken(log, r.prev, r.new)

SaveInv ==
    /\ \A s \in Slots : LockedAt(page, req[s]) /\ TakenBy(accepted, req[s])
    /\ \A i \in DOMAIN edits : Taken(accepted, edits[i].prev, edits[i].new)

LEMMA PageFields ==
    ASSUME NEW pg \in PageTypes
    PROVE  pg.stamp \in Nat /\ pg.stamp \in Stamp /\ pg.body \in Text
  BY Bounds DEF PageTypes

LEMMA ReqFieldTypes ==
    ASSUME NEW r \in ReqTypes
    PROVE  /\ r.expected \in Nat /\ r.wrote \in Nat /\ r.got \in Nat
           /\ r.expected \in Stamp /\ r.wrote \in Stamp /\ r.got \in Stamp
           /\ r.prev \in Text /\ r.new \in Text
  BY Bounds DEF ReqTypes

\* One slot changes and the row does not.
LEMMA SlotSave ==
    ASSUME EditTypeOK, SaveInv, NEW s \in Slots, NEW r \in ReqTypes,
           req' = [req EXCEPT ![s] = r], page' = page, accepted' = accepted,
           \A i \in DOMAIN edits' : Taken(accepted, edits'[i].prev, edits'[i].new),
           LockedAt(page, r), TakenBy(accepted, r)
    PROVE  SaveInv'
<1>1. \A z \in Slots : req'[z] = IF z = s THEN r ELSE req[z]
  BY DEF EditTypeOK
<1>2. \A z \in Slots : LockedAt(page', req'[z]) /\ TakenBy(accepted', req'[z])
  BY <1>1 DEF SaveInv
<1> QED
  BY <1>2 DEF SaveInv

\* The slots stay and the row keeps its stamp or gets the next one.
LEMMA PageSave ==
    ASSUME EditTypeOK, SaveInv, PageStep, UNCHANGED <<req, accepted, edits>>
    PROVE  SaveInv'
<1>1. \A s \in Slots : LockedAt(page', req[s])
  <2> SUFFICES ASSUME NEW s \in Slots, page'.stamp = page.stamp + 1
               PROVE  LockedAt(page', req[s])
    BY DEF PageStep, SaveInv
  <2>1. req[s].expected \in Nat /\ page.stamp \in Nat
    BY ReqFieldTypes, PageFields DEF EditTypeOK
  <2> QED
    BY <2>1 DEF LockedAt, SaveInv
<1> QED
  BY <1>1 DEF SaveInv

LEMMA SameSave ==
    ASSUME SaveInv, UNCHANGED <<page, req, accepted, edits>>
    PROVE  SaveInv'
  BY DEF SaveInv

LEMMA QuietReq ==
    ASSUME NEW r, r.pc \notin {"write", "reread", "log"}, NEW log, NEW pg
    PROVE  LockedAt(pg, r) /\ TakenBy(log, r)
  BY DEF LockedAt, TakenBy

LEMMA IdleReq == Idle.pc = "idle"
  BY DEF Idle

LEMMA SendSave ==
    ASSUME EditTypeOK, SaveInv, NEW s \in Slots,
           NEW kind \in {"save", "overwrite", "auto", "api"}, NEW t \in Text,
           NEW v \in Stamp, Send(s, kind, t, v), UNCHANGED <<page, accepted, edits>>
    PROVE  SaveInv'
<1> DEFINE r == Sent(kind, t, v)
<1>1. req' = [req EXCEPT ![s] = r]
  BY SendTypes
<1>2. r \in ReqTypes /\ r.pc = "read"
  BY SentTypes
<1> HIDE DEF r
<1>3. LockedAt(page, r) /\ TakenBy(accepted, r)
  BY <1>2, QuietReq
<1>4. \A i \in DOMAIN edits' : Taken(accepted, edits'[i].prev, edits'[i].new)
  BY DEF SaveInv
<1> QED
  BY <1>1, <1>2, <1>3, <1>4, SlotSave

\* The slot becomes idle.
LEMMA IdleSave ==
    ASSUME EditTypeOK, SaveInv, NEW s \in Slots, req' = [req EXCEPT ![s] = Idle],
           UNCHANGED <<page, accepted>>,
           \A i \in DOMAIN edits' : Taken(accepted, edits'[i].prev, edits'[i].new)
    PROVE  SaveInv'
<1>1. LockedAt(page, Idle) /\ TakenBy(accepted, Idle)
  BY IdleReq, QuietReq
<1> QED
  BY <1>1, IdleTypes, SlotSave

LEMMA ClientSave ==
    ASSUME EditTypeOK, SaveInv, NEW c \in Clients,
           Open(c) \/ Type(c) \/ SaveDraft(c) \/ Autosave(c)
           \/ LoadLatest(c) \/ Overwrite(c)
    PROVE  SaveInv'
<1>1. ed[c] \in EditorTypes
  BY DEF EditTypeOK
<1>2. /\ ed[c].body \in Text /\ ed[c].draft \in Text
      /\ ed[c].version \in Stamp /\ ed[c].timerVersion \in Stamp /\ ed[c].conflict \in Stamp
      /\ ed[c].timer # 0 => ed[c].timer \in Text
  BY <1>1, EditingAssumption DEF EditorTypes, Text
<1>3. CASE Open(c) \/ Type(c) \/ LoadLatest(c)
  BY <1>3, SameSave DEF Open, Type, LoadLatest
<1>4. CASE SaveDraft(c)
  BY <1>2, <1>4, SlotOf, SendSave DEF SaveDraft
<1>5. CASE Autosave(c)
  BY <1>2, <1>5, SlotOf, SendSave DEF Autosave
<1>6. CASE Overwrite(c)
  BY <1>2, <1>6, SlotOf, SendSave DEF Overwrite
<1> QED
  BY <1>3, <1>4, <1>5, <1>6

LEMMA ApiSaveSave ==
    ASSUME EditTypeOK, SaveInv, NEW a \in Callers, ApiSave(a)
    PROVE  SaveInv'
<1>1. typed + 1 \in Text /\ NoStamp \in Stamp
  BY Bounds, EditingAssumption DEF ApiSave, EditTypeOK, Text, NoStamp
<1>2. /\ Send(<<a, "api">>, "api", typed + 1, NoStamp)
      /\ UNCHANGED <<page, accepted, edits>>
  BY DEF ApiSave
<1> QED
  BY <1>1, <1>2, ApiSlot, SendSave

LEMMA AnswerSave ==
    ASSUME EditTypeOK, SaveInv, NEW s \in Slots, AnswerConflict(s)
    PROVE  SaveInv'
<1>1. req' = [req EXCEPT ![s] = Idle] /\ UNCHANGED <<page, accepted, edits>>
  BY DEF AnswerConflict
<1>2. \A i \in DOMAIN edits' : Taken(accepted, edits'[i].prev, edits'[i].new)
  BY <1>1 DEF SaveInv
<1> QED
  BY <1>1, <1>2, IdleSave

LEMMA ReadSave ==
    ASSUME EditTypeOK, SaveInv, NEW s \in Slots, ReadExisting(s)
    PROVE  SaveInv'
<1>1. CASE AnswerConflict(s)
  BY <1>1, AnswerSave
<1>2. ASSUME req[s].expected \in {NoStamp, page.stamp},
             req' = [req EXCEPT ![s].pc = "write", ![s].prev = page.body],
             UNCHANGED <<page, accepted, edits>>
      PROVE  SaveInv'
  <2> DEFINE r == [req[s] EXCEPT !.pc = "write", !.prev = page.body]
  <2>1. req[s] \in ReqTypes /\ page.body \in Text /\ page.stamp \in Nat
    BY PageFields DEF EditTypeOK
  <2>2. r \in ReqTypes
    BY <2>1, ReqFields, Bounds
  <2>3. r.pc = "write" /\ r.prev = page.body /\ r.expected = req[s].expected
    BY <2>1 DEF ReqTypes
  <2>4. req' = [req EXCEPT ![s] = r]
    BY <1>2 DEF EditTypeOK
  <2> HIDE DEF r
  <2>5. LockedAt(page, r) /\ TakenBy(accepted, r)
    BY <1>2, <2>1, <2>3 DEF LockedAt, TakenBy, NoStamp
  <2>6. \A i \in DOMAIN edits' : Taken(accepted, edits'[i].prev, edits'[i].new)
    BY <1>2 DEF SaveInv
  <2> QED
    BY <1>2, <2>2, <2>4, <2>5, <2>6, SlotSave
<1> QED
  BY <1>1, <1>2 DEF ReadExisting

LEMMA MissedSave ==
    ASSUME EditTypeOK, SaveInv, NEW s \in Slots, WriteMissed(s)
    PROVE  SaveInv'
<1> DEFINE r == [req[s] EXCEPT !.pc = "conflict"]
<1>1. r \in ReqTypes /\ r.pc = "conflict"
  BY DEF EditTypeOK, ReqTypes
<1>2. req' = [req EXCEPT ![s] = r] /\ UNCHANGED <<page, accepted, edits>>
  BY DEF WriteMissed, Goto, EditTypeOK
<1> HIDE DEF r
<1>3. LockedAt(page, r) /\ TakenBy(accepted, r)
  BY <1>1, QuietReq
<1>4. \A i \in DOMAIN edits' : Taken(accepted, edits'[i].prev, edits'[i].new)
  BY <1>2 DEF SaveInv
<1> QED
  BY <1>1, <1>2, <1>3, <1>4, SlotSave

LEMMA StampSave ==
    ASSUME EditTypeOK, SaveInv, NEW s \in Slots, ReadStamp(s)
    PROVE  SaveInv'
<1> DEFINE r == [req[s] EXCEPT !.pc = "log", !.got = page.stamp]
<1>1. req[s] \in ReqTypes /\ page.stamp \in Stamp
  BY PageFields DEF EditTypeOK
<1>2. r \in ReqTypes
  BY <1>1, ReqFields, Bounds
<1>3. r.pc = "log" /\ r.prev = req[s].prev /\ r.new = req[s].new
  BY <1>1 DEF ReqTypes
<1>4. req' = [req EXCEPT ![s] = r] /\ UNCHANGED <<page, accepted, edits>>
  BY DEF ReadStamp, EditTypeOK
<1> HIDE DEF r
<1>5. TakenBy(accepted, req[s]) /\ req[s].pc = "reread"
  BY DEF SaveInv, ReadStamp
<1>6. LockedAt(page, r) /\ TakenBy(accepted, r)
  BY <1>3, <1>5 DEF LockedAt, TakenBy
<1>7. \A i \in DOMAIN edits' : Taken(accepted, edits'[i].prev, edits'[i].new)
  BY <1>4 DEF SaveInv
<1> QED
  BY <1>2, <1>4, <1>6, <1>7, SlotSave

LEMMA LogSave ==
    ASSUME EditTypeOK, SaveInv, NEW s \in Slots, LogEdit(s)
    PROVE  SaveInv'
<1>1. /\ req' = [req EXCEPT ![s] = Idle] /\ UNCHANGED <<page, accepted>>
      /\ edits' = edits \/ edits' = Append(edits, EditRow(req[s]))
  BY DEF LogEdit
<1>2. Taken(accepted, req[s].prev, req[s].new)
  BY DEF SaveInv, TakenBy, LogEdit
<1>3. EditRow(req[s]).prev = req[s].prev /\ EditRow(req[s]).new = req[s].new
  BY DEF EditRow
<1>4. edits \in Seq([prev : Text, new : Text])
  BY DEF EditTypeOK
<1>5. \A i \in DOMAIN edits' :
        \/ i \in DOMAIN edits /\ edits'[i] = edits[i]
        \/ edits'[i] = EditRow(req[s])
  BY <1>1, <1>4
<1>6. \A i \in DOMAIN edits' : Taken(accepted, edits'[i].prev, edits'[i].new)
  BY <1>2, <1>3, <1>5 DEF SaveInv
<1> QED
  BY <1>1, <1>6, IdleSave

LEMMA FailSaveSave ==
    ASSUME EditTypeOK, SaveInv, NEW s \in Slots, FailSave(s)
    PROVE  SaveInv'
<1>1. req' = [req EXCEPT ![s] = Idle] /\ UNCHANGED <<page, accepted, edits>>
  BY DEF FailSave
<1>2. \A i \in DOMAIN edits' : Taken(accepted, edits'[i].prev, edits'[i].new)
  BY <1>1 DEF SaveInv
<1> QED
  BY <1>1, <1>2, IdleSave

\* What the conditional write does.
LEMMA WriteFacts ==
    ASSUME EditTypeOK, NEW s \in Slots, WriteBody(s)
    PROVE  LET r == req'[s]
               e == [expected |-> req[s].expected, prev |-> req[s].prev,
                     new |-> req[s].new]
           IN /\ req' = [req EXCEPT ![s] = r] /\ r \in ReqTypes
              /\ r.pc = IF req[s].expected = NoStamp THEN "log" ELSE "reread"
              /\ r.prev = req[s].prev /\ r.new = req[s].new
              /\ r.expected = req[s].expected
              /\ r.wrote = page.stamp + 1 /\ r.got = page.stamp + 1
              /\ page' \in PageTypes /\ page'.stamp = page.stamp + 1
              /\ page'.body = req[s].new
              /\ accepted' = Append(accepted, e)
              /\ req[s].pc = "write" /\ req[s].expected \in {NoStamp, page.stamp}
              /\ UNCHANGED <<ed, edits, shown, late>>
<1> DEFINE p == IF req[s].expected = NoStamp THEN "log" ELSE "reread"
           rec == [req[s] EXCEPT !.pc = p, !.wrote = page.stamp + 1,
                                 !.got = page.stamp + 1]
<1>1. req[s] \in ReqTypes /\ page.stamp + 1 \in Stamp
  BY EditingAssumption DEF WriteBody, EditTypeOK, PageTypes, Stamp
<1>2. rec \in ReqTypes
  BY <1>1, ReqFields, Bounds
<1>3. /\ rec.pc = p /\ rec.prev = req[s].prev /\ rec.new = req[s].new
      /\ rec.expected = req[s].expected
      /\ rec.wrote = page.stamp + 1 /\ rec.got = page.stamp + 1
  BY <1>1 DEF ReqTypes
<1>4. req' = [req EXCEPT ![s] = rec]
  BY DEF WriteBody, EditTypeOK
<1>5. req'[s] = rec
  BY <1>4 DEF EditTypeOK
<1>6. EditTypeOK'
  BY WriteBodyTypes
<1>7. /\ page' \in PageTypes /\ page'.stamp = page.stamp + 1
      /\ page'.body = req[s].new
  BY <1>6 DEF EditTypeOK, WriteBody, NewBody, PageTypes
<1>8. /\ accepted' = Append(accepted, [expected |-> req[s].expected,
                                       prev |-> req[s].prev, new |-> req[s].new])
      /\ req[s].pc = "write" /\ req[s].expected \in {NoStamp, page.stamp}
      /\ UNCHANGED <<ed, edits, shown, late>>
  BY DEF WriteBody, StampMatches
<1> HIDE DEF rec
<1> QED
  BY <1>2, <1>3, <1>4, <1>5, <1>7, <1>8

LEMMA WriteSave ==
    ASSUME EditTypeOK, SaveInv, NEW s \in Slots, WriteBody(s)
    PROVE  SaveInv'
<1> DEFINE r == req'[s]
           e == [expected |-> req[s].expected, prev |-> req[s].prev,
                 new |-> req[s].new]
<1>1. /\ req' = [req EXCEPT ![s] = r]
      /\ r.pc \in {"log", "reread"}
      /\ r.prev = req[s].prev /\ r.new = req[s].new
      /\ page'.stamp = page.stamp + 1
      /\ accepted' = Append(accepted, e) /\ edits' = edits
  BY WriteFacts
<1>2. accepted \in Seq(SaveEntry) /\ e.prev = req[s].prev /\ e.new = req[s].new
  BY DEF EditTypeOK
<1> HIDE DEF e
<1>3. /\ Len(accepted) + 1 \in DOMAIN accepted'
      /\ accepted'[Len(accepted) + 1] = e
      /\ \A j \in DOMAIN accepted : j \in DOMAIN accepted' /\ accepted'[j] = accepted[j]
  BY <1>1, <1>2
<1>4. \A p, n : Taken(accepted, p, n) => Taken(accepted', p, n)
  BY <1>3 DEF Taken
<1>5. Taken(accepted', r.prev, r.new)
  BY <1>1, <1>2, <1>3 DEF Taken
<1>6. \A z \in Slots : req'[z] = IF z = s THEN r ELSE req[z]
  BY <1>1 DEF EditTypeOK
<1> HIDE DEF r
<1>7. LockedAt(page', r) /\ TakenBy(accepted', r)
  BY <1>1, <1>5 DEF LockedAt, TakenBy
<1>8. ASSUME NEW z \in Slots PROVE LockedAt(page', req[z]) /\ TakenBy(accepted', req[z])
  <2>1. req[z].expected \in Nat /\ page.stamp \in Nat
    BY ReqFieldTypes, PageFields DEF EditTypeOK
  <2>2. LockedAt(page, req[z]) /\ TakenBy(accepted, req[z])
    BY DEF SaveInv
  <2> QED
    BY <1>1, <1>4, <2>1, <2>2 DEF LockedAt, TakenBy
<1>9. \A z \in Slots : LockedAt(page', req'[z]) /\ TakenBy(accepted', req'[z])
  BY <1>6, <1>7, <1>8
<1>10. \A i \in DOMAIN edits' : Taken(accepted', edits'[i].prev, edits'[i].new)
  BY <1>1, <1>4 DEF SaveInv
<1> QED
  BY <1>9, <1>10 DEF SaveInv

LEMMA ViewStep ==
    ASSUME EditTypeOK, View
    PROVE  PageStep /\ UNCHANGED <<req, accepted, edits, ed, shown, late>>
<1>1. EditTypeOK'
  BY ViewTypes
<1> QED
  BY <1>1 DEF View, PageStep, EditTypeOK, PageTypes

LEMMA SaveNext ==
    ASSUME TypeOK, RowsInv, SaveInv, [Next]_vars
    PROVE  SaveInv'
<1>1. EditTypeOK
  BY DEF TypeOK
<1>2. CASE ApprovalStep
  <2>1. PageStep /\ UNCHANGED Editors
    BY <1>2, ApprovalOK DEF StepOK
  <2> QED
    BY <1>1, <2>1, PageSave DEF Editors
<1>3. ASSUME NEW c \in Clients,
             Open(c) \/ Type(c) \/ SaveDraft(c) \/ Autosave(c)
             \/ LoadLatest(c) \/ Overwrite(c)
      PROVE  SaveInv'
  BY <1>1, <1>3, ClientSave
<1>4. ASSUME NEW a \in Callers, ApiSave(a)
      PROVE  SaveInv'
  BY <1>1, <1>4, ApiSaveSave
<1>5. ASSUME NEW s \in Slots,
             ReadExisting(s) \/ WriteBody(s) \/ WriteMissed(s) \/ ReadLatest(s)
             \/ ReadStamp(s) \/ LogEdit(s) \/ FailSave(s)
      PROVE  SaveInv'
  BY <1>1, <1>5, ReadSave, WriteSave, MissedSave, AnswerSave, StampSave,
     LogSave, FailSaveSave DEF ReadLatest
<1>6. CASE View
  BY <1>1, <1>6, ViewStep, PageSave
<1>7. CASE UNCHANGED vars
  BY <1>7, SameSave DEF vars, editVars
<1> QED
  BY <1>2, <1>3, <1>4, <1>5, <1>6, <1>7 DEF Next, EditNext

LEMMA SaveInit == Init => SaveInv
<1> SUFFICES ASSUME Init PROVE SaveInv
  OBVIOUS
<1>1. edits = <<>> /\ \A s \in Slots : req[s] = Idle
  BY DEF Init, EditInit
<1>2. \A s \in Slots : LockedAt(page, req[s]) /\ TakenBy(accepted, req[s])
  BY <1>1, IdleReq DEF LockedAt, TakenBy
<1> QED
  BY <1>1, <1>2 DEF SaveInv

(***************************************************************************)
(* Every LandingPageEdit row tells of a save the page row took.            *)
(***************************************************************************)
THEOREM EditRowsAreTrue == Spec => []EditsWereAccepted
<1>1. SaveInv => EditsWereAccepted
  BY DEF SaveInv, Taken, EditsWereAccepted
<1> QED  BY <1>1, InitTypes, RowsInit, RowsNext, SaveInit, SaveNext, PTL DEF Spec

-----------------------------------------------------------------------------
(***************************************************************************)
(* The refinement: read, conditional write, re-read and history row of     *)
(* update() act as one compare-and-set.                                    *)
(***************************************************************************)
LEMMA RegisterStutter ==
    ASSUME UNCHANGED <<page, accepted>>
    PROVE  [Register!Next]_(Register!vars)
  BY DEF Register!vars

LEMMA RegisterRenew ==
    ASSUME EditTypeOK, PageStep, accepted' = accepted
    PROVE  [Register!Next]_(Register!vars)
<1>1. page.stamp \in Nat
  BY PageFields DEF EditTypeOK
<1>2. CASE page' = page
  BY <1>2, RegisterStutter
<1>3. CASE page' \in PageTypes /\ page'.stamp = page.stamp + 1
  <2>1. page'.body \in Text /\ page'.stamp > page.stamp
    BY <1>1, <1>3, PageFields
  <2> QED
    BY <2>1 DEF Register!Next, Register!Renew
<1> QED
  BY <1>2, <1>3 DEF PageStep

LEMMA RegisterSave ==
    ASSUME EditTypeOK, SaveInv, NEW s \in Slots, WriteBody(s)
    PROVE  Register!Next
<1>1. /\ page'.stamp = page.stamp + 1 /\ page'.body = req[s].new
      /\ accepted' = Append(accepted, [expected |-> req[s].expected,
                                       prev |-> req[s].prev, new |-> req[s].new])
      /\ req[s].pc = "write" /\ req[s].expected \in {NoStamp, page.stamp}
  BY WriteFacts
<1>2. page.stamp \in Nat /\ req[s].new \in Text /\ req[s].prev \in Text
  BY PageFields, ReqFieldTypes DEF EditTypeOK
<1>3. page'.stamp > page.stamp
  BY <1>1, <1>2
<1>4. CASE req[s].expected = NoStamp
  <2>1. Register!FreeSave(req[s].new, req[s].prev)
    BY <1>1, <1>3, <1>4 DEF Register!FreeSave
  <2> QED
    BY <1>2, <2>1 DEF Register!Next
<1>5. CASE req[s].expected # NoStamp
  <2>1. req[s].expected = page.stamp /\ req[s].prev = page.body
    BY <1>1, <1>5 DEF SaveInv, LockedAt
  <2>2. Register!LockedSave(req[s].new)
    BY <1>1, <1>3, <2>1 DEF Register!LockedSave
  <2> QED
    BY <1>2, <2>2 DEF Register!Next
<1> QED
  BY <1>4, <1>5

LEMMA RegisterStep ==
    ASSUME TypeOK, RowsInv, SaveInv, [Next]_vars
    PROVE  [Register!Next]_(Register!vars)
<1>1. EditTypeOK
  BY DEF TypeOK
<1>2. CASE ApprovalStep
  <2>1. PageStep /\ UNCHANGED Editors
    BY <1>2, ApprovalOK DEF StepOK
  <2> QED
    BY <1>1, <2>1, RegisterRenew DEF Editors
<1>3. ASSUME NEW c \in Clients,
             Open(c) \/ Type(c) \/ SaveDraft(c) \/ Autosave(c)
             \/ LoadLatest(c) \/ Overwrite(c)
      PROVE  UNCHANGED <<page, accepted>>
  BY <1>3 DEF Open, Type, SaveDraft, Autosave, LoadLatest, Overwrite
<1>4. ASSUME NEW a \in Callers, ApiSave(a)
      PROVE  UNCHANGED <<page, accepted>>
  BY <1>4 DEF ApiSave
<1>5. ASSUME NEW s \in Slots,
             ReadExisting(s) \/ WriteMissed(s) \/ ReadLatest(s)
             \/ ReadStamp(s) \/ LogEdit(s) \/ FailSave(s)
      PROVE  UNCHANGED <<page, accepted>>
  BY <1>5 DEF ReadExisting, WriteMissed, ReadLatest, AnswerConflict, ReadStamp,
              LogEdit, FailSave
<1>6. ASSUME NEW s \in Slots, WriteBody(s)
      PROVE  Register!Next
  BY <1>1, <1>6, RegisterSave
<1>7. CASE View
  BY <1>1, <1>7, ViewStep, RegisterRenew
<1>8. CASE UNCHANGED vars
  BY <1>8, RegisterStutter DEF vars, editVars
<1> QED
  BY <1>2, <1>3, <1>4, <1>5, <1>6, <1>7, <1>8, RegisterStutter DEF Next, EditNext

(***************************************************************************)
(* The PATCH handler implements the register of EditRegister, beside any   *)
(* number of tabs, API clients, views, publishes and rollbacks: no save    *)
(* that names updatedAt replaces a text other than the one it read.        *)
(***************************************************************************)
THEOREM SavesImplementRegister == Spec => SavesAreAtomic
<1>1. Init => Register!Init
  BY Bounds DEF Init, EditInit, Register!Init
<1> QED
  BY <1>1, InitTypes, RowsInit, RowsNext, SaveInit, SaveNext, RegisterStep, PTL
     DEF Spec, SavesAreAtomic, Register!Spec

-----------------------------------------------------------------------------
(***************************************************************************)
(* What a tab knows.  A stamp a tab holds is behind the row's, or the tab  *)
(* has seen the row's text, or it learnt the stamp from an overtaken       *)
(* re-read; what a tab may send, it has seen.                              *)
(***************************************************************************)
Known(pg, seen, lt, v) ==
    \/ v = NoStamp
    \/ v < pg.stamp
    \/ v = pg.stamp /\ (pg.body \in seen \/ v \in lt)

EdKnown(pg, seen, lt, e) ==
    /\ Known(pg, seen, lt, e.version)
    /\ Known(pg, seen, lt, e.timerVersion)
    /\ Known(pg, seen, lt, e.conflict)
    /\ e.open => e.body \in seen
    /\ e.timer # 0 => e.timer \in seen
    /\ e.conflict # NoStamp => e.draft \in seen /\ e.latest \in seen

ReqKnown(pg, seen, lt, r) ==
    r.pc # "idle" =>
        /\ r.new \in seen
        /\ Known(pg, seen, lt, r.expected)
        /\ r.pc \in {"reread", "log"} =>
             /\ r.wrote <= pg.stamp /\ r.got <= pg.stamp
             /\ r.wrote = pg.stamp => pg.body = r.new

KnowInv ==
    /\ \A c \in Clients : EdKnown(page, shown[c], late[c], ed[c])
    /\ \A s \in Slots : s[1] \in Clients =>
         ReqKnown(page, shown[s[1]], late[s[1]], req[s])

Later(pg, pg2) == pg2 = pg \/ pg2.stamp = pg.stamp + 1

LEMMA KnownGrows ==
    ASSUME NEW pg \in PageTypes, NEW pg2 \in PageTypes, Later(pg, pg2),
           NEW seen, NEW seen2, seen \subseteq seen2,
           NEW lt, NEW lt2, lt \subseteq lt2, NEW v \in Stamp,
           Known(pg, seen, lt, v)
    PROVE  Known(pg2, seen2, lt2, v)
<1>1. pg.stamp \in Nat /\ v \in Nat
  BY PageFields, Bounds
<1>2. CASE pg2 = pg
  BY <1>2 DEF Known
<1>3. CASE pg2.stamp = pg.stamp + 1
  <2>1. v = NoStamp \/ v < pg2.stamp
    BY <1>1, <1>3 DEF Known
  <2> QED
    BY <2>1 DEF Known
<1> QED
  BY <1>2, <1>3 DEF Later

LEMMA EditorFields ==
    ASSUME NEW e \in EditorTypes
    PROVE  /\ e.version \in Stamp /\ e.timerVersion \in Stamp /\ e.conflict \in Stamp
           /\ e.body \in Text /\ e.draft \in Text /\ e.latest \in Text
           /\ e.timer # 0 => e.timer \in Text
  BY EditingAssumption DEF EditorTypes, Text

LEMMA EdGrows ==
    ASSUME NEW pg \in PageTypes, NEW pg2 \in PageTypes, Later(pg, pg2),
           NEW seen, NEW seen2, seen \subseteq seen2,
           NEW lt, NEW lt2, lt \subseteq lt2, NEW e \in EditorTypes,
           EdKnown(pg, seen, lt, e)
    PROVE  EdKnown(pg2, seen2, lt2, e)
<1>1. /\ Known(pg2, seen2, lt2, e.version)
      /\ Known(pg2, seen2, lt2, e.timerVersion)
      /\ Known(pg2, seen2, lt2, e.conflict)
  BY EditorFields, KnownGrows DEF EdKnown
<1> QED
  BY <1>1 DEF EdKnown

LEMMA ReqGrows ==
    ASSUME NEW pg \in PageTypes, NEW pg2 \in PageTypes, Later(pg, pg2),
           NEW seen, NEW seen2, seen \subseteq seen2,
           NEW lt, NEW lt2, lt \subseteq lt2, NEW r \in ReqTypes,
           ReqKnown(pg, seen, lt, r)
    PROVE  ReqKnown(pg2, seen2, lt2, r)
<1> SUFFICES ASSUME r.pc # "idle" PROVE ReqKnown(pg2, seen2, lt2, r)
  BY DEF ReqKnown
<1>1. Known(pg2, seen2, lt2, r.expected)
  BY ReqFieldTypes, KnownGrows DEF ReqKnown
<1>2. pg.stamp \in Nat /\ r.wrote \in Nat /\ r.got \in Nat
  BY PageFields, ReqFieldTypes
<1>3. ASSUME r.pc \in {"reread", "log"}
      PROVE  /\ r.wrote <= pg2.stamp /\ r.got <= pg2.stamp
             /\ r.wrote = pg2.stamp => pg2.body = r.new
  <2>1. /\ r.wrote <= pg.stamp /\ r.got <= pg.stamp
        /\ r.wrote = pg.stamp => pg.body = r.new
    BY <1>3 DEF ReqKnown
  <2> QED
    BY <1>2, <2>1 DEF Later
<1> QED
  BY <1>1, <1>3 DEF ReqKnown

\* A step keeps what the tabs know if what it changes is known.
LEMMA KnowFrame ==
    ASSUME EditTypeOK, EditTypeOK', KnowInv, Later(page, page'),
           \A c \in Clients :
             /\ shown[c] \subseteq shown'[c] /\ late[c] \subseteq late'[c]
             /\ ed'[c] = ed[c] \/ EdKnown(page', shown'[c], late'[c], ed'[c]),
           \A s \in Slots :
             \/ req'[s] = req[s]
             \/ s[1] \notin Clients
             \/ ReqKnown(page', shown'[s[1]], late'[s[1]], req'[s])
    PROVE  KnowInv'
<1>1. page \in PageTypes /\ page' \in PageTypes
  BY DEF EditTypeOK
<1>2. ASSUME NEW c \in Clients PROVE EdKnown(page', shown'[c], late'[c], ed'[c])
  <2>1. ed[c] \in EditorTypes /\ EdKnown(page, shown[c], late[c], ed[c])
    BY DEF EditTypeOK, KnowInv
  <2>2. EdKnown(page', shown'[c], late'[c], ed[c])
    BY <1>1, <2>1, EdGrows
  <2> QED
    BY <2>2
<1>3. ASSUME NEW s \in Slots, s[1] \in Clients
      PROVE  ReqKnown(page', shown'[s[1]], late'[s[1]], req'[s])
  <2>1. req[s] \in ReqTypes /\ ReqKnown(page, shown[s[1]], late[s[1]], req[s])
    BY <1>3 DEF EditTypeOK, KnowInv
  <2>2. ReqKnown(page', shown'[s[1]], late'[s[1]], req[s])
    BY <1>1, <1>3, <2>1, ReqGrows
  <2> QED
    BY <1>3, <2>2
<1> QED
  BY <1>2, <1>3 DEF KnowInv

\* What the answers and key presses leave known.
LEMMA LoadedKnown ==
    ASSUME NEW pg \in PageTypes, NEW seen, NEW lt, NEW e \in EditorTypes,
           EdKnown(pg, seen, lt, e), NEW row, row.body \in seen,
           Known(pg, seen, lt, row.stamp)
    PROVE  EdKnown(pg, seen, lt, Loaded(e, row))
<1> DEFINE x == Loaded(e, row)
<1>1. /\ x.version = row.stamp /\ x.timerVersion = e.timerVersion
      /\ x.conflict = NoStamp /\ x.body = row.body /\ x.timer = e.timer
  BY DEF Loaded, EditorTypes
<1> HIDE DEF x
<1>2. EdKnown(pg, seen, lt, x)
  BY <1>1 DEF EdKnown, Known
<1> QED
  BY <1>2 DEF x

LEMMA TypedKnown ==
    ASSUME NEW pg \in PageTypes, NEW seen, NEW lt, NEW e \in EditorTypes,
           EdKnown(pg, seen, lt, e), NEW t \in seen
    PROVE  EdKnown(pg, seen, lt, Typed(e, t))
<1> DEFINE x == Typed(e, t)
<1>1. /\ x.version = e.version /\ x.timerVersion = e.version
      /\ x.conflict = e.conflict /\ x.body = t /\ x.timer = t
      /\ x.latest = e.latest
      /\ x.draft = IF e.conflict # NoStamp THEN t ELSE e.draft
  BY DEF Typed, EditorTypes
<1> HIDE DEF x
<1>2. EdKnown(pg, seen, lt, x)
  BY <1>1 DEF EdKnown
<1> QED
  BY <1>2 DEF x

LEMMA SavedKnown ==
    ASSUME NEW pg \in PageTypes, NEW seen, NEW lt, NEW e \in EditorTypes,
           EdKnown(pg, seen, lt, e), NEW r \in ReqTypes, r.new \in seen,
           Known(pg, seen, lt, r.got)
    PROVE  EdKnown(pg, seen, lt, Saved(e, r))
<1> DEFINE x == Saved(e, r)
<1>1. /\ x.version = r.got /\ x.timerVersion = e.timerVersion
      /\ x.conflict = NoStamp /\ x.timer = e.timer /\ x.open = e.open
      /\ x.body = IF r.kind = "overwrite" THEN r.new ELSE e.body
  BY DEF Saved, EditorTypes
<1> HIDE DEF x
<1>2. EdKnown(pg, seen, lt, x)
  BY <1>1 DEF EdKnown, Known
<1> QED
  BY <1>2 DEF x

LEMMA ConflictedKnown ==
    ASSUME NEW pg \in PageTypes, NEW seen, NEW lt, NEW e \in EditorTypes,
           EdKnown(pg, seen, lt, e), NEW r \in ReqTypes, r.new \in seen,
           pg.body \in seen
    PROVE  EdKnown(pg, seen, lt, Conflicted(e, r, pg))
<1> DEFINE x == Conflicted(e, r, pg)
<1>1. /\ x.version = e.version /\ x.timerVersion = e.timerVersion
      /\ x.conflict = pg.stamp /\ x.timer = e.timer /\ x.open = e.open
      /\ x.body = e.body /\ x.latest = pg.body
      /\ x.draft = IF r.kind = "overwrite" /\ e.conflict # NoStamp
                   THEN e.draft ELSE r.new
  BY DEF Conflicted, EditorTypes
<1> HIDE DEF x
<1>2. EdKnown(pg, seen, lt, x)
  BY <1>1 DEF EdKnown, Known
<1> QED
  BY <1>2 DEF x

\* A tab changes; row, requests and histories stay or grow.
LEMMA TabKnow ==
    ASSUME EditTypeOK, EditTypeOK', KnowInv, page' = page, req' = req, late' = late,
           NEW c \in Clients, NEW e, ed' = [ed EXCEPT ![c] = e],
           \A d \in Clients : shown[d] \subseteq shown'[d],
           EdKnown(page, shown'[c], late[c], e)
    PROVE  KnowInv'
<1>1. \A d \in Clients : ed'[d] = IF d = c THEN e ELSE ed[d]
  BY DEF EditTypeOK
<1>2. Later(page, page')
  BY DEF Later
<1>3. \A d \in Clients :
        /\ shown[d] \subseteq shown'[d] /\ late[d] \subseteq late'[d]
        /\ ed'[d] = ed[d] \/ EdKnown(page', shown'[d], late'[d], ed'[d])
  BY <1>1
<1> QED
  BY <1>2, <1>3, KnowFrame

LEMMA TabKnown ==
    ASSUME EditTypeOK, KnowInv, NEW c \in Clients
    PROVE  /\ page \in PageTypes /\ ed[c] \in EditorTypes
           /\ EdKnown(page, shown[c], late[c], ed[c])
           /\ Later(page, page)
  BY DEF EditTypeOK, KnowInv, Later

LEMMA OpenKnow ==
    ASSUME EditTypeOK, EditTypeOK', KnowInv, NEW c \in Clients, Open(c)
    PROVE  KnowInv'
<1> DEFINE e == Loaded(ed[c], page)
<1>1. /\ ed' = [ed EXCEPT ![c] = e]
      /\ shown' = [shown EXCEPT ![c] = shown[c] \cup {page.body}]
      /\ UNCHANGED <<page, req, late>>
  BY DEF Open
<1>2. /\ \A d \in Clients : shown[d] \subseteq shown'[d]
      /\ page.body \in shown'[c]
  BY <1>1 DEF EditTypeOK
<1>3. EdKnown(page, shown'[c], late[c], ed[c])
  BY <1>2, TabKnown, EdGrows
<1>4. Known(page, shown'[c], late[c], page.stamp)
  BY <1>2 DEF Known
<1>5. EdKnown(page, shown'[c], late[c], e)
  BY <1>2, <1>3, <1>4, TabKnown, LoadedKnown
<1> HIDE DEF e
<1> QED
  BY <1>1, <1>2, <1>5, TabKnow

LEMMA TypeKnow ==
    ASSUME EditTypeOK, EditTypeOK', KnowInv, NEW c \in Clients, Type(c)
    PROVE  KnowInv'
<1> DEFINE e == Typed(ed[c], typed + 1)
<1>1. /\ ed' = [ed EXCEPT ![c] = e]
      /\ shown' = [shown EXCEPT ![c] = shown[c] \cup {typed + 1}]
      /\ UNCHANGED <<page, req, late>>
  BY DEF Type
<1>2. /\ \A d \in Clients : shown[d] \subseteq shown'[d]
      /\ typed + 1 \in shown'[c]
  BY <1>1 DEF EditTypeOK
<1>3. EdKnown(page, shown'[c], late[c], ed[c])
  BY <1>2, TabKnown, EdGrows
<1>4. EdKnown(page, shown'[c], late[c], e)
  BY <1>2, <1>3, TabKnown, TypedKnown
<1> HIDE DEF e
<1> QED
  BY <1>1, <1>2, <1>4, TabKnow

LEMMA LoadLatestKnow ==
    ASSUME EditTypeOK, EditTypeOK', KnowInv, NEW c \in Clients, LoadLatest(c)
    PROVE  KnowInv'
<1> DEFINE row == [body |-> ed[c].latest, stamp |-> ed[c].conflict]
           rec == Loaded(ed[c], row)
           e == [rec EXCEPT !.unsaved = FALSE]
<1>1. /\ ed' = [ed EXCEPT ![c] = e] /\ ed[c].conflict # NoStamp
      /\ UNCHANGED <<page, req, late, shown>>
  BY DEF LoadLatest
<1>2. row.body \in shown[c] /\ Known(page, shown[c], late[c], row.stamp)
  BY <1>1, TabKnown DEF EdKnown
<1>3. row.body \in Text /\ row.stamp \in Stamp
  BY TabKnown, EditorFields
<1> HIDE DEF row
<1>4. rec \in EditorTypes /\ EdKnown(page, shown[c], late[c], rec)
  BY <1>2, <1>3, TabKnown, LoadedKnown, LoadedTypes
<1> HIDE DEF rec
<1>5. /\ e.version = rec.version /\ e.timerVersion = rec.timerVersion
      /\ e.conflict = rec.conflict /\ e.open = rec.open /\ e.body = rec.body
      /\ e.timer = rec.timer /\ e.draft = rec.draft /\ e.latest = rec.latest
  BY <1>4 DEF EditorTypes
<1> HIDE DEF e
<1>6. EdKnown(page, shown[c], late[c], e)
  BY <1>4, <1>5 DEF EdKnown
<1> QED
  BY <1>1, <1>6, TabKnow

\* A request changes; the row, the tabs and the histories stay.
LEMMA SlotKnow ==
    ASSUME EditTypeOK, EditTypeOK', KnowInv, page' = page,
           UNCHANGED <<ed, shown, late>>, NEW s \in Slots, NEW r,
           req' = [req EXCEPT ![s] = r],
           s[1] \in Clients => ReqKnown(page, shown[s[1]], late[s[1]], r)
    PROVE  KnowInv'
<1>1. \A z \in Slots : req'[z] = IF z = s THEN r ELSE req[z]
  BY DEF EditTypeOK
<1>2. \A z \in Slots : \/ req'[z] = req[z]
                       \/ z[1] \notin Clients
                       \/ ReqKnown(page', shown'[z[1]], late'[z[1]], req'[z])
  BY <1>1
<1>3. Later(page, page')
  BY DEF Later
<1> QED
  BY <1>2, <1>3, KnowFrame

LEMMA SentKnown ==
    ASSUME NEW kind \in {"save", "overwrite", "auto", "api"}, NEW t \in Text,
           NEW v \in Stamp, NEW pg, NEW seen, NEW lt, t \in seen, Known(pg, seen, lt, v)
    PROVE  ReqKnown(pg, seen, lt, Sent(kind, t, v))
<1>1. /\ Sent(kind, t, v).pc = "read" /\ Sent(kind, t, v).new = t
      /\ Sent(kind, t, v).expected = v
  BY DEF Sent, Idle
<1> QED
  BY <1>1 DEF ReqKnown

LEMMA SendKnow ==
    ASSUME EditTypeOK, EditTypeOK', KnowInv, NEW c \in Clients,
           SaveDraft(c) \/ Overwrite(c)
    PROVE  KnowInv'
<1> DEFINE s == <<c, "manual">>
<1>1. s \in Slots /\ s[1] = c
  BY SlotOf
<1>2. UNCHANGED <<page, ed, shown, late>>
  BY DEF SaveDraft, Overwrite
<1>3. PICK kind \in {"save", "overwrite", "auto", "api"},
           t \in Text, v \in Stamp :
        /\ Send(s, kind, t, v) /\ t \in shown[c]
        /\ Known(page, shown[c], late[c], v)
  <2>1. ed[c] \in EditorTypes /\ EdKnown(page, shown[c], late[c], ed[c])
    BY TabKnown
  <2>2. CASE SaveDraft(c)
    <3>1. Send(s, "save", ed[c].body, ed[c].version) /\ ed[c].open
      BY <2>2 DEF SaveDraft
    <3>2. /\ ed[c].body \in shown[c] /\ Known(page, shown[c], late[c], ed[c].version)
          /\ ed[c].body \in Text /\ ed[c].version \in Stamp
      BY <2>1, <3>1, EditorFields DEF EdKnown
    <3> QED
      BY <3>1, <3>2
  <2>3. CASE Overwrite(c)
    <3>1. Send(s, "overwrite", ed[c].draft, ed[c].conflict) /\ ed[c].conflict # NoStamp
      BY <2>3 DEF Overwrite
    <3>2. /\ ed[c].draft \in shown[c] /\ Known(page, shown[c], late[c], ed[c].conflict)
          /\ ed[c].draft \in Text /\ ed[c].conflict \in Stamp
      BY <2>1, <3>1, EditorFields DEF EdKnown
    <3> QED
      BY <3>1, <3>2
  <2> QED
    BY <2>2, <2>3
<1> HIDE DEF s
<1>4. req' = [req EXCEPT ![s] = Sent(kind, t, v)]
  BY <1>1, <1>3, SendTypes
<1>5. ReqKnown(page, shown[c], late[c], Sent(kind, t, v))
  BY <1>3, SentKnown
<1> QED
  BY <1>1, <1>2, <1>4, <1>5, SlotKnow

LEMMA AutosaveKnow ==
    ASSUME EditTypeOK, EditTypeOK', KnowInv, NEW c \in Clients, Autosave(c)
    PROVE  KnowInv'
<1> DEFINE s == <<c, "auto">>
           e == [ed[c] EXCEPT !.timer = 0, !.timerVersion = NoStamp]
<1>1. s \in Slots /\ s[1] = c
  BY SlotOf
<1>2. /\ Send(s, "auto", ed[c].timer, ed[c].timerVersion) /\ ed[c].timer # 0
      /\ UNCHANGED <<page, shown, late>>
  BY DEF Autosave
<1>3. ed[c] \in EditorTypes /\ EdKnown(page, shown[c], late[c], ed[c])
  BY TabKnown
<1>4. /\ ed[c].timer \in shown[c] /\ ed[c].timer \in Text
      /\ Known(page, shown[c], late[c], ed[c].timerVersion)
      /\ ed[c].timerVersion \in Stamp
  BY <1>2, <1>3, EditorFields DEF EdKnown
<1>5. ed' = [ed EXCEPT ![c] = e]
  BY DEF Autosave, EditTypeOK
<1>6. /\ e.version = ed[c].version /\ e.timerVersion = NoStamp
      /\ e.conflict = ed[c].conflict /\ e.open = ed[c].open /\ e.body = ed[c].body
      /\ e.timer = 0 /\ e.draft = ed[c].draft /\ e.latest = ed[c].latest
  BY <1>3 DEF EditorTypes
<1> HIDE DEF s, e
<1>7. EdKnown(page, shown[c], late[c], e)
  BY <1>3, <1>6 DEF EdKnown, Known
<1>8. req' = [req EXCEPT ![s] = Sent("auto", ed[c].timer, ed[c].timerVersion)]
  BY <1>1, <1>2, <1>4, SendTypes
<1>9. ReqKnown(page, shown[c], late[c], Sent("auto", ed[c].timer, ed[c].timerVersion))
  BY <1>4, SentKnown
<1>10. \A z \in Slots : \/ req'[z] = req[z]
                        \/ z[1] \notin Clients
                        \/ ReqKnown(page', shown'[z[1]], late'[z[1]], req'[z])
  BY <1>1, <1>2, <1>8, <1>9 DEF EditTypeOK
<1>11. \A d \in Clients :
        /\ shown[d] \subseteq shown'[d] /\ late[d] \subseteq late'[d]
        /\ ed'[d] = ed[d] \/ EdKnown(page', shown'[d], late'[d], ed'[d])
  BY <1>2, <1>5, <1>7 DEF EditTypeOK
<1>12. Later(page, page')
  BY <1>2 DEF Later
<1> QED
  BY <1>10, <1>11, <1>12, KnowFrame

LEMMA ApiSaveKnow ==
    ASSUME EditTypeOK, EditTypeOK', KnowInv, NEW a \in Callers, ApiSave(a)
    PROVE  KnowInv'
<1> DEFINE s == <<a, "api">>
<1>1. s \in Slots /\ s[1] \notin Clients
  BY ApiSlot, EditingAssumption
<1>2. UNCHANGED <<page, ed, shown, late>>
  BY DEF ApiSave
<1>3. \E r : req' = [req EXCEPT ![s] = r]
  BY DEF ApiSave, Send
<1> QED
  BY <1>1, <1>2, <1>3, SlotKnow

LEMMA IdleKnown ==
    ASSUME NEW pg, NEW seen, NEW lt
    PROVE  ReqKnown(pg, seen, lt, Idle)
  BY IdleReq DEF ReqKnown

LEMMA AnswerKnow ==
    ASSUME EditTypeOK, EditTypeOK', KnowInv, NEW s \in Slots, req[s].pc # "idle",
           AnswerConflict(s)
    PROVE  KnowInv'
<1> DEFINE e == Conflicted(ed[s[1]], req[s], page)
<1>1. /\ req' = [req EXCEPT ![s] = Idle] /\ ed' = [ed EXCEPT ![s[1]] = e]
      /\ shown' = [shown EXCEPT ![s[1]] = shown[s[1]] \cup {page.body}]
      /\ UNCHANGED <<page, late>>
  BY DEF AnswerConflict
<1>2. Later(page, page')
  BY <1>1 DEF Later
<1>3. \A z \in Slots : \/ req'[z] = req[z]
                       \/ z[1] \notin Clients
                       \/ ReqKnown(page', shown'[z[1]], late'[z[1]], req'[z])
  BY <1>1, IdleKnown DEF EditTypeOK
<1>4. \A d \in Clients : shown[d] \subseteq shown'[d] /\ late[d] \subseteq late'[d]
  BY <1>1 DEF EditTypeOK
<1>5. ASSUME s[1] \in Clients
      PROVE  EdKnown(page, shown'[s[1]], late[s[1]], e)
  <2>1. page.body \in shown'[s[1]]
    BY <1>1, <1>5 DEF EditTypeOK
  <2>2. EdKnown(page, shown'[s[1]], late[s[1]], ed[s[1]])
    BY <1>4, <1>5, TabKnown, EdGrows
  <2>3. req[s] \in ReqTypes /\ req[s].new \in shown[s[1]]
    BY <1>5 DEF EditTypeOK, KnowInv, ReqKnown
  <2>4. req[s].new \in shown'[s[1]]
    BY <1>4, <1>5, <2>3
  <2>5. page \in PageTypes /\ ed[s[1]] \in EditorTypes
    BY <1>5 DEF EditTypeOK
  <2> QED
    BY <2>1, <2>2, <2>3, <2>4, <2>5, ConflictedKnown
<1> HIDE DEF e
<1>6. \A d \in Clients : ed'[d] = IF d = s[1] THEN e ELSE ed[d]
  BY <1>1 DEF EditTypeOK
<1>7. \A d \in Clients : ed'[d] = ed[d] \/ EdKnown(page', shown'[d], late'[d], ed'[d])
  BY <1>1, <1>5, <1>6
<1> QED
  BY <1>2, <1>3, <1>4, <1>7, KnowFrame

\* A handler moves on with the text and the stamp it was sent.
LEMMA HandlerKnow ==
    ASSUME EditTypeOK, EditTypeOK', KnowInv, NEW s \in Slots, req[s].pc # "idle",
           page' = page, UNCHANGED <<ed, shown, late>>, NEW r,
           req' = [req EXCEPT ![s] = r],
           r.new = req[s].new, r.expected = req[s].expected,
           r.pc \notin {"reread", "log"}
    PROVE  KnowInv'
<1>1. ASSUME s[1] \in Clients
      PROVE  ReqKnown(page, shown[s[1]], late[s[1]], r)
  BY <1>1 DEF ReqKnown, KnowInv
<1> QED
  BY <1>1, SlotKnow

LEMMA ReadKnow ==
    ASSUME EditTypeOK, EditTypeOK', KnowInv, NEW s \in Slots, ReadExisting(s)
    PROVE  KnowInv'
<1>1. req[s].pc # "idle"
  BY DEF ReadExisting
<1>2. CASE AnswerConflict(s)
  BY <1>1, <1>2, AnswerKnow
<1>3. ASSUME req' = [req EXCEPT ![s].pc = "write", ![s].prev = page.body],
             UNCHANGED <<page, ed, shown, late>>
      PROVE  KnowInv'
  <2> DEFINE r == [req[s] EXCEPT !.pc = "write", !.prev = page.body]
  <2>1. req' = [req EXCEPT ![s] = r]
    BY <1>3 DEF EditTypeOK
  <2>2. r.pc = "write" /\ r.new = req[s].new /\ r.expected = req[s].expected
    BY DEF EditTypeOK, ReqTypes
  <2> HIDE DEF r
  <2> QED
    BY <1>1, <1>3, <2>1, <2>2, HandlerKnow
<1> QED
  BY <1>2, <1>3 DEF ReadExisting

LEMMA MissedKnow ==
    ASSUME EditTypeOK, EditTypeOK', KnowInv, NEW s \in Slots, WriteMissed(s)
    PROVE  KnowInv'
<1> DEFINE r == [req[s] EXCEPT !.pc = "conflict"]
<1>1. /\ req' = [req EXCEPT ![s] = r] /\ UNCHANGED <<page, ed, shown, late>>
      /\ req[s].pc # "idle"
  BY DEF WriteMissed, Goto, EditTypeOK
<1>2. r.pc = "conflict" /\ r.new = req[s].new /\ r.expected = req[s].expected
  BY DEF EditTypeOK, ReqTypes
<1> HIDE DEF r
<1> QED
  BY <1>1, <1>2, HandlerKnow

LEMMA StampKnow ==
    ASSUME EditTypeOK, EditTypeOK', KnowInv, NEW s \in Slots, ReadStamp(s)
    PROVE  KnowInv'
<1> DEFINE r == [req[s] EXCEPT !.pc = "log", !.got = page.stamp]
<1>1. /\ req' = [req EXCEPT ![s] = r] /\ UNCHANGED <<page, ed, shown, late>>
      /\ req[s].pc = "reread"
  BY DEF ReadStamp, EditTypeOK
<1>2. /\ r.pc = "log" /\ r.new = req[s].new /\ r.expected = req[s].expected
      /\ r.wrote = req[s].wrote /\ r.got = page.stamp
  BY DEF EditTypeOK, ReqTypes
<1>3. page.stamp \in Nat
  BY PageFields DEF EditTypeOK
<1> HIDE DEF r
<1>4. ASSUME s[1] \in Clients
      PROVE  ReqKnown(page, shown[s[1]], late[s[1]], r)
  <2>1. ReqKnown(page, shown[s[1]], late[s[1]], req[s])
    BY <1>4 DEF KnowInv
  <2> QED
    BY <1>1, <1>2, <1>3, <2>1 DEF ReqKnown
<1> QED
  BY <1>1, <1>4, SlotKnow

LEMMA WriteKnow ==
    ASSUME EditTypeOK, EditTypeOK', KnowInv, NEW s \in Slots, WriteBody(s)
    PROVE  KnowInv'
<1> DEFINE r == req'[s]
<1>1. /\ req' = [req EXCEPT ![s] = r]
      /\ r.new = req[s].new /\ r.expected = req[s].expected
      /\ r.wrote = page.stamp + 1 /\ r.got = page.stamp + 1
      /\ page'.stamp = page.stamp + 1 /\ page'.body = req[s].new
      /\ req[s].pc = "write" /\ UNCHANGED <<ed, shown, late>>
  BY WriteFacts
<1>2. page.stamp \in Nat /\ page \in PageTypes /\ page' \in PageTypes
  BY PageFields DEF EditTypeOK
<1>3. Later(page, page')
  BY <1>1 DEF Later
<1> HIDE DEF r
<1>4. ASSUME s[1] \in Clients
      PROVE  ReqKnown(page', shown'[s[1]], late'[s[1]], r)
  <2>1. /\ req[s] \in ReqTypes /\ req[s].new \in shown[s[1]]
        /\ Known(page, shown[s[1]], late[s[1]], req[s].expected)
    BY <1>1, <1>4 DEF EditTypeOK, KnowInv, ReqKnown
  <2>2. req[s].expected \in Stamp
    BY <2>1, ReqFieldTypes
  <2>3. Known(page', shown[s[1]], late[s[1]], req[s].expected)
    BY <1>2, <1>3, <2>1, <2>2, KnownGrows
  <2>4. r.new \in shown'[s[1]] /\ Known(page', shown'[s[1]], late'[s[1]], r.expected)
    BY <1>1, <2>1, <2>3
  <2>5. /\ r.wrote <= page'.stamp /\ r.got <= page'.stamp
        /\ r.wrote = page'.stamp => page'.body = r.new
    BY <1>1, <1>2
  <2> QED
    BY <2>4, <2>5 DEF ReqKnown
<1>5. \A z \in Slots : req'[z] = IF z = s THEN r ELSE req[z]
  BY <1>1 DEF EditTypeOK
<1>6. \A z \in Slots : \/ req'[z] = req[z]
                       \/ z[1] \notin Clients
                       \/ ReqKnown(page', shown'[z[1]], late'[z[1]], req'[z])
  BY <1>4, <1>5
<1>7. \A d \in Clients :
        /\ shown[d] \subseteq shown'[d] /\ late[d] \subseteq late'[d]
        /\ ed'[d] = ed[d] \/ EdKnown(page', shown'[d], late'[d], ed'[d])
  BY <1>1
<1> QED
  BY <1>3, <1>6, <1>7, KnowFrame

LEMMA LogKnow ==
    ASSUME EditTypeOK, EditTypeOK', KnowInv, NEW s \in Slots, LogEdit(s)
    PROVE  KnowInv'
<1>1. /\ req' = [req EXCEPT ![s] = Idle] /\ UNCHANGED <<page, shown>>
      /\ req[s].pc = "log"
  BY DEF LogEdit
<1>2. Later(page, page')
  BY <1>1 DEF Later
<1>3. \A z \in Slots : \/ req'[z] = req[z]
                       \/ z[1] \notin Clients
                       \/ ReqKnown(page', shown'[z[1]], late'[z[1]], req'[z])
  BY <1>1, IdleKnown DEF EditTypeOK
<1>4. CASE s[1] \notin Clients
  <2>1. UNCHANGED <<ed, late>>
    BY <1>4 DEF LogEdit
  <2> QED
    BY <1>1, <1>2, <1>3, <2>1, KnowFrame
<1>5. CASE s[1] \in Clients
  <2> DEFINE c == s[1]
             e == Saved(ed[c], req[s])
  <2>1. /\ ed' = [ed EXCEPT ![c] = e]
        /\ late' = [late EXCEPT ![c] = IF req[s].got # req[s].wrote
                                       THEN late[c] \cup {req[s].got} ELSE late[c]]
    BY <1>5 DEF LogEdit
  <2>2. \A d \in Clients : late[d] \subseteq late'[d]
    BY <2>1 DEF EditTypeOK
  <2>3. req[s].got # req[s].wrote => req[s].got \in late'[c]
    BY <1>5, <2>1 DEF EditTypeOK
  <2>4. /\ req[s] \in ReqTypes /\ req[s].new \in shown[c]
        /\ req[s].got <= page.stamp
        /\ req[s].wrote = page.stamp => page.body = req[s].new
    BY <1>1, <1>5 DEF EditTypeOK, KnowInv, ReqKnown
  <2>5. req[s].got \in Nat /\ page.stamp \in Nat
    BY <2>4, ReqFieldTypes, PageFields DEF EditTypeOK
  <2>6. Known(page, shown[c], late'[c], req[s].got)
    BY <2>3, <2>4, <2>5 DEF Known
  <2>7. page \in PageTypes /\ ed[c] \in EditorTypes /\ Later(page, page)
        /\ EdKnown(page, shown[c], late[c], ed[c])
    BY <1>5, TabKnown
  <2>8. EdKnown(page, shown[c], late'[c], ed[c])
    BY <1>5, <2>2, <2>7, EdGrows
  <2>9. EdKnown(page, shown[c], late'[c], e)
    BY <2>4, <2>6, <2>7, <2>8, SavedKnown
  <2> HIDE DEF e
  <2>10. \A d \in Clients : ed'[d] = IF d = c THEN e ELSE ed[d]
    BY <2>1 DEF EditTypeOK
  <2>11. \A d \in Clients :
          /\ shown[d] \subseteq shown'[d] /\ late[d] \subseteq late'[d]
          /\ ed'[d] = ed[d] \/ EdKnown(page', shown'[d], late'[d], ed'[d])
    BY <1>1, <2>2, <2>9, <2>10
  <2> QED
    BY <1>2, <1>3, <2>11, KnowFrame
<1> QED
  BY <1>4, <1>5

LEMMA FailSaveKnow ==
    ASSUME EditTypeOK, EditTypeOK', KnowInv, NEW s \in Slots, FailSave(s)
    PROVE  KnowInv'
<1>1. req' = [req EXCEPT ![s] = Idle] /\ UNCHANGED <<page, ed, shown, late>>
  BY DEF FailSave
<1> QED
  BY <1>1, IdleKnown, SlotKnow

LEMMA PageKnow ==
    ASSUME EditTypeOK, EditTypeOK', KnowInv, PageStep,
           UNCHANGED <<ed, req, shown, late>>
    PROVE  KnowInv'
<1>1. Later(page, page')
  BY DEF PageStep, Later
<1> QED
  BY <1>1, KnowFrame

LEMMA KnowNext ==
    ASSUME TypeOK, TypeOK', RowsInv, KnowInv, [Next]_vars
    PROVE  KnowInv'
<1>1. EditTypeOK /\ EditTypeOK'
  BY DEF TypeOK
<1>2. CASE ApprovalStep
  <2>1. PageStep /\ UNCHANGED Editors
    BY <1>2, ApprovalOK DEF StepOK
  <2>2. UNCHANGED <<ed, req, shown, late>>
    BY <2>1 DEF Editors
  <2> QED
    BY <1>1, <2>1, <2>2, PageKnow
<1>3. ASSUME NEW c \in Clients,
             Open(c) \/ Type(c) \/ SaveDraft(c) \/ Autosave(c)
             \/ LoadLatest(c) \/ Overwrite(c)
      PROVE  KnowInv'
  BY <1>1, <1>3, OpenKnow, TypeKnow, SendKnow, AutosaveKnow, LoadLatestKnow
<1>4. ASSUME NEW a \in Callers, ApiSave(a)
      PROVE  KnowInv'
  BY <1>1, <1>4, ApiSaveKnow
<1>5. ASSUME NEW s \in Slots, ReadLatest(s)
      PROVE  KnowInv'
  <2>1. req[s].pc # "idle" /\ AnswerConflict(s)
    BY <1>5 DEF ReadLatest
  <2> QED
    BY <1>1, <2>1, AnswerKnow
<1>6. ASSUME NEW s \in Slots,
             ReadExisting(s) \/ WriteBody(s) \/ WriteMissed(s)
             \/ ReadStamp(s) \/ LogEdit(s) \/ FailSave(s)
      PROVE  KnowInv'
  BY <1>1, <1>6, ReadKnow, WriteKnow, MissedKnow, StampKnow, LogKnow, FailSaveKnow
<1>7. CASE View
  <2>1. PageStep /\ UNCHANGED <<ed, req, shown, late>>
    BY <1>1, <1>7, ViewStep
  <2> QED
    BY <1>1, <2>1, PageKnow
<1>8. CASE UNCHANGED vars
  <2>1. PageStep /\ UNCHANGED <<ed, req, shown, late>>
    BY <1>8 DEF vars, editVars, PageStep
  <2> QED
    BY <1>1, <2>1, PageKnow
<1> QED
  BY <1>2, <1>3, <1>4, <1>5, <1>6, <1>7, <1>8 DEF Next, EditNext

LEMMA KnowInit == Init => KnowInv
<1> SUFFICES ASSUME Init PROVE KnowInv
  OBVIOUS
<1>1. \A c \in Clients : ed[c] = Closed
  BY DEF Init, EditInit
<1>2. \A s \in Slots : req[s] = Idle
  BY DEF Init, EditInit
<1>3. /\ Closed.version = NoStamp /\ Closed.timerVersion = NoStamp
      /\ Closed.conflict = NoStamp /\ ~Closed.open /\ Closed.timer = 0
  BY DEF Closed
<1>4. \A c \in Clients : EdKnown(page, shown[c], late[c], ed[c])
  BY <1>1, <1>3 DEF EdKnown, Known
<1>5. \A s \in Slots : ReqKnown(page, shown[s[1]], late[s[1]], req[s])
  BY <1>2, IdleKnown
<1> QED
  BY <1>4, <1>5 DEF KnowInv

\* The one step that takes a request from the write to the re-read.
LEMMA OnlyWrites ==
    ASSUME TypeOK, RowsInv, [Next]_vars, NEW s \in Slots,
           req[s].pc = "write", req'[s].pc = "reread"
    PROVE  WriteBody(s)
<1>1. EditTypeOK
  BY DEF TypeOK
<1>2. req[s].pc # req'[s].pc
  OBVIOUS
<1>3. CASE ApprovalStep
  <2>1. UNCHANGED Editors
    BY <1>3, ApprovalOK DEF StepOK
  <2> QED
    BY <1>2, <2>1 DEF Editors
<1>4. ASSUME NEW z \in Slots, NEW r, req' = [req EXCEPT ![z] = r], r.pc # "reread"
      PROVE  FALSE
  BY <1>1, <1>2, <1>4 DEF EditTypeOK
<1>5. ASSUME NEW c \in Clients,
             Open(c) \/ Type(c) \/ LoadLatest(c)
      PROVE  FALSE
  BY <1>2, <1>5 DEF Open, Type, LoadLatest
<1>6. ASSUME NEW z \in Slots, NEW kind, NEW t, NEW v, Send(z, kind, t, v)
      PROVE  FALSE
  <2>1. req' = [req EXCEPT ![z] = Sent(kind, t, v)]
    BY <1>6 DEF Send, Sent
  <2>2. Sent(kind, t, v).pc = "read"
    BY DEF Sent, Idle
  <2> QED
    BY <1>4, <2>1, <2>2
<1>7. ASSUME NEW c \in Clients, SaveDraft(c) \/ Autosave(c) \/ Overwrite(c)
      PROVE  FALSE
  BY <1>6, <1>7, SlotOf DEF SaveDraft, Autosave, Overwrite
<1>8. ASSUME NEW a \in Callers, ApiSave(a)
      PROVE  FALSE
  BY <1>6, <1>8, ApiSlot DEF ApiSave
<1>9. ASSUME NEW z \in Slots, req' = [req EXCEPT ![z] = Idle]
      PROVE  FALSE
  <2>1. Idle.pc # "reread"
    BY IdleReq
  <2> QED
    BY <1>4, <1>9, <2>1
<1>10. ASSUME NEW z \in Slots,
              ReadExisting(z) \/ WriteMissed(z) \/ ReadLatest(z)
              \/ ReadStamp(z) \/ LogEdit(z) \/ FailSave(z)
       PROVE  FALSE
  <2>1. CASE req' = [req EXCEPT ![z] = Idle]
    BY <1>9, <2>1
  <2>2. CASE req' = [req EXCEPT ![z].pc = "write", ![z].prev = page.body]
    BY <1>1, <1>2, <2>2 DEF EditTypeOK, ReqTypes
  <2>3. CASE req' = [req EXCEPT ![z].pc = "conflict"]
    BY <1>1, <1>2, <2>3 DEF EditTypeOK, ReqTypes
  <2>4. CASE req' = [req EXCEPT ![z].pc = "log", ![z].got = page.stamp]
    BY <1>1, <1>2, <2>4 DEF EditTypeOK, ReqTypes
  <2> QED
    BY <1>10, <2>1, <2>2, <2>3, <2>4 DEF ReadExisting, WriteMissed, Goto,
       ReadLatest, AnswerConflict, ReadStamp, LogEdit, FailSave
<1>11. ASSUME NEW z \in Slots, WriteBody(z)
       PROVE  z = s
  <2>1. req' = [req EXCEPT ![z] = req'[z]]
    BY <1>1, <1>11, WriteFacts
  <2> QED
    BY <1>1, <1>2, <2>1 DEF EditTypeOK
<1>12. CASE View
  BY <1>2, <1>12 DEF View
<1>13. CASE UNCHANGED vars
  BY <1>2, <1>13 DEF vars, editVars
<1> QED
  BY <1>3, <1>5, <1>7, <1>8, <1>10, <1>11, <1>12, <1>13 DEF Next, EditNext

LEMMA WriteIsKnown ==
    ASSUME TypeOK, RowsInv, KnowInv, [Next]_vars, NEW s \in Slots,
           s[1] \in Clients, req[s].pc = "write", req'[s].pc = "reread"
    PROVE  ReplacesKnownText(s)
<1>1. EditTypeOK /\ WriteBody(s)
  BY OnlyWrites DEF TypeOK
<1>2. /\ req'[s].pc = IF req[s].expected = NoStamp THEN "log" ELSE "reread"
      /\ req[s].expected \in {NoStamp, page.stamp}
  BY <1>1, WriteFacts
<1>3. req[s].expected = page.stamp /\ req[s].expected # NoStamp
  BY <1>2
<1>4. Known(page, shown[s[1]], late[s[1]], req[s].expected)
  BY DEF KnowInv, ReqKnown
<1>5. page.stamp \in Nat
  BY <1>1, PageFields DEF EditTypeOK
<1> QED
  BY <1>3, <1>4, <1>5 DEF Known, ReplacesKnownText

(***************************************************************************)
(* No save of the editor replaces a text its tab never saw, whatever the   *)
(* other tabs, API clients, views, publishes and rollbacks do, except with *)
(* a stamp the re-read of updatedAt handed out after another write.        *)
(***************************************************************************)
THEOREM NoBlindOverwrites == Spec => NoBlindOverwrite
<1>1. TypeOK /\ RowsInv /\ KnowInv /\ [Next]_vars =>
        [\A s \in Slots :
            s[1] \in Clients /\ req[s].pc = "write" /\ req'[s].pc = "reread"
              => ReplacesKnownText(s)]_editVars
  BY WriteIsKnown
<1> QED
  BY <1>1, InitTypes, RowsInit, RowsNext, KnowInit, KnowNext, PTL
     DEF Spec, NoBlindOverwrite

-----------------------------------------------------------------------------
(***************************************************************************)
(* Where texts come from.  The page row, its versions and what a conflict  *)
(* shows hold the first text or one a save put there, and no text is newer *)
(* than the last one typed.                                                *)
(***************************************************************************)
Stored(log, t) == t = 1 \/ \E i \in DOMAIN log : log[i].new = t

TabText(log, n, e, seen) ==
    /\ Stored(log, e.latest)
    /\ e.body <= n /\ e.timer <= n /\ e.draft <= n
    /\ \A t \in seen : t <= n

RowText ==
    /\ page.stamp # NoStamp
    /\ Stored(accepted, page.body)
    /\ \A v \in DOMAIN versions : Stored(accepted, versions[v].body)

TextInv ==
    /\ RowText
    /\ \A i \in DOMAIN accepted : accepted[i].new <= typed
    /\ \A s \in Slots : req[s].new <= typed
    /\ \A c \in Clients : TabText(accepted, typed, ed[c], shown[c])

Grown(log, log2) == \A i \in DOMAIN log : i \in DOMAIN log2 /\ log2[i] = log[i]

LEMMA StoredGrows ==
    ASSUME NEW log, NEW log2, Grown(log, log2), NEW t, Stored(log, t)
    PROVE  Stored(log2, t)
  BY DEF Stored, Grown

LEMMA SameGrown ==
    ASSUME NEW log
    PROVE  Grown(log, log)
  BY DEF Grown

\* A stored text is not newer than the last one typed.
LEMMA StoredIsOld ==
    ASSUME EditTypeOK, TextInv, NEW t, Stored(accepted, t)
    PROVE  t <= typed
  BY Bounds DEF Stored, TextInv, EditTypeOK, Text

LEMMA TextTypes ==
    ASSUME EditTypeOK
    PROVE  /\ typed \in Nat /\ typed >= 1
           /\ \A i \in DOMAIN accepted : accepted[i].new \in Nat
           /\ \A s \in Slots : req[s].new \in Nat /\ req[s] \in ReqTypes
           /\ \A c \in Clients :
                /\ ed[c] \in EditorTypes /\ shown[c] \subseteq Nat
                /\ ed[c].body \in Nat /\ ed[c].timer \in Nat /\ ed[c].draft \in Nat
<1>1. typed \in Nat /\ typed >= 1
  BY EditingAssumption DEF EditTypeOK, Text
<1>2. ASSUME NEW i \in DOMAIN accepted PROVE accepted[i].new \in Nat
  <2>1. accepted[i] \in SaveEntry
    BY DEF EditTypeOK
  <2> QED
    BY <2>1, Bounds DEF SaveEntry
<1>3. \A s \in Slots : req[s].new \in Nat /\ req[s] \in ReqTypes
  BY Bounds DEF EditTypeOK, ReqTypes
<1>4. ASSUME NEW c \in Clients
      PROVE  /\ ed[c] \in EditorTypes /\ shown[c] \subseteq Nat
             /\ ed[c].body \in Nat /\ ed[c].timer \in Nat /\ ed[c].draft \in Nat
  <2>1. ed[c] \in EditorTypes /\ shown[c] \subseteq Nat
    BY Bounds DEF EditTypeOK
  <2> QED
    BY <2>1, Bounds, EditorFields
<1> QED
  BY <1>1, <1>2, <1>3, <1>4

\* A step keeps the invariant if the row, the versions and what it changes
\* hold texts that are stored and not too new.
LEMMA TextFrame ==
    ASSUME EditTypeOK, EditTypeOK', TextInv, RowText',
           Grown(accepted, accepted'), typed <= typed',
           \A i \in DOMAIN accepted' : i \in DOMAIN accepted \/ accepted'[i].new <= typed',
           \A s \in Slots : req'[s].new = req[s].new \/ req'[s].new <= typed',
           \A c \in Clients :
             \/ ed'[c] = ed[c] /\ shown'[c] = shown[c]
             \/ TabText(accepted', typed', ed'[c], shown'[c])
    PROVE  TextInv'
<1>0. typed \in Nat /\ typed' \in Nat
  BY EditingAssumption DEF EditTypeOK, Text
<1>1. \A i \in DOMAIN accepted' : accepted'[i].new <= typed'
  <2> SUFFICES ASSUME NEW i \in DOMAIN accepted
               PROVE  accepted'[i].new <= typed'
    OBVIOUS
  <2>1. accepted'[i] = accepted[i] /\ accepted[i].new <= typed /\ accepted[i].new \in Nat
    BY TextTypes DEF Grown, TextInv
  <2> QED
    BY <1>0, <2>1
<1>2. \A s \in Slots : req'[s].new <= typed'
  <2> SUFFICES ASSUME NEW s \in Slots, req'[s].new = req[s].new
               PROVE  req'[s].new <= typed'
    OBVIOUS
  <2>1. req[s].new <= typed /\ req[s].new \in Nat
    BY TextTypes DEF TextInv
  <2> QED
    BY <1>0, <2>1
<1>3. ASSUME NEW c \in Clients, ed'[c] = ed[c], shown'[c] = shown[c]
      PROVE  TabText(accepted', typed', ed'[c], shown'[c])
  <2>1. /\ TabText(accepted, typed, ed[c], shown[c]) /\ shown[c] \subseteq Nat
        /\ ed[c].body \in Nat /\ ed[c].timer \in Nat /\ ed[c].draft \in Nat
    BY TextTypes DEF TextInv
  <2>2. Stored(accepted', ed[c].latest)
    BY <2>1, StoredGrows DEF TabText
  <2>3. ed[c].body <= typed' /\ ed[c].timer <= typed' /\ ed[c].draft <= typed'
    BY <1>0, <2>1 DEF TabText
  <2>4. \A t \in shown[c] : t <= typed'
    BY <1>0, <2>1 DEF TabText
  <2> QED
    BY <1>3, <2>2, <2>3, <2>4 DEF TabText
<1>4. \A c \in Clients : TabText(accepted', typed', ed'[c], shown'[c])
  BY <1>3
<1> QED
  BY <1>1, <1>2, <1>4 DEF TextInv

\* The row keeps its texts; one tab changes, or one request.
LEMMA TabTextStep ==
    ASSUME EditTypeOK, EditTypeOK', TextInv, UNCHANGED <<page, accepted, versions>>,
           typed <= typed',
           \A s \in Slots : req'[s].new = req[s].new \/ req'[s].new <= typed',
           \A c \in Clients :
             \/ ed'[c] = ed[c] /\ shown'[c] = shown[c]
             \/ TabText(accepted, typed', ed'[c], shown'[c])
    PROVE  TextInv'
<1>1. RowText'
  BY DEF TextInv, RowText
<1>2. Grown(accepted, accepted')
  BY SameGrown
<1> QED
  BY <1>1, <1>2, TextFrame

LEMMA SentNew ==
    ASSUME NEW kind, NEW t, NEW v
    PROVE  /\ Sent(kind, t, v).pc = "read" /\ Sent(kind, t, v).kind = kind
           /\ Sent(kind, t, v).new = t
  BY DEF Sent, Idle

LEMMA IdleNew == Idle.pc = "idle" /\ Idle.new = 1 /\ Idle.kind = "save"
  BY DEF Idle

\* What loading, typing and the answers leave in the editor.
LEMMA LoadedFields ==
    ASSUME NEW e \in EditorTypes, NEW row
    PROVE  LET x == Loaded(e, row)
           IN  /\ x.open = TRUE /\ x.body = row.body /\ x.conflict = NoStamp
               /\ x.latest = 1 /\ x.draft = 1 /\ x.timer = e.timer
  BY DEF Loaded, EditorTypes

LEMMA TypedFields ==
    ASSUME NEW e \in EditorTypes, NEW t
    PROVE  LET x == Typed(e, t)
           IN  /\ x.open = e.open /\ x.body = t /\ x.conflict = e.conflict
               /\ x.latest = e.latest /\ x.timer = t
               /\ x.draft = IF e.conflict # NoStamp THEN t ELSE e.draft
  BY DEF Typed, EditorTypes

LEMMA SavedFields ==
    ASSUME NEW e \in EditorTypes, NEW r
    PROVE  LET x == Saved(e, r)
           IN  /\ x.open = e.open /\ x.conflict = NoStamp
               /\ x.body = IF r.kind = "overwrite" THEN r.new ELSE e.body
               /\ x.latest = 1 /\ x.draft = 1 /\ x.timer = e.timer
  BY DEF Saved, EditorTypes

LEMMA ConflictedFields ==
    ASSUME NEW e \in EditorTypes, NEW r, NEW row
    PROVE  LET x == Conflicted(e, r, row)
           IN  /\ x.open = e.open /\ x.conflict = row.stamp /\ x.body = e.body
               /\ x.latest = row.body /\ x.timer = e.timer
               /\ x.draft = IF r.kind = "overwrite" /\ e.conflict # NoStamp
                            THEN e.draft ELSE r.new
  BY DEF Conflicted, EditorTypes

LEMMA OpenText ==
    ASSUME EditTypeOK, EditTypeOK', TextInv, versions' = versions,
           NEW c \in Clients, Open(c)
    PROVE  TextInv'
<1> DEFINE e == Loaded(ed[c], page)
<1>1. /\ ed' = [ed EXCEPT ![c] = e]
      /\ shown' = [shown EXCEPT ![c] = shown[c] \cup {page.body}]
      /\ UNCHANGED <<page, req, accepted, typed>>
  BY DEF Open
<1>2. /\ ed[c] \in EditorTypes /\ typed \in Nat /\ typed >= 1
      /\ TabText(accepted, typed, ed[c], shown[c])
  BY TextTypes DEF TextInv
<1>3. page.body <= typed
  BY StoredIsOld DEF TextInv, RowText
<1>4. /\ e.body = page.body /\ e.latest = 1 /\ e.draft = 1
      /\ e.timer = ed[c].timer
  BY <1>2, LoadedFields
<1> HIDE DEF e
<1>5. TabText(accepted, typed, e, shown[c] \cup {page.body})
  BY <1>2, <1>3, <1>4 DEF TabText, Stored
<1>6. \A d \in Clients :
        \/ ed'[d] = ed[d] /\ shown'[d] = shown[d]
        \/ TabText(accepted, typed, ed'[d], shown'[d])
  BY <1>1, <1>5 DEF EditTypeOK
<1> QED
  BY <1>1, <1>2, <1>6, TabTextStep

LEMMA TypeText ==
    ASSUME EditTypeOK, EditTypeOK', TextInv, versions' = versions,
           NEW c \in Clients, Type(c)
    PROVE  TextInv'
<1> DEFINE n == typed + 1
           e == Typed(ed[c], n)
<1>1. /\ ed' = [ed EXCEPT ![c] = e]
      /\ shown' = [shown EXCEPT ![c] = shown[c] \cup {n}]
      /\ typed' = n /\ UNCHANGED <<page, req, accepted>>
  BY DEF Type
<1>2. /\ ed[c] \in EditorTypes /\ typed \in Nat /\ shown[c] \subseteq Nat
      /\ ed[c].draft \in Nat
      /\ TabText(accepted, typed, ed[c], shown[c])
  BY TextTypes DEF TextInv
<1>3. /\ e.body = n /\ e.latest = ed[c].latest /\ e.timer = n
      /\ e.draft = IF ed[c].conflict # NoStamp THEN n ELSE ed[c].draft
  BY <1>2, TypedFields
<1> HIDE DEF e
<1>4. TabText(accepted, n, e, shown[c] \cup {n})
  <2>1. e.body <= n /\ e.timer <= n /\ e.draft <= n
    BY <1>2, <1>3 DEF TabText
  <2>2. \A t \in shown[c] \cup {n} : t <= n
    BY <1>2 DEF TabText
  <2> QED
    BY <1>2, <1>3, <2>1, <2>2 DEF TabText
<1>5. \A d \in Clients :
        \/ ed'[d] = ed[d] /\ shown'[d] = shown[d]
        \/ TabText(accepted, typed', ed'[d], shown'[d])
  BY <1>1, <1>4 DEF EditTypeOK
<1>6. typed <= typed'
  BY <1>1, <1>2
<1> QED
  BY <1>1, <1>5, <1>6, TabTextStep

LEMMA SendText ==
    ASSUME EditTypeOK, EditTypeOK', TextInv, UNCHANGED <<page, accepted, versions, ed, shown>>,
           NEW s \in Slots, NEW kind, NEW t, NEW v, Send(s, kind, t, v),
           typed <= typed', t <= typed'
    PROVE  TextInv'
<1>1. req' = [req EXCEPT ![s] = Sent(kind, t, v)]
  BY DEF Send, Sent
<1>2. \A z \in Slots : req'[z].new = req[z].new \/ req'[z].new <= typed'
  BY <1>1, SentNew DEF EditTypeOK
<1> QED
  BY <1>2, TabTextStep

LEMMA SlotText ==
    ASSUME EditTypeOK, EditTypeOK', TextInv, UNCHANGED <<page, accepted, versions, ed, shown, typed>>,
           NEW s \in Slots, NEW r, req' = [req EXCEPT ![s] = r],
           r.new = req[s].new \/ r.new = 1
    PROVE  TextInv'
<1>1. typed \in Nat /\ typed >= 1
  BY TextTypes
<1>2. \A z \in Slots : req'[z].new = req[z].new \/ req'[z].new <= typed'
  BY <1>1 DEF EditTypeOK
<1> QED
  BY <1>1, <1>2, TabTextStep

LEMMA DraftText ==
    ASSUME EditTypeOK, EditTypeOK', TextInv, versions' = versions,
           NEW c \in Clients, SaveDraft(c) \/ Overwrite(c)
    PROVE  TextInv'
<1>1. <<c, "manual">> \in Slots
  BY SlotOf
<1>2. UNCHANGED <<page, ed, accepted, shown, typed>>
  BY DEF SaveDraft, Overwrite
<1>3. /\ typed \in Nat /\ ed[c].body <= typed /\ ed[c].draft <= typed
  BY TextTypes DEF TextInv, TabText
<1>4. \E kind, t, v : Send(<<c, "manual">>, kind, t, v) /\ t <= typed
  BY <1>3 DEF SaveDraft, Overwrite
<1>5. typed <= typed'
  BY <1>2, <1>3
<1> QED
  BY <1>1, <1>2, <1>4, <1>5, SendText

LEMMA AutosaveText ==
    ASSUME EditTypeOK, EditTypeOK', TextInv, versions' = versions,
           NEW c \in Clients, Autosave(c)
    PROVE  TextInv'
<1> DEFINE s == <<c, "auto">>
           e == [ed[c] EXCEPT !.timer = 0, !.timerVersion = NoStamp]
           r == Sent("auto", ed[c].timer, ed[c].timerVersion)
<1>1. s \in Slots
  BY SlotOf
<1>2. /\ req' = [req EXCEPT ![s] = r] /\ ed' = [ed EXCEPT ![c] = e]
      /\ UNCHANGED <<page, accepted, shown, typed>>
  BY DEF Autosave, Send, Sent, EditTypeOK
<1>3. /\ ed[c] \in EditorTypes /\ typed \in Nat
      /\ TabText(accepted, typed, ed[c], shown[c])
  BY TextTypes DEF TextInv
<1>4. /\ e.body = ed[c].body /\ e.timer = 0 /\ e.draft = ed[c].draft
      /\ e.latest = ed[c].latest
  BY <1>3 DEF EditorTypes
<1>5. r.new = ed[c].timer
  BY SentNew
<1> HIDE DEF s, e, r
<1>6. TabText(accepted, typed, e, shown[c])
  BY <1>3, <1>4 DEF TabText
<1>7. \A d \in Clients :
        \/ ed'[d] = ed[d] /\ shown'[d] = shown[d]
        \/ TabText(accepted, typed', ed'[d], shown'[d])
  BY <1>2, <1>6 DEF EditTypeOK
<1>8. \A z \in Slots : req'[z].new = req[z].new \/ req'[z].new <= typed'
  BY <1>2, <1>3, <1>5 DEF EditTypeOK, TabText
<1>9. typed <= typed'
  BY <1>2, <1>3
<1> QED
  BY <1>2, <1>7, <1>8, <1>9, TabTextStep

LEMMA LatestFields ==
    ASSUME EditTypeOK, NEW c \in Clients, LoadLatest(c)
    PROVE  \E e : /\ ed' = [ed EXCEPT ![c] = e]
                  /\ e.open = TRUE /\ e.body = ed[c].latest /\ e.conflict = NoStamp
                  /\ e.latest = 1 /\ e.draft = 1 /\ e.timer = ed[c].timer
<1> DEFINE row == [body |-> ed[c].latest, stamp |-> ed[c].conflict]
           rec == Loaded(ed[c], row)
           e == [rec EXCEPT !.unsaved = FALSE]
<1>1. ed' = [ed EXCEPT ![c] = e]
  BY DEF LoadLatest
<1>2. ed[c] \in EditorTypes /\ row.body = ed[c].latest
  BY DEF EditTypeOK
<1>3. row.body \in Text /\ row.stamp \in Stamp
  BY <1>2, EditorFields
<1> HIDE DEF row
<1>4. /\ rec \in EditorTypes
      /\ rec.open = TRUE /\ rec.body = ed[c].latest /\ rec.conflict = NoStamp
      /\ rec.latest = 1 /\ rec.draft = 1 /\ rec.timer = ed[c].timer
  BY <1>2, <1>3, LoadedTypes, LoadedFields
<1> HIDE DEF rec
<1>5. /\ e.open = TRUE /\ e.body = ed[c].latest /\ e.conflict = NoStamp
      /\ e.latest = 1 /\ e.draft = 1 /\ e.timer = ed[c].timer
  BY <1>4 DEF EditorTypes
<1> HIDE DEF e
<1> QED
  BY <1>1, <1>5

LEMMA LoadLatestText ==
    ASSUME EditTypeOK, EditTypeOK', TextInv, versions' = versions,
           NEW c \in Clients, LoadLatest(c)
    PROVE  TextInv'
<1>1. PICK e : /\ ed' = [ed EXCEPT ![c] = e]
               /\ e.body = ed[c].latest /\ e.latest = 1 /\ e.draft = 1
               /\ e.timer = ed[c].timer
  BY LatestFields
<1>2. UNCHANGED <<page, req, accepted, shown, typed>>
  BY DEF LoadLatest
<1>3. /\ typed \in Nat /\ typed >= 1 /\ TabText(accepted, typed, ed[c], shown[c])
  BY TextTypes DEF TextInv
<1>4. ed[c].latest <= typed
  BY <1>3, StoredIsOld DEF TabText
<1>5. TabText(accepted, typed, e, shown[c])
  BY <1>1, <1>3, <1>4 DEF TabText, Stored
<1>6. \A d \in Clients :
        \/ ed'[d] = ed[d] /\ shown'[d] = shown[d]
        \/ TabText(accepted, typed', ed'[d], shown'[d])
  BY <1>1, <1>2, <1>5 DEF EditTypeOK
<1> QED
  BY <1>2, <1>3, <1>6, TabTextStep

LEMMA ApiSaveText ==
    ASSUME EditTypeOK, EditTypeOK', TextInv, versions' = versions,
           NEW a \in Callers, ApiSave(a)
    PROVE  TextInv'
<1>1. /\ <<a, "api">> \in Slots /\ typed' = typed + 1
      /\ Send(<<a, "api">>, "api", typed + 1, NoStamp)
      /\ UNCHANGED <<page, ed, accepted, shown>>
  BY ApiSlot DEF ApiSave
<1>2. typed <= typed' /\ typed + 1 <= typed'
  BY <1>1, TextTypes
<1> QED
  BY <1>1, <1>2, SendText

LEMMA AnswerText ==
    ASSUME EditTypeOK, EditTypeOK', TextInv, versions' = versions,
           NEW s \in Slots, AnswerConflict(s)
    PROVE  TextInv'
<1> DEFINE c == s[1]
           e == Conflicted(ed[c], req[s], page)
<1>1. /\ req' = [req EXCEPT ![s] = Idle] /\ ed' = [ed EXCEPT ![c] = e]
      /\ shown' = [shown EXCEPT ![c] = shown[c] \cup {page.body}]
      /\ UNCHANGED <<page, accepted, typed>>
  BY DEF AnswerConflict
<1>2. typed \in Nat /\ typed >= 1 /\ req[s].new <= typed
  BY TextTypes DEF TextInv
<1>3. \A z \in Slots : req'[z].new = req[z].new \/ req'[z].new <= typed'
  BY <1>1, <1>2, IdleNew DEF EditTypeOK
<1>4. ASSUME c \in Clients
      PROVE  TabText(accepted, typed, e, shown[c] \cup {page.body})
  <2>1. ed[c] \in EditorTypes /\ TabText(accepted, typed, ed[c], shown[c])
    BY <1>4, TextTypes DEF TextInv
  <2>2. Stored(accepted, page.body) /\ page.body <= typed
    BY StoredIsOld DEF TextInv, RowText
  <2>3. /\ e.body = ed[c].body /\ e.latest = page.body /\ e.timer = ed[c].timer
        /\ e.draft \in {ed[c].draft, req[s].new}
    BY <2>1, ConflictedFields
  <2> HIDE DEF e
  <2> QED
    BY <1>2, <2>1, <2>2, <2>3 DEF TabText
<1> HIDE DEF e
<1>5. \A d \in Clients :
        \/ ed'[d] = ed[d] /\ shown'[d] = shown[d]
        \/ TabText(accepted, typed', ed'[d], shown'[d])
  BY <1>1, <1>4 DEF EditTypeOK
<1>6. typed <= typed'
  BY <1>1, <1>2
<1> HIDE DEF c
<1> QED
  BY <1>1, <1>3, <1>5, <1>6, TabTextStep

LEMMA LogText ==
    ASSUME EditTypeOK, EditTypeOK', TextInv, versions' = versions,
           NEW s \in Slots, LogEdit(s)
    PROVE  TextInv'
<1> DEFINE c == s[1]
           e == Saved(ed[c], req[s])
<1>1. /\ req' = [req EXCEPT ![s] = Idle]
      /\ UNCHANGED <<page, accepted, typed, shown>>
  BY DEF LogEdit
<1>2. typed \in Nat /\ typed >= 1 /\ req[s].new <= typed
  BY TextTypes DEF TextInv
<1>3. CASE c \notin Clients
  <2>1. UNCHANGED ed
    BY <1>3 DEF LogEdit
  <2> QED
    BY <1>1, <2>1, IdleNew, SlotText
<1>4. CASE c \in Clients
  <2>1. ed' = [ed EXCEPT ![c] = e]
    BY <1>4 DEF LogEdit
  <2>2. ed[c] \in EditorTypes /\ TabText(accepted, typed, ed[c], shown[c])
    BY <1>4, TextTypes DEF TextInv
  <2>3. /\ e.body \in {req[s].new, ed[c].body} /\ e.latest = 1 /\ e.draft = 1
        /\ e.timer = ed[c].timer
    BY <2>2, SavedFields
  <2> HIDE DEF e
  <2>4. TabText(accepted, typed, e, shown[c])
    BY <1>2, <2>2, <2>3 DEF TabText, Stored
  <2>5. \A d \in Clients :
          \/ ed'[d] = ed[d] /\ shown'[d] = shown[d]
          \/ TabText(accepted, typed', ed'[d], shown'[d])
    BY <1>1, <2>1, <2>4 DEF EditTypeOK
  <2>6. \A z \in Slots : req'[z].new = req[z].new \/ req'[z].new <= typed'
    BY <1>1, <1>2, IdleNew DEF EditTypeOK
  <2> QED
    BY <1>1, <1>2, <2>5, <2>6, TabTextStep
<1> QED
  BY <1>3, <1>4

\* A handler that moves on keeps the text it was sent.
LEMMA HandlerFields ==
    ASSUME EditTypeOK, NEW s \in Slots,
           \/ ReadExisting(s) /\ ~AnswerConflict(s)
           \/ WriteMissed(s) \/ ReadStamp(s)
    PROVE  /\ req[s].pc # "idle"
           /\ \E r : /\ req' = [req EXCEPT ![s] = r] /\ r.pc # "idle"
                     /\ r.new = req[s].new /\ r.kind = req[s].kind
           /\ UNCHANGED <<page, ed, accepted, shown, typed, gone>>
<1>0. req[s] \in ReqTypes
  BY DEF EditTypeOK
<1>1. CASE ReadExisting(s) /\ ~AnswerConflict(s)
  <2> DEFINE r == [req[s] EXCEPT !.pc = "write", !.prev = page.body]
  <2>1. /\ req' = [req EXCEPT ![s] = r] /\ req[s].pc # "idle"
        /\ UNCHANGED <<page, ed, accepted, shown, typed, gone>>
    BY <1>1 DEF ReadExisting, EditTypeOK
  <2>2. r.pc = "write" /\ r.new = req[s].new /\ r.kind = req[s].kind
    BY <1>0 DEF ReqTypes
  <2> HIDE DEF r
  <2> QED
    BY <2>1, <2>2
<1>2. CASE WriteMissed(s)
  <2> DEFINE r == [req[s] EXCEPT !.pc = "conflict"]
  <2>1. /\ req' = [req EXCEPT ![s] = r] /\ req[s].pc # "idle"
        /\ UNCHANGED <<page, ed, accepted, shown, typed, gone>>
    BY <1>2 DEF WriteMissed, Goto, EditTypeOK
  <2>2. r.pc = "conflict" /\ r.new = req[s].new /\ r.kind = req[s].kind
    BY <1>0 DEF ReqTypes
  <2> HIDE DEF r
  <2> QED
    BY <2>1, <2>2
<1>3. CASE ReadStamp(s)
  <2> DEFINE r == [req[s] EXCEPT !.pc = "log", !.got = page.stamp]
  <2>1. /\ req' = [req EXCEPT ![s] = r] /\ req[s].pc # "idle"
        /\ UNCHANGED <<page, ed, accepted, shown, typed, gone>>
    BY <1>3 DEF ReadStamp, EditTypeOK
  <2>2. r.pc = "log" /\ r.new = req[s].new /\ r.kind = req[s].kind
    BY <1>0 DEF ReqTypes
  <2> HIDE DEF r
  <2> QED
    BY <2>1, <2>2
<1> QED
  BY <1>1, <1>2, <1>3

LEMMA HandlerText ==
    ASSUME EditTypeOK, EditTypeOK', TextInv, versions' = versions, NEW s \in Slots,
           ReadExisting(s) \/ WriteMissed(s) \/ ReadStamp(s) \/ FailSave(s)
    PROVE  TextInv'
<1>1. CASE AnswerConflict(s)
  BY <1>1, AnswerText
<1>2. CASE FailSave(s)
  <2>1. /\ req' = [req EXCEPT ![s] = Idle]
        /\ UNCHANGED <<page, ed, accepted, shown, typed>>
    BY <1>2 DEF FailSave
  <2> QED
    BY <2>1, IdleNew, SlotText
<1>3. CASE \/ ReadExisting(s) /\ ~AnswerConflict(s)
           \/ WriteMissed(s) \/ ReadStamp(s)
  <2>1. /\ \E r : req' = [req EXCEPT ![s] = r] /\ r.new = req[s].new
        /\ UNCHANGED <<page, ed, accepted, shown, typed>>
    BY <1>3, HandlerFields
  <2> QED
    BY <2>1, SlotText
<1> QED
  BY <1>1, <1>2, <1>3

\* The row takes a text: the log grows by it.
LEMMA WriteGrows ==
    ASSUME EditTypeOK, NEW s \in Slots, WriteBody(s)
    PROVE  /\ Grown(accepted, accepted') /\ Stored(accepted', req[s].new)
           /\ \A i \in DOMAIN accepted' :
                i \in DOMAIN accepted \/ accepted'[i].new = req[s].new
<1> DEFINE e == [expected |-> req[s].expected, prev |-> req[s].prev,
                 new |-> req[s].new]
<1>1. accepted' = Append(accepted, e) /\ accepted \in Seq(SaveEntry) /\ e.new = req[s].new
  BY WriteFacts DEF EditTypeOK
<1> HIDE DEF e
<1>2. /\ Len(accepted) + 1 \in DOMAIN accepted'
      /\ accepted'[Len(accepted) + 1] = e
      /\ \A j \in DOMAIN accepted : j \in DOMAIN accepted' /\ accepted'[j] = accepted[j]
      /\ \A j \in DOMAIN accepted' : j \in DOMAIN accepted \/ j = Len(accepted) + 1
  BY <1>1
<1> QED
  BY <1>1, <1>2 DEF Grown, Stored

LEMMA WriteText ==
    ASSUME EditTypeOK, EditTypeOK', TextInv, versions' = versions,
           NEW s \in Slots, WriteBody(s)
    PROVE  TextInv'
<1>1. /\ req' = [req EXCEPT ![s] = req'[s]] /\ req'[s].new = req[s].new
      /\ page'.stamp = page.stamp + 1 /\ page'.body = req[s].new
      /\ UNCHANGED <<ed, shown>>
  BY WriteFacts
<1>2. typed' = typed
  BY DEF WriteBody
<1>3. /\ Grown(accepted, accepted') /\ Stored(accepted', req[s].new)
      /\ \A i \in DOMAIN accepted' :
           i \in DOMAIN accepted \/ accepted'[i].new = req[s].new
  BY WriteGrows
<1>4. typed \in Nat /\ req[s].new <= typed /\ page.stamp \in Nat
  BY TextTypes, PageFields DEF TextInv, EditTypeOK
<1>5. \A v \in DOMAIN versions : Stored(accepted', versions[v].body)
  BY <1>3, StoredGrows DEF TextInv, RowText
<1>6. page'.stamp # NoStamp
  BY <1>1, <1>4 DEF NoStamp
<1>7. RowText'
  BY <1>1, <1>3, <1>5, <1>6 DEF RowText
<1>8. \A z \in Slots : req'[z].new = req[z].new
  BY <1>1 DEF EditTypeOK
<1>9. /\ \A i \in DOMAIN accepted' : i \in DOMAIN accepted \/ accepted'[i].new <= typed'
      /\ typed <= typed'
  BY <1>2, <1>3, <1>4
<1> QED
  BY <1>1, <1>3, <1>7, <1>8, <1>9, TextFrame

\* The row gets a new stamp and keeps its text, or takes that of a version.
LEMMA WritePageText ==
    ASSUME TypeOK, NEW row \in PageTypes, WritePage(row)
    PROVE  page'.stamp # NoStamp /\ page'.body = row.body
<1>1. page.stamp \in Nat
  BY PageFields DEF TypeOK, EditTypeOK
<1> QED
  BY <1>1 DEF WritePage, PageTypes, NoStamp

LEMMA VersionText ==
    ASSUME TypeOK, TextInv, NEW x \in VersionTypes, versions' = Append(versions, x),
           Stored(accepted, x.body)
    PROVE  \A v \in DOMAIN versions' : Stored(accepted, versions'[v].body)
<1>1. versions \in Seq(VersionTypes)
  BY DEF TypeOK
<1>2. \A v \in DOMAIN versions' : \/ v \in DOMAIN versions /\ versions'[v] = versions[v]
                                  \/ versions'[v] = x
  BY <1>1
<1> QED
  BY <1>2 DEF TextInv, RowText

LEMMA PublishText ==
    ASSUME TypeOK, RowsInv, TextInv, ApprovalStep
    PROVE  RowText'
<1>1. UNCHANGED Editors
  BY ApprovalOK DEF StepOK
<1>2. accepted' = accepted
  BY <1>1 DEF Editors
<1>3. page \in PageTypes /\ Stored(accepted, page.body)
  BY DEF TypeOK, EditTypeOK, TextInv, RowText
<1>4. ASSUME UNCHANGED <<page, versions>> PROVE RowText'
  BY <1>2, <1>4 DEF TextInv, RowText
<1>5. ASSUME NEW row \in PageTypes, WritePage(row), row.body = page.body,
             versions' = versions
      PROVE  RowText'
  <2>1. page'.stamp # NoStamp /\ page'.body = page.body
    BY <1>5, WritePageText
  <2> QED
    BY <1>2, <1>5, <2>1 DEF TextInv, RowText
<1>6. ASSUME NEW h \in Handlers,
             BeginPublish(h) \/ FindPending(h) \/ CreateRequest(h)
             \/ Reject(h) \/ MarkApproved(h) \/ FailOp(h)
      PROVE  RowText'
  BY <1>4, <1>6 DEF BeginPublish, FindPending, CreateRequest, Reject,
     MarkApproved, FailOp, editVars
<1>7. ASSUME NEW h \in Handlers, NEW i \in Rows, ReviewChain(h, i) \/ ReviewQueue(h, i)
      PROVE  RowText'
  BY <1>4, <1>7 DEF ReviewChain, ReviewQueue
<1>8. ASSUME NEW h \in Handlers, PublishPage(h)
      PROVE  RowText'
  <2> DEFINE row == [page EXCEPT !.status = "PUBLISHED", !.dated = TRUE]
  <2>1. WritePage(row) /\ versions' = versions
    BY <1>8 DEF PublishPage
  <2>2. row \in PageTypes /\ row.body = page.body
    BY <1>3 DEF PageTypes
  <2> HIDE DEF row
  <2> QED
    BY <1>5, <2>1, <2>2
<1>9. ASSUME NEW h \in Handlers, CreateVersion(h)
      PROVE  RowText'
  <2> DEFINE x == [body |-> page.body, row |-> op[h].row]
  <2>1. page' = page /\ versions' = Append(versions, x)
    BY <1>9 DEF CreateVersion, editVars
  <2>2. x \in VersionTypes /\ x.body = page.body
    BY <1>3 DEF TypeOK, OpTypes, VersionTypes, PageTypes
  <2> HIDE DEF x
  <2>3. \A v \in DOMAIN versions' : Stored(accepted, versions'[v].body)
    BY <1>3, <2>1, <2>2, VersionText
  <2> QED
    BY <1>2, <2>1, <2>3 DEF TextInv, RowText
<1>10. ASSUME NEW v \in DOMAIN versions, Rollback(v)
       PROVE  RowText'
  <2> DEFINE row == [page EXCEPT !.body = versions[v].body,
                                 !.status = "PUBLISHED", !.dated = TRUE]
             x == [body |-> versions[v].body, row |-> 0]
  <2>1. WritePage(row) /\ versions' = Append(versions, x)
    BY <1>10 DEF Rollback
  <2>2. versions[v].body \in Text /\ Stored(accepted, versions[v].body)
    BY RowsAreNumbers DEF TextInv, RowText
  <2>3. row \in PageTypes /\ row.body = versions[v].body
    BY <1>3, <2>2 DEF PageTypes
  <2>4. x \in VersionTypes /\ x.body = versions[v].body
    BY <2>2 DEF VersionTypes
  <2> HIDE DEF row, x
  <2>5. page'.stamp # NoStamp /\ page'.body = versions[v].body
    BY <2>1, <2>3, WritePageText
  <2>6. \A w \in DOMAIN versions' : Stored(accepted, versions'[w].body)
    BY <2>1, <2>2, <2>4, VersionText
  <2> QED
    BY <1>2, <2>2, <2>5, <2>6 DEF RowText
<1>11. CASE Unpublish
  <2> DEFINE row == [page EXCEPT !.status = "DRAFT", !.dated = FALSE]
  <2>1. WritePage(row) /\ versions' = versions
    BY <1>11 DEF Unpublish
  <2>2. row \in PageTypes /\ row.body = page.body
    BY <1>3 DEF PageTypes
  <2> HIDE DEF row
  <2> QED
    BY <1>5, <2>1, <2>2
<1>12. CASE Archive
  <2> DEFINE row == [page EXCEPT !.status = "ARCHIVED"]
  <2>1. WritePage(row) /\ versions' = versions
    BY <1>12 DEF Archive
  <2>2. row \in PageTypes /\ row.body = page.body
    BY <1>3 DEF PageTypes
  <2> HIDE DEF row
  <2> QED
    BY <1>5, <2>1, <2>2
<1>13. CASE SetPolicy
  BY <1>4, <1>13 DEF SetPolicy
<1> QED
  BY <1>6, <1>7, <1>8, <1>9, <1>10, <1>11, <1>12, <1>13 DEF ApprovalStep

LEMMA PageText ==
    ASSUME EditTypeOK, EditTypeOK', TextInv, RowText',
           UNCHANGED <<ed, req, accepted, shown, typed>>
    PROVE  TextInv'
<1>1. typed <= typed' /\ Grown(accepted, accepted')
  BY TextTypes, SameGrown
<1> QED
  BY <1>1, TextFrame

LEMMA TextNext ==
    ASSUME TypeOK, TypeOK', RowsInv, TextInv, [Next]_vars
    PROVE  TextInv'
<1>1. EditTypeOK /\ EditTypeOK'
  BY DEF TypeOK
<1>2. CASE ApprovalStep
  <2>1. UNCHANGED Editors
    BY <1>2, ApprovalOK DEF StepOK
  <2>2. UNCHANGED <<ed, req, accepted, shown, typed>>
    BY <2>1 DEF Editors
  <2> QED
    BY <1>1, <1>2, <2>2, PublishText, PageText
<1>3. ASSUME versions' = versions, NEW c \in Clients,
             Open(c) \/ Type(c) \/ SaveDraft(c) \/ Autosave(c)
             \/ LoadLatest(c) \/ Overwrite(c)
      PROVE  TextInv'
  BY <1>1, <1>3, OpenText, TypeText, DraftText, AutosaveText, LoadLatestText
<1>4. ASSUME versions' = versions, NEW a \in Callers, ApiSave(a)
      PROVE  TextInv'
  BY <1>1, <1>4, ApiSaveText
<1>5. ASSUME versions' = versions, NEW s \in Slots,
             ReadExisting(s) \/ WriteBody(s) \/ WriteMissed(s) \/ ReadLatest(s)
             \/ ReadStamp(s) \/ LogEdit(s) \/ FailSave(s)
      PROVE  TextInv'
  BY <1>1, <1>5, HandlerText, WriteText, AnswerText, LogText DEF ReadLatest
<1>6. ASSUME versions' = versions, View PROVE TextInv'
  <2>1. UNCHANGED <<ed, req, accepted, shown, typed>>
    BY <1>6 DEF View
  <2>2. page'.stamp # NoStamp /\ page'.body = page.body
    <3>1. page.stamp \in Nat /\ page \in PageTypes
      BY <1>1, PageFields DEF EditTypeOK
    <3> QED
      BY <1>6, <3>1 DEF View, NoStamp, PageTypes
  <2>3. RowText'
    BY <1>6, <2>1, <2>2 DEF TextInv, RowText
  <2> QED
    BY <1>1, <2>1, <2>3, PageText
<1>7. CASE UNCHANGED vars
  <2>1. UNCHANGED <<page, ed, req, accepted, shown, typed, versions>>
    BY <1>7 DEF vars, editVars, approvalVars
  <2>2. RowText'
    BY <2>1 DEF TextInv, RowText
  <2> QED
    BY <1>1, <2>1, <2>2, PageText
<1> QED
  BY <1>2, <1>3, <1>4, <1>5, <1>6, <1>7 DEF Next, EditNext, approvalVars

LEMMA TextInit == Init => TextInv
<1> SUFFICES ASSUME Init PROVE TextInv
  OBVIOUS
<1>1. /\ page.stamp = 1 /\ page.body = 1 /\ versions = <<>> /\ accepted = <<>>
      /\ typed = 1
  BY DEF Init, EditInit
<1>2. RowText
  BY <1>1 DEF RowText, Stored, NoStamp
<1>3. \A s \in Slots : req[s].new <= typed
  BY <1>1, IdleNew DEF Init, EditInit
<1>4. \A c \in Clients : ed[c] = Closed /\ shown[c] = {}
  BY DEF Init, EditInit
<1>5. Closed.latest = 1 /\ Closed.body = 1 /\ Closed.timer = 0 /\ Closed.draft = 1
  BY DEF Closed
<1>6. ASSUME NEW c \in Clients PROVE TabText(accepted, typed, ed[c], shown[c])
  <2>1. /\ ed[c].latest = 1 /\ ed[c].body = 1 /\ ed[c].timer = 0
        /\ ed[c].draft = 1 /\ shown[c] = {}
    BY <1>4, <1>5
  <2> QED
    BY <1>1, <2>1 DEF TabText, Stored
<1> QED
  BY <1>1, <1>2, <1>3, <1>6 DEF TextInv

-----------------------------------------------------------------------------
(***************************************************************************)
(* Why the newest text of a tab is kept.  A text is safe once it is stored *)
(* or given up.  The newest text that is not safe is the editor's own, and *)
(* it is due for autosave; once that timer has fired, the text is being    *)
(* sent or offered by the banner, and the requests still in progress carry *)
(* it too, except an overwrite with an older draft, whose answer gives the *)
(* text up.  The mark "unsaved" is not needed: an answer may clear it.     *)
(***************************************************************************)
Safe(log, lost, t) == Stored(log, t) \/ t \in lost

Ways == {"manual", "auto"}

Requests(c) == [k \in Ways |-> req[<<c, k>>]]

Offered(e) == e.conflict # NoStamp /\ e.draft = e.body

Sending(q, t) == \E k \in Ways : q[k].pc # "idle" /\ q[k].new = t

\* What a request in progress may do to the text of the editor.
InLine(e, r) ==
    r.pc # "idle" =>
        IF r.kind = "overwrite"
        THEN r.new = e.body /\ e.conflict # NoStamp => e.draft = e.body
        ELSE r.new = e.body

BodyKept(e, q) ==
    \/ e.timer = e.body
    \/ /\ e.timer = 0
       /\ Offered(e) \/ Sending(q, e.body)
       /\ \A k \in Ways : InLine(e, q[k])

TabKept(log, lost, e, q, seen) ==
    /\ Safe(log, lost, e.body) \/ BodyKept(e, q)
    /\ e.open \/ Safe(log, lost, e.body)
    /\ q["auto"].kind # "overwrite"
    /\ \A t \in seen : \/ Safe(log, lost, t)
                       \/ t = e.body
                       \/ \E u \in seen : t < u

KeptInv ==
    \A c \in Clients : TabKept(accepted, gone, ed[c], Requests(c), shown[c])

LEMMA KeptText ==
    ASSUME EditTypeOK, TextInv, KeptInv
    PROVE  TextIsKept
<1> SUFFICES ASSUME NEW c \in Clients, NEW t \in shown[c], Newest(c, t),
                    ed[c].open, t # 1, ~Safe(accepted, gone, t)
             PROVE  \/ ed[c].timer = t
                    \/ ed[c].conflict # NoStamp /\ ed[c].draft = t
                    \/ \E k \in {"manual", "auto"} :
                        req[<<c, k>>].pc # "idle" /\ req[<<c, k>>].new = t
  BY DEF TextIsKept, Safe, Stored
<1>1. TabKept(accepted, gone, ed[c], Requests(c), shown[c])
  BY DEF KeptInv
<1>2. \A u \in shown[c] : ~(t < u)
  BY TextTypes DEF Newest
<1>3. t = ed[c].body
  BY <1>1, <1>2 DEF TabKept
<1>4. BodyKept(ed[c], Requests(c))
  BY <1>1, <1>3 DEF TabKept
<1>5. \A k \in Ways : Requests(c)[k] = req[<<c, k>>]
  BY DEF Requests
<1> QED
  BY <1>3, <1>4, <1>5 DEF BodyKept, Offered, Sending, Ways

\* Two requests that differ only in how far the handler is.
Alike(r, r2) == (r.pc = "idle" <=> r2.pc = "idle") /\ r2.kind = r.kind /\ r2.new = r.new

LEMMA SafeGrows ==
    ASSUME NEW log, NEW log2, Grown(log, log2), NEW lost, NEW lost2,
           lost \subseteq lost2, NEW t, Safe(log, lost, t)
    PROVE  Safe(log2, lost2, t)
  BY StoredGrows DEF Safe

LEMMA KeptGrows ==
    ASSUME NEW log, NEW log2, Grown(log, log2), NEW lost, NEW lost2,
           lost \subseteq lost2, NEW e, NEW q, NEW q2, NEW seen,
           \A k \in Ways : Alike(q[k], q2[k]),
           TabKept(log, lost, e, q, seen)
    PROVE  TabKept(log2, lost2, e, q2, seen)
<1>1. \A t : Safe(log, lost, t) => Safe(log2, lost2, t)
  BY SafeGrows
<1>2. \A k \in Ways : InLine(e, q[k]) => InLine(e, q2[k])
  BY DEF Alike, InLine
<1>3. Sending(q, e.body) => Sending(q2, e.body)
  BY DEF Alike, Sending
<1>4. BodyKept(e, q) => BodyKept(e, q2)
  BY <1>2, <1>3 DEF BodyKept
<1>5. q2["auto"].kind # "overwrite"
  BY DEF TabKept, Alike, Ways
<1>6. \A t \in seen : \/ Safe(log2, lost2, t)
                      \/ t = e.body
                      \/ \E u \in seen : t < u
  BY <1>1 DEF TabKept
<1> QED
  BY <1>1, <1>4, <1>5, <1>6 DEF TabKept

\* The text of the editor stays and is kept, or it and its successor are
\* safe; what the tab is newly shown is safe.
LEMMA TabStays ==
    ASSUME NEW log, NEW lost, NEW lost2, lost \subseteq lost2, NEW e, NEW x,
           NEW q, NEW q2, NEW seen, NEW seen2, seen \subseteq seen2,
           TabKept(log, lost, e, q, seen),
           \A t \in seen2 : t \in seen \/ Safe(log, lost2, t),
           q2["auto"].kind # "overwrite",
           \/ Safe(log, lost2, e.body) /\ Safe(log, lost2, x.body)
           \/ x.body = e.body /\ (e.open => x.open) /\ BodyKept(x, q2)
    PROVE  TabKept(log, lost2, x, q2, seen2)
<1>1. \A t : Safe(log, lost, t) => Safe(log, lost2, t)
  BY DEF Safe
<1>2. Safe(log, lost2, x.body) \/ BodyKept(x, q2)
  OBVIOUS
<1>3. x.open \/ Safe(log, lost2, x.body)
  BY <1>1 DEF TabKept
<1>4. ASSUME NEW t \in seen2
      PROVE  Safe(log, lost2, t) \/ t = x.body \/ \E u \in seen2 : t < u
  <2>1. CASE t \in seen
    BY <1>1, <2>1 DEF TabKept
  <2> QED
    BY <2>1
<1> QED
  BY <1>2, <1>3, <1>4 DEF TabKept

LEMMA RequestsOf ==
    ASSUME NEW c, NEW k \in Ways
    PROVE  Requests(c)[k] = req[<<c, k>>] /\ Requests(c)'[k] = req'[<<c, k>>]
  BY DEF Requests

\* A step keeps the invariant if each tab it concerns stays kept.
LEMMA KeptFrame ==
    ASSUME EditTypeOK, KeptInv, Grown(accepted, accepted'), gone \subseteq gone',
           \A c \in Clients :
             \/ /\ ed'[c] = ed[c] /\ shown'[c] = shown[c]
                /\ \A k \in Ways : Alike(req[<<c, k>>], req'[<<c, k>>])
             \/ TabKept(accepted', gone', ed'[c], Requests(c)', shown'[c])
    PROVE  KeptInv'
<1>1. ASSUME NEW c \in Clients, ed'[c] = ed[c], shown'[c] = shown[c],
             \A k \in Ways : Alike(req[<<c, k>>], req'[<<c, k>>])
      PROVE  TabKept(accepted', gone', ed'[c], Requests(c)', shown'[c])
  <2>1. TabKept(accepted, gone, ed[c], Requests(c), shown[c])
    BY DEF KeptInv
  <2>2. \A k \in Ways : Alike(Requests(c)[k], Requests(c)'[k])
    BY <1>1, RequestsOf
  <2>3. TabKept(accepted', gone', ed[c], Requests(c)', shown[c])
    BY <2>1, <2>2, KeptGrows
  <2> QED
    BY <1>1, <2>3
<1>2. \A c \in Clients :
        TabKept(accepted', gone', ed'[c], Requests(c)', shown'[c])
  BY <1>1
<1> QED
  BY <1>2 DEF KeptInv

LEMMA SelfAlike ==
    ASSUME NEW r
    PROVE  Alike(r, r)
  BY DEF Alike

\* Only the tab c and its requests change.
LEMMA KeptTab ==
    ASSUME EditTypeOK, KeptInv, accepted' = accepted, gone \subseteq gone',
           NEW c \in Clients,
           \A d \in Clients \ {c} : ed'[d] = ed[d] /\ shown'[d] = shown[d],
           \A s \in Slots : s[1] = c \/ req'[s] = req[s],
           TabKept(accepted, gone', ed'[c], Requests(c)', shown'[c])
    PROVE  KeptInv'
<1>1. Grown(accepted, accepted')
  BY SameGrown
<1>2. \A d \in Clients \ {c} : \A k \in Ways : Alike(req[<<d, k>>], req'[<<d, k>>])
  BY SelfAlike, SlotOf DEF Ways
<1> QED
  BY <1>1, <1>2, KeptFrame

LEMMA TabOf ==
    ASSUME EditTypeOK, TextInv, KeptInv, NEW c \in Clients
    PROVE  /\ ed[c] \in EditorTypes /\ ed[c].body \in Nat \ {0}
           /\ TabKept(accepted, gone, ed[c], Requests(c), shown[c])
           /\ Stored(accepted, page.body) /\ Stored(accepted, ed[c].latest)
           /\ page.stamp # NoStamp
<1>1. ed[c] \in EditorTypes
  BY DEF EditTypeOK
<1>2. ed[c].body \in Nat \ {0}
  BY <1>1, EditorFields, EditingAssumption DEF Text
<1> QED
  BY <1>1, <1>2 DEF KeptInv, TextInv, RowText, TabText

\* One request of tab c changes.
LEMMA SlotOfTab ==
    ASSUME NEW c \in Clients, NEW j \in Ways, NEW r,
           \A s \in Slots : req'[s] = IF s = <<c, j>> THEN r ELSE req[s]
    PROVE  /\ \A s \in Slots : s[1] = c \/ req'[s] = req[s]
           /\ \A k \in Ways : req'[<<c, k>>] = IF k = j THEN r ELSE req[<<c, k>>]
<1>1. \A k \in Ways : <<c, k>> \in Slots
  BY SlotOf DEF Ways
<1>2. \A s \in Slots : s[1] = c \/ req'[s] = req[s]
  BY <1>1
<1>3. \A k \in Ways : req'[<<c, k>>] = IF k = j THEN r ELSE req[<<c, k>>]
  BY <1>1
<1> QED
  BY <1>2, <1>3

LEMMA ClientSlot ==
    ASSUME NEW s \in Slots, s[1] \in Clients
    PROVE  \E k \in Ways : s = <<s[1], k>>
  BY EditingAssumption DEF Slots, Ways

LEMMA OpenKept ==
    ASSUME EditTypeOK, TextInv, KeptInv, NEW c \in Clients, Open(c)
    PROVE  KeptInv'
<1> DEFINE x == Loaded(ed[c], page)
           seen2 == shown[c] \cup {page.body}
<1>1. /\ ed' = [ed EXCEPT ![c] = x] /\ shown' = [shown EXCEPT ![c] = seen2]
      /\ ~ed[c].open /\ UNCHANGED <<req, accepted, gone>>
  BY DEF Open
<1>2. /\ ed[c] \in EditorTypes
      /\ TabKept(accepted, gone, ed[c], Requests(c), shown[c])
      /\ Stored(accepted, page.body)
  BY TabOf
<1>3. x.body = page.body
  BY <1>2, LoadedFields
<1> HIDE DEF x
<1>4. /\ Safe(accepted, gone, ed[c].body) /\ Safe(accepted, gone, x.body)
      /\ \A t \in seen2 : t \in shown[c] \/ Safe(accepted, gone, t)
      /\ Requests(c)["auto"].kind # "overwrite"
  BY <1>1, <1>2, <1>3 DEF TabKept, Safe
<1>5. shown[c] \subseteq seen2
  OBVIOUS
<1> HIDE DEF seen2
<1>6. TabKept(accepted, gone, x, Requests(c), seen2)
  BY <1>2, <1>4, <1>5, TabStays
<1>7. /\ ed'[c] = x /\ shown'[c] = seen2
      /\ \A d \in Clients \ {c} : ed'[d] = ed[d] /\ shown'[d] = shown[d]
  BY <1>1 DEF EditTypeOK
<1>8. Requests(c)' = Requests(c)
  BY <1>1 DEF Requests
<1> QED
  BY <1>1, <1>6, <1>7, <1>8, KeptTab

LEMMA TypeKept ==
    ASSUME EditTypeOK, TextInv, KeptInv, NEW c \in Clients, Type(c)
    PROVE  KeptInv'
<1> DEFINE n == typed + 1
           x == Typed(ed[c], n)
           seen2 == shown[c] \cup {n}
<1>1. /\ ed' = [ed EXCEPT ![c] = x] /\ shown' = [shown EXCEPT ![c] = seen2]
      /\ ed[c].open /\ UNCHANGED <<req, accepted, gone>>
  BY DEF Type
<1>2. /\ ed[c] \in EditorTypes
      /\ TabKept(accepted, gone, ed[c], Requests(c), shown[c])
  BY TabOf
<1>3. x.open = ed[c].open /\ x.body = n /\ x.timer = n
  BY <1>2, TypedFields
<1>4. \A t \in shown[c] : t < n
  <2>1. typed \in Nat /\ shown[c] \subseteq Nat /\ \A t \in shown[c] : t <= typed
    BY TextTypes DEF TextInv, TabText
  <2> QED
    BY <2>1
<1> HIDE DEF x, n
<1>5. \A t \in seen2 : t = x.body \/ \E u \in seen2 : t < u
  BY <1>3, <1>4
<1>6. TabKept(accepted, gone, x, Requests(c), seen2)
  BY <1>1, <1>2, <1>3, <1>5 DEF TabKept, BodyKept
<1>7. /\ ed'[c] = x /\ shown'[c] = seen2
      /\ \A d \in Clients \ {c} : ed'[d] = ed[d] /\ shown'[d] = shown[d]
  BY <1>1 DEF EditTypeOK
<1>8. Requests(c)' = Requests(c)
  BY <1>1 DEF Requests
<1> HIDE DEF seen2
<1> QED
  BY <1>1, <1>6, <1>7, <1>8, KeptTab

\* A manual request is sent: the text of the editor, or the draft.
LEMMA SentKept ==
    ASSUME NEW e, NEW q, NEW q2, NEW r, q["manual"].pc = "idle",
           \A k \in Ways : q2[k] = IF k = "manual" THEN r ELSE q[k],
           BodyKept(e, q), InLine(e, r)
    PROVE  BodyKept(e, q2)
<1>1. \A k \in Ways : InLine(e, q[k]) => InLine(e, q2[k])
  OBVIOUS
<1>2. Sending(q, e.body) => Sending(q2, e.body)
  BY DEF Sending, Ways
<1> QED
  BY <1>1, <1>2 DEF BodyKept

LEMMA DraftKept ==
    ASSUME EditTypeOK, TextInv, KeptInv, NEW c \in Clients,
           SaveDraft(c) \/ Overwrite(c)
    PROVE  KeptInv'
<1> DEFINE q == Requests(c)
           q2 == Requests(c)'
           e == ed[c]
<1>1. /\ UNCHANGED <<ed, accepted, shown, gone>>
      /\ req[<<c, "manual">>].pc = "idle"
  BY DEF SaveDraft, Overwrite
<1>2. TabKept(accepted, gone, e, q, shown[c])
  BY TabOf
<1>3. PICK r : req' = [req EXCEPT ![<<c, "manual">>] = r] /\ InLine(e, r)
  <2>1. CASE SaveDraft(c)
    <3> DEFINE r == Sent("save", e.body, e.version)
    <3>1. req' = [req EXCEPT ![<<c, "manual">>] = r]
      BY <2>1 DEF SaveDraft, Send, Sent
    <3>2. r.kind = "save" /\ r.new = e.body
      BY SentNew
    <3> HIDE DEF r
    <3> QED
      BY <3>1, <3>2 DEF InLine
  <2>2. CASE Overwrite(c)
    <3> DEFINE r == Sent("overwrite", e.draft, e.conflict)
    <3>1. req' = [req EXCEPT ![<<c, "manual">>] = r]
      BY <2>2 DEF Overwrite, Send, Sent
    <3>2. r.kind = "overwrite" /\ r.new = e.draft
      BY SentNew
    <3> HIDE DEF r
    <3> QED
      BY <3>1, <3>2 DEF InLine
  <2> QED
    BY <2>1, <2>2
<1>4. "manual" \in Ways /\ "auto" \in Ways
  BY DEF Ways
<1>5. /\ \A s \in Slots : s[1] = c \/ req'[s] = req[s]
      /\ \A k \in Ways : q2[k] = IF k = "manual" THEN r ELSE q[k]
      /\ q["manual"].pc = "idle"
  <2>1. /\ \A s \in Slots : s[1] = c \/ req'[s] = req[s]
        /\ \A k \in Ways : req'[<<c, k>>] = IF k = "manual" THEN r ELSE req[<<c, k>>]
    <3>1. \A s \in Slots : req'[s] = IF s = <<c, "manual">> THEN r ELSE req[s]
      BY <1>3 DEF EditTypeOK
    <3> QED
      BY <1>4, <3>1, SlotOfTab
  <2>2. \A k \in Ways : q[k] = req[<<c, k>>] /\ q2[k] = req'[<<c, k>>]
    BY RequestsOf
  <2> HIDE DEF q, q2
  <2> QED
    BY <1>1, <1>4, <2>1, <2>2
<1> HIDE DEF q, q2, e
<1>6. BodyKept(e, q) => BodyKept(e, q2)
  BY <1>3, <1>5, SentKept
<1>7. q2["auto"].kind # "overwrite"
  BY <1>2, <1>4, <1>5 DEF TabKept
<1>8. TabKept(accepted, gone, e, q2, shown[c])
  BY <1>2, <1>6, <1>7, TabStays DEF TabKept
<1> QED
  BY <1>1, <1>5, <1>8, KeptTab DEF e, q2

\* The timer fires with the text of the editor.
LEMMA AutosaveKept ==
    ASSUME EditTypeOK, TextInv, KeptInv, NEW c \in Clients, Autosave(c)
    PROVE  KeptInv'
<1> DEFINE q == Requests(c)
           q2 == Requests(c)'
           e == ed[c]
           x == [ed[c] EXCEPT !.timer = 0, !.timerVersion = NoStamp]
           r == Sent("auto", e.timer, e.timerVersion)
<1>1. /\ req' = [req EXCEPT ![<<c, "auto">>] = r] /\ ed' = [ed EXCEPT ![c] = x]
      /\ e.timer # 0 /\ UNCHANGED <<accepted, shown, gone>>
      /\ \A k \in Ways : req[<<c, k>>].pc = "idle"
  BY DEF Autosave, Send, Sent, EditTypeOK, Ways
<1>2. TabKept(accepted, gone, e, q, shown[c]) /\ e \in EditorTypes
  BY TabOf
<1>3. /\ x.body = e.body /\ x.timer = 0 /\ x.draft = e.draft /\ x.open = e.open
      /\ x.conflict = e.conflict
  BY <1>2 DEF EditorTypes
<1>4. r.kind = "auto" /\ r.new = e.timer /\ r.pc = "read"
  BY SentNew
<1>5. "manual" \in Ways /\ "auto" \in Ways
  BY DEF Ways
<1> HIDE DEF r
<1>6. /\ \A s \in Slots : s[1] = c \/ req'[s] = req[s]
      /\ \A k \in Ways : q2[k] = IF k = "auto" THEN r ELSE q[k]
      /\ \A k \in Ways : q[k].pc = "idle"
  <2>1. /\ \A s \in Slots : s[1] = c \/ req'[s] = req[s]
        /\ \A k \in Ways : req'[<<c, k>>] = IF k = "auto" THEN r ELSE req[<<c, k>>]
    <3>1. \A s \in Slots : req'[s] = IF s = <<c, "auto">> THEN r ELSE req[s]
      BY <1>1 DEF EditTypeOK
    <3> QED
      BY <1>5, <3>1, SlotOfTab
  <2>2. \A k \in Ways : q[k] = req[<<c, k>>] /\ q2[k] = req'[<<c, k>>]
    BY RequestsOf
  <2> HIDE DEF q, q2
  <2> QED
    BY <1>1, <2>1, <2>2
<1>7. /\ ed'[c] = x
      /\ \A d \in Clients \ {c} : ed'[d] = ed[d] /\ shown'[d] = shown[d]
  BY <1>1 DEF EditTypeOK
<1> HIDE DEF q, q2, e, x
<1>8. ASSUME BodyKept(e, q) PROVE BodyKept(x, q2)
  <2>1. r.new = e.body
    BY <1>1, <1>4, <1>8 DEF BodyKept
  <2>2. Sending(q2, x.body)
    BY <1>3, <1>4, <1>5, <1>6, <2>1 DEF Sending
  <2>3. \A k \in Ways : InLine(x, q2[k])
    BY <1>3, <1>4, <1>6, <2>1 DEF InLine
  <2> QED
    BY <1>3, <2>2, <2>3 DEF BodyKept
<1>9. q2["auto"].kind # "overwrite"
  BY <1>4, <1>5, <1>6
<1>10. TabKept(accepted, gone, x, q2, shown[c])
  <2>1. \/ Safe(accepted, gone, e.body) /\ Safe(accepted, gone, x.body)
        \/ x.body = e.body /\ (e.open => x.open) /\ BodyKept(x, q2)
    BY <1>2, <1>3, <1>8 DEF TabKept
  <2> QED
    BY <1>2, <1>9, <2>1, TabStays
<1> QED
  BY <1>1, <1>6, <1>7, <1>10, KeptTab DEF q2

\* "Load Latest" gives the text up.
LEMMA LoadLatestKept ==
    ASSUME EditTypeOK, TextInv, KeptInv, NEW c \in Clients, LoadLatest(c)
    PROVE  KeptInv'
<1>1. PICK x : ed' = [ed EXCEPT ![c] = x] /\ x.body = ed[c].latest
  BY LatestFields
<1>2. /\ gone \subseteq gone' /\ ed[c].body \in gone'
      /\ UNCHANGED <<req, accepted, shown>>
  BY DEF LoadLatest
<1>3. /\ TabKept(accepted, gone, ed[c], Requests(c), shown[c])
      /\ Stored(accepted, ed[c].latest)
  BY TabOf
<1>4. /\ Safe(accepted, gone', ed[c].body) /\ Safe(accepted, gone', x.body)
      /\ Requests(c)["auto"].kind # "overwrite"
  BY <1>1, <1>2, <1>3 DEF TabKept, Safe
<1>5. TabKept(accepted, gone', x, Requests(c), shown[c])
  BY <1>2, <1>3, <1>4, TabStays
<1>6. /\ ed'[c] = x
      /\ \A d \in Clients \ {c} : ed'[d] = ed[d] /\ shown'[d] = shown[d]
  BY <1>1, <1>2 DEF EditTypeOK
<1>7. Requests(c)' = Requests(c)
  BY <1>2 DEF Requests
<1> QED
  BY <1>2, <1>5, <1>6, <1>7, KeptTab

\* A request of tab c is answered: the tab's other request stays.
LEMMA Answered ==
    ASSUME EditTypeOK, NEW s \in Slots, s[1] \in Clients,
           req' = [req EXCEPT ![s] = Idle]
    PROVE  \E j \in Ways :
             /\ Requests(s[1])[j] = req[s]
             /\ \A k \in Ways :
                  Requests(s[1])'[k] = IF k = j THEN Idle ELSE Requests(s[1])[k]
             /\ \A z \in Slots : z[1] = s[1] \/ req'[z] = req[z]
<1>1. PICK j \in Ways : s = <<s[1], j>>
  BY ClientSlot
<1>2. \A z \in Slots : req'[z] = IF z = s THEN Idle ELSE req[z]
  BY DEF EditTypeOK
<1>3. \A k \in Ways : <<s[1], k>> \in Slots /\ (<<s[1], k>> = s <=> k = j)
  BY <1>1, SlotOf DEF Ways
<1>4. \A k \in Ways : req'[<<s[1], k>>] = IF k = j THEN Idle ELSE req[<<s[1], k>>]
  BY <1>2, <1>3
<1>5. \A k \in Ways : /\ Requests(s[1])[k] = req[<<s[1], k>>]
                      /\ Requests(s[1])'[k] = req'[<<s[1], k>>]
  BY RequestsOf
<1>6. \A z \in Slots : z[1] = s[1] \/ req'[z] = req[z]
  BY <1>2
<1> DEFINE q == Requests(s[1])
           q2 == Requests(s[1])'
<1>7. \A k \in Ways : q[k] = req[<<s[1], k>>] /\ q2[k] = req'[<<s[1], k>>]
  BY <1>5
<1> HIDE DEF q, q2
<1>8. \A k \in Ways : q2[k] = IF k = j THEN Idle ELSE q[k]
  BY <1>4, <1>7
<1>9. q[j] = req[s]
  BY <1>1, <1>7
<1> QED
  BY <1>6, <1>8, <1>9 DEF q, q2

\* The auto slot never holds an overwrite.
LEMMA AnsweredKind ==
    ASSUME NEW q, NEW q2, NEW j, q["auto"].kind # "overwrite",
           \A k \in Ways : q2[k] = IF k = j THEN Idle ELSE q[k]
    PROVE  q2["auto"].kind # "overwrite"
  BY IdleNew DEF Ways

\* A conflict answer: the banner offers the text, or another request still
\* carries it.
LEMMA ConflictedKept ==
    ASSUME NEW e, NEW x, NEW q, NEW q2, NEW j \in Ways, NEW r, r = q[j],
           r.pc # "idle", q["auto"].kind # "overwrite",
           \A k \in Ways : q2[k] = IF k = j THEN Idle ELSE q[k],
           x.body = e.body, x.timer = e.timer, x.conflict # NoStamp,
           x.draft = IF r.kind = "overwrite" /\ e.conflict # NoStamp
                     THEN e.draft ELSE r.new,
           BodyKept(e, q)
    PROVE  BodyKept(x, q2)
<1>1. CASE e.timer = e.body
  BY <1>1 DEF BodyKept
<1>2. CASE e.timer # e.body
  <2>1. /\ e.timer = 0 /\ (Offered(e) \/ Sending(q, e.body))
        /\ \A k \in Ways : InLine(e, q[k])
    BY <1>2 DEF BodyKept
  <2>2. InLine(e, r)
    BY <2>1
  <2>3. ASSUME NEW k \in Ways, k # j, q[k].pc # "idle", q[k].new = e.body
        PROVE  Sending(q2, x.body)
    <3>1. q2[k] = q[k]
      BY <2>3
    <3> QED
      BY <2>3, <3>1 DEF Sending
  <2>4. CASE r.kind # "overwrite"
    <3>1. x.draft = x.body
      BY <2>2, <2>4 DEF InLine
    <3>2. Offered(x)
      BY <3>1 DEF Offered
    <3>3. ASSUME NEW k \in Ways PROVE InLine(x, q2[k])
      <4>1. CASE k = j
        BY <4>1, IdleNew DEF InLine
      <4>2. CASE k # j
        <5>1. InLine(e, q[k]) /\ q2[k] = q[k]
          BY <2>1, <4>2
        <5> QED
          BY <3>1, <5>1 DEF InLine
      <4> QED
        BY <4>1, <4>2
    <3> QED
      BY <2>1, <3>2, <3>3 DEF BodyKept
  <2>5. CASE r.kind = "overwrite"
    <3>1. j = "manual"
      BY <2>5 DEF Ways
    <3>2. Offered(x) \/ Sending(q2, x.body)
      <4>1. CASE \E k \in Ways : k # j /\ q[k].pc # "idle" /\ q[k].new = e.body
        BY <2>3, <4>1
      <4>2. CASE r.new = e.body
        BY <2>2, <2>5, <4>2 DEF InLine, Offered
      <4>3. CASE Offered(e)
        BY <2>5, <4>3 DEF Offered
      <4> QED
        BY <2>1, <4>1, <4>2, <4>3 DEF Sending
    <3>3. ASSUME NEW k \in Ways PROVE InLine(x, q2[k])
      <4>1. CASE k = j
        BY <4>1, IdleNew DEF InLine
      <4>2. CASE k # j
        <5>1. InLine(e, q[k]) /\ q2[k] = q[k] /\ q[k].kind # "overwrite"
          BY <2>1, <3>1, <4>2 DEF Ways
        <5> QED
          BY <5>1 DEF InLine
      <4> QED
        BY <4>1, <4>2
    <3> QED
      BY <2>1, <3>2, <3>3 DEF BodyKept
  <2> QED
    BY <2>4, <2>5
<1> QED
  BY <1>1, <1>2

LEMMA AnswerKept ==
    ASSUME EditTypeOK, TextInv, KeptInv, NEW s \in Slots, req[s].pc # "idle",
           AnswerConflict(s)
    PROVE  KeptInv'
<1>1. /\ req' = [req EXCEPT ![s] = Idle]
      /\ ed' = [ed EXCEPT ![s[1]] = Conflicted(ed[s[1]], req[s], page)]
      /\ shown' = [shown EXCEPT ![s[1]] = shown[s[1]] \cup {page.body}]
      /\ UNCHANGED <<accepted, gone>>
  BY DEF AnswerConflict
<1>2. CASE s[1] \notin Clients
  <2>1. /\ \A d \in Clients : ed'[d] = ed[d] /\ shown'[d] = shown[d]
        /\ \A z \in Slots : z[1] \notin Clients \/ req'[z] = req[z]
    BY <1>1, <1>2 DEF EditTypeOK
  <2>2. \A d \in Clients : \A k \in Ways : Alike(req[<<d, k>>], req'[<<d, k>>])
    BY <2>1, SelfAlike, SlotOf DEF Ways
  <2> QED
    BY <1>1, <2>1, <2>2, SameGrown, KeptFrame
<1>3. CASE s[1] \in Clients
  <2> DEFINE c == s[1]
             e == ed[c]
             r == req[s]
             q == Requests(c)
             q2 == Requests(c)'
             x == Conflicted(e, r, page)
             seen2 == shown[c] \cup {page.body}
  <2>1. PICK j \in Ways :
          /\ q[j] = r
          /\ \A k \in Ways : q2[k] = IF k = j THEN Idle ELSE q[k]
          /\ \A z \in Slots : z[1] = c \/ req'[z] = req[z]
    BY <1>1, <1>3, Answered
  <2>2. /\ e \in EditorTypes /\ TabKept(accepted, gone, e, q, shown[c])
        /\ Stored(accepted, page.body) /\ page.stamp # NoStamp
    BY <1>3, TabOf
  <2>3. /\ x.open = e.open /\ x.conflict # NoStamp /\ x.body = e.body
        /\ x.timer = e.timer
        /\ x.draft = IF r.kind = "overwrite" /\ e.conflict # NoStamp
                     THEN e.draft ELSE r.new
    BY <2>2, ConflictedFields
  <2>4. /\ ed'[c] = x /\ shown'[c] = seen2
        /\ \A d \in Clients \ {c} : ed'[d] = ed[d] /\ shown'[d] = shown[d]
    BY <1>1, <1>3 DEF EditTypeOK
  <2>5. /\ shown[c] \subseteq seen2
        /\ \A t \in seen2 : t \in shown[c] \/ Safe(accepted, gone, t)
    BY <2>2 DEF Safe
  <2>6. r.pc # "idle"
    OBVIOUS
  <2> HIDE DEF e, r, q, q2, x, seen2
  <2>7. q["auto"].kind # "overwrite" /\ q2["auto"].kind # "overwrite"
    <3>1. q["auto"].kind # "overwrite"
      BY <2>2 DEF TabKept
    <3> QED
      BY <2>1, <3>1, AnsweredKind
  <2>8. BodyKept(e, q) => BodyKept(x, q2)
    BY <2>1, <2>3, <2>6, <2>7, ConflictedKept
  <2>9. \/ Safe(accepted, gone, e.body) /\ Safe(accepted, gone, x.body)
        \/ x.body = e.body /\ (e.open => x.open) /\ BodyKept(x, q2)
    BY <2>2, <2>3, <2>8 DEF TabKept
  <2>10. TabKept(accepted, gone, x, q2, seen2)
    BY <2>2, <2>5, <2>7, <2>9, TabStays
  <2> QED
    BY <1>1, <1>3, <2>1, <2>4, <2>10, KeptTab DEF q2
<1> QED
  BY <1>2, <1>3

\* A save is answered: its text is stored, so the unsafe text of the editor
\* is not the one it carried, and is still due for autosave; an overwrite
\* gives it up.
LEMMA LogKept ==
    ASSUME EditTypeOK, SaveInv, TextInv, KeptInv, NEW s \in Slots, LogEdit(s)
    PROVE  KeptInv'
<1>1. /\ req' = [req EXCEPT ![s] = Idle] /\ req[s].pc = "log"
      /\ UNCHANGED <<accepted, shown>>
  BY DEF LogEdit
<1>2. CASE s[1] \notin Clients
  <2>1. UNCHANGED <<ed, gone>>
    BY <1>2 DEF LogEdit
  <2>2. \A z \in Slots : z[1] \notin Clients \/ req'[z] = req[z]
    BY <1>1, <1>2 DEF EditTypeOK
  <2>3. \A d \in Clients : \A k \in Ways : Alike(req[<<d, k>>], req'[<<d, k>>])
    BY <2>2, SelfAlike, SlotOf DEF Ways
  <2> QED
    BY <1>1, <2>1, <2>3, SameGrown, KeptFrame
<1>3. CASE s[1] \in Clients
  <2> DEFINE c == s[1]
             e == ed[c]
             r == req[s]
             q == Requests(c)
             q2 == Requests(c)'
             x == Saved(e, r)
  <2>1. PICK j \in Ways :
          /\ q[j] = r
          /\ \A k \in Ways : q2[k] = IF k = j THEN Idle ELSE q[k]
          /\ \A z \in Slots : z[1] = c \/ req'[z] = req[z]
    BY <1>1, <1>3, Answered
  <2>2. e \in EditorTypes /\ TabKept(accepted, gone, e, q, shown[c])
    BY <1>3, TabOf
  <2>3. /\ ed' = [ed EXCEPT ![c] = x]
        /\ gone' = IF r.kind = "overwrite" /\ r.new # e.body
                   THEN gone \cup {e.body} ELSE gone
    BY <1>3 DEF LogEdit
  <2>4. /\ x.open = e.open /\ x.timer = e.timer
        /\ x.body = IF r.kind = "overwrite" THEN r.new ELSE e.body
    BY <2>2, SavedFields
  <2>5. Stored(accepted, r.new)
    BY <1>1 DEF SaveInv, TakenBy, Taken, Stored
  <2>6. /\ ed'[c] = x
        /\ \A d \in Clients \ {c} : ed'[d] = ed[d] /\ shown'[d] = shown[d]
    BY <1>1, <1>3, <2>3 DEF EditTypeOK
  <2>7. r.pc # "idle"
    BY <1>1
  <2> HIDE DEF e, r, q, q2, x
  <2>8. q2["auto"].kind # "overwrite"
    BY <2>1, <2>2, AnsweredKind DEF TabKept
  <2>9. gone \subseteq gone'
    BY <2>3
  <2>10. \/ Safe(accepted, gone', e.body) /\ Safe(accepted, gone', x.body)
         \/ x.body = e.body /\ (e.open => x.open) /\ BodyKept(x, q2)
    <3>1. CASE r.kind = "overwrite"
      BY <2>3, <2>4, <2>5, <3>1 DEF Safe
    <3>2. CASE r.kind # "overwrite" /\ Safe(accepted, gone, e.body)
      BY <2>4, <2>9, <3>2 DEF Safe
    <3>3. CASE r.kind # "overwrite" /\ ~Safe(accepted, gone, e.body)
      <4>1. BodyKept(e, q)
        BY <2>2, <3>3 DEF TabKept
      <4>2. e.timer = e.body
        BY <2>1, <2>5, <2>7, <3>3, <4>1 DEF BodyKept, InLine, Safe
      <4> QED
        BY <2>4, <3>3, <4>2 DEF BodyKept
    <3> QED
      BY <3>1, <3>2, <3>3
  <2>11. TabKept(accepted, gone', x, q2, shown[c])
    BY <2>2, <2>8, <2>9, <2>10, TabStays
  <2> QED
    BY <1>1, <1>3, <2>1, <2>6, <2>9, <2>11, KeptTab DEF q2
<1> QED
  BY <1>2, <1>3

\* A save fails: the text it carried is given up.
LEMMA FailSaveKept ==
    ASSUME EditTypeOK, TextInv, KeptInv, NEW s \in Slots, FailSave(s)
    PROVE  KeptInv'
<1>1. /\ req' = [req EXCEPT ![s] = Idle] /\ gone' = gone \cup {req[s].new}
      /\ UNCHANGED <<ed, accepted, shown>>
  BY DEF FailSave
<1>2. CASE s[1] \notin Clients
  <2>1. \A z \in Slots : z[1] \notin Clients \/ req'[z] = req[z]
    BY <1>1, <1>2 DEF EditTypeOK
  <2>2. \A d \in Clients : \A k \in Ways : Alike(req[<<d, k>>], req'[<<d, k>>])
    BY <2>1, SelfAlike, SlotOf DEF Ways
  <2> QED
    BY <1>1, <2>2, SameGrown, KeptFrame
<1>3. CASE s[1] \in Clients
  <2> DEFINE c == s[1]
             e == ed[c]
             q == Requests(c)
             q2 == Requests(c)'
  <2>1. PICK j \in Ways :
          /\ q[j] = req[s]
          /\ \A k \in Ways : q2[k] = IF k = j THEN Idle ELSE q[k]
          /\ \A z \in Slots : z[1] = c \/ req'[z] = req[z]
    BY <1>1, <1>3, Answered
  <2>2. TabKept(accepted, gone, e, q, shown[c])
    BY <1>3, TabOf
  <2> HIDE DEF e, q, q2
  <2>3. q2["auto"].kind # "overwrite"
    <3>1. q["auto"].kind # "overwrite"
      BY <2>2 DEF TabKept
    <3> QED
      BY <2>1, <3>1, AnsweredKind
  <2>4. ASSUME BodyKept(e, q), req[s].new # e.body PROVE BodyKept(e, q2)
    <3>1. Sending(q, e.body) => Sending(q2, e.body)
      BY <2>1, <2>4 DEF Sending
    <3>2. \A k \in Ways : InLine(e, q[k]) => InLine(e, q2[k])
      BY <2>1, IdleNew DEF InLine
    <3> QED
      BY <2>4, <3>1, <3>2 DEF BodyKept
  <2>5. \/ Safe(accepted, gone', e.body)
        \/ BodyKept(e, q2)
    BY <1>1, <2>2, <2>4 DEF TabKept, Safe
  <2>6. gone \subseteq gone'
    BY <1>1
  <2>7. TabKept(accepted, gone', e, q2, shown[c])
    BY <2>2, <2>3, <2>5, <2>6, TabStays
  <2> QED
    BY <1>1, <1>3, <2>1, <2>6, <2>7, KeptTab DEF e, q2
<1> QED
  BY <1>2, <1>3

\* Nothing the tabs depend on changes, except how far a handler is.
LEMMA QuietKept ==
    ASSUME EditTypeOK, KeptInv, Grown(accepted, accepted'), UNCHANGED <<ed, shown, gone>>,
           \A s \in Slots : Alike(req[s], req'[s])
    PROVE  KeptInv'
<1>1. \A d \in Clients : \A k \in Ways : Alike(req[<<d, k>>], req'[<<d, k>>])
  BY SlotOf DEF Ways
<1> QED
  BY <1>1, KeptFrame

LEMMA HandlerKept ==
    ASSUME EditTypeOK, TextInv, KeptInv, NEW s \in Slots,
           ReadExisting(s) \/ WriteMissed(s) \/ ReadStamp(s)
    PROVE  KeptInv'
<1>1. CASE ReadExisting(s) /\ AnswerConflict(s)
  <2>1. req[s].pc # "idle"
    BY <1>1 DEF ReadExisting
  <2> QED
    BY <1>1, <2>1, AnswerKept
<1>2. CASE \/ ReadExisting(s) /\ ~AnswerConflict(s)
           \/ WriteMissed(s) \/ ReadStamp(s)
  <2>1. /\ req[s].pc # "idle"
        /\ \E r : /\ req' = [req EXCEPT ![s] = r] /\ r.pc # "idle"
                  /\ r.new = req[s].new /\ r.kind = req[s].kind
        /\ UNCHANGED <<ed, accepted, shown, gone>>
    BY <1>2, HandlerFields
  <2>2. \A z \in Slots : Alike(req[z], req'[z])
    BY <2>1, SelfAlike DEF EditTypeOK, Alike
  <2> QED
    BY <2>1, <2>2, SameGrown, QuietKept
<1> QED
  BY <1>1, <1>2

LEMMA WriteKept ==
    ASSUME EditTypeOK, TextInv, KeptInv, NEW s \in Slots, WriteBody(s)
    PROVE  KeptInv'
<1> DEFINE r == req'[s]
<1>1. /\ req' = [req EXCEPT ![s] = r] /\ r.new = req[s].new
      /\ r.pc = IF req[s].expected = NoStamp THEN "log" ELSE "reread"
      /\ req[s].pc = "write" /\ UNCHANGED <<ed, shown>>
  BY WriteFacts
<1>2. r.kind = req[s].kind /\ UNCHANGED gone
  <2>1. req[s] \in ReqTypes
    BY DEF EditTypeOK
  <2> QED
    BY <2>1 DEF WriteBody, EditTypeOK, ReqTypes
<1>3. r.pc # "idle"
  BY <1>1
<1> HIDE DEF r
<1>4. Alike(req[s], r)
  BY <1>1, <1>2, <1>3 DEF Alike
<1>5. \A z \in Slots : Alike(req[z], req'[z])
  BY <1>1, <1>4, SelfAlike DEF EditTypeOK
<1>6. Grown(accepted, accepted')
  BY WriteGrows
<1> QED
  BY <1>1, <1>2, <1>5, <1>6, QuietKept

LEMMA ApiSaveKept ==
    ASSUME EditTypeOK, KeptInv, NEW a \in Callers, ApiSave(a)
    PROVE  KeptInv'
<1>1. <<a, "api">> \in Slots /\ <<a, "api">>[1] \notin Clients
  BY ApiSlot
<1>2. /\ \E r : req' = [req EXCEPT ![<<a, "api">>] = r]
      /\ UNCHANGED <<ed, accepted, shown, gone>>
  BY DEF ApiSave, Send
<1>3. \A z \in Slots : z[1] \notin Clients \/ req'[z] = req[z]
  BY <1>1, <1>2 DEF EditTypeOK
<1>4. \A d \in Clients : \A k \in Ways : Alike(req[<<d, k>>], req'[<<d, k>>])
  BY <1>3, SelfAlike, SlotOf DEF Ways
<1> QED
  BY <1>2, <1>4, SameGrown, KeptFrame

LEMMA StillKept ==
    ASSUME EditTypeOK, KeptInv, UNCHANGED <<ed, req, accepted, shown, gone>>
    PROVE  KeptInv'
  BY SameGrown, SelfAlike, QuietKept

LEMMA KeptNext ==
    ASSUME TypeOK, RowsInv, SaveInv, TextInv, KeptInv, [Next]_vars
    PROVE  KeptInv'
<1>1. EditTypeOK
  BY DEF TypeOK
<1>2. CASE ApprovalStep
  <2>1. UNCHANGED Editors
    BY <1>2, ApprovalOK DEF StepOK
  <2> QED
    BY <1>1, <2>1, StillKept DEF Editors
<1>3. ASSUME NEW c \in Clients,
             Open(c) \/ Type(c) \/ SaveDraft(c) \/ Autosave(c)
             \/ LoadLatest(c) \/ Overwrite(c)
      PROVE  KeptInv'
  BY <1>1, <1>3, OpenKept, TypeKept, DraftKept, AutosaveKept, LoadLatestKept
<1>4. ASSUME NEW a \in Callers, ApiSave(a)
      PROVE  KeptInv'
  BY <1>1, <1>4, ApiSaveKept
<1>5. ASSUME NEW s \in Slots, ReadLatest(s)
      PROVE  KeptInv'
  <2>1. req[s].pc # "idle" /\ AnswerConflict(s)
    BY <1>5 DEF ReadLatest
  <2> QED
    BY <1>1, <2>1, AnswerKept
<1>6. ASSUME NEW s \in Slots,
             ReadExisting(s) \/ WriteBody(s) \/ WriteMissed(s)
             \/ ReadStamp(s) \/ LogEdit(s) \/ FailSave(s)
      PROVE  KeptInv'
  BY <1>1, <1>6, HandlerKept, WriteKept, LogKept, FailSaveKept
<1>7. CASE View
  BY <1>1, <1>7, StillKept DEF View
<1>8. CASE UNCHANGED vars
  BY <1>1, <1>8, StillKept DEF vars, editVars
<1> QED
  BY <1>2, <1>3, <1>4, <1>5, <1>6, <1>7, <1>8 DEF Next, EditNext

LEMMA KeptInit == Init => KeptInv
<1> SUFFICES ASSUME Init, NEW c \in Clients
             PROVE  TabKept(accepted, gone, ed[c], Requests(c), shown[c])
  BY DEF KeptInv
<1>1. ed[c] = Closed /\ shown[c] = {} /\ req[<<c, "auto">>] = Idle
  BY SlotOf DEF Init, EditInit
<1>2. Requests(c)["auto"] = Idle
  BY <1>1, RequestsOf DEF Ways
<1>3. Idle.kind = "save" /\ Closed.body = 1
  BY DEF Idle, Closed
<1>4. Requests(c)["auto"].kind # "overwrite" /\ ed[c].body = 1
  BY <1>1, <1>2, <1>3
<1> QED
  BY <1>1, <1>4 DEF TabKept, Safe, Stored

(***************************************************************************)
(* The newest text of a tab is never lost by racing saves, conflicts,      *)
(* overwrites, rollbacks and views: it is stored, given up or its save     *)
(* failed, or the editor still holds it for a save.                        *)
(***************************************************************************)
THEOREM TextsAreKept == Spec => []TextIsKept
<1>1. TypeOK /\ TextInv /\ KeptInv => TextIsKept
  BY KeptText DEF TypeOK
<1> QED
  BY <1>1, InitTypes, RowsInit, RowsNext, SaveInit, SaveNext, TextInit, TextNext,
     KeptInit, KeptNext, PTL DEF Spec
=============================================================================
