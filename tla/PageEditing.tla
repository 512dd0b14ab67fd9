----------------------------- MODULE PageEditing -----------------------------
(***************************************************************************)
(* Editing one landing page: the editor tabs with their autosave timers    *)
(* and conflict banner, the PATCH handler with its optimistic lock on      *)
(* updatedAt, and the edit history.                                        *)
(*                                                                         *)
(* frontend/src/pages/LandingPageEditorPage.tsx   the editor               *)
(* src/api/landing-page/crud-routes.ts            PATCH /:pageId           *)
(* src/services/landing-page-editor.ts            update, getPublicBySlug  *)
(*                                                                         *)
(* Every database statement is a step; an answer reaches the editor with   *)
(* the last statement of its request.  A text is a number, and every text  *)
(* typed is a new one.  updatedAt is a number that grows with every write  *)
(* of the row: two writes within one millisecond are left out.             *)
(***************************************************************************)
EXTENDS Naturals, Sequences

CONSTANTS
    Clients,    \* editor tabs
    Callers,    \* API clients that save without expected_updated_at
    MaxText,    \* bound: texts
    MaxBegun,   \* bound: requests
    MaxStamp    \* bound: writes of the page row

ASSUME EditingAssumption ==
    /\ Clients \cap Callers = {}
    /\ MaxText \in Nat \ {0}
    /\ MaxBegun \in Nat
    /\ MaxStamp \in Nat \ {0}

VARIABLES
    page,       \* the LandingPage row
    ed,         \* the editor state of each tab
    req,        \* the PATCH requests in progress
    edits,      \* LandingPageEdit rows
    typed,      \* texts typed so far
    begun,      \* requests and policy changes so far
    accepted,   \* history: the saves the row took, in order
    shown,      \* history: texts a tab loaded, typed or was warned about
    late,       \* history: stamps a tab learnt from an overtaken re-read
    gone        \* history: texts given up, swapped for the draft that
                \* overwrote, or whose save failed

editVars == <<page, ed, req, edits, typed, begun, accepted, shown, late, gone>>

NoStamp == 0
Text == 1..MaxText
Stamp == 0..MaxStamp
Slots == (Clients \X {"manual", "auto"}) \cup (Callers \X {"api"})

PageTypes == [body : Text, stamp : Stamp, dated : BOOLEAN,
              status : {"DRAFT", "PUBLISHED", "ARCHIVED"}]

EditorTypes ==
    [open : BOOLEAN, body : Text, version : Stamp, unsaved : BOOLEAN,
     timer : 0..MaxText, timerVersion : Stamp,
     conflict : Stamp, latest : Text, draft : Text]

ReqTypes ==
    [pc : {"idle", "read", "write", "conflict", "reread", "log"},
     kind : {"save", "overwrite", "auto", "api"},
     new : Text, expected : Stamp, prev : Text, wrote : Stamp, got : Stamp]

SaveEntry == [expected : Stamp, prev : Text, new : Text]

(***************************************************************************)
(* One type invariant: rows, tabs, requests and the histories.             *)
(***************************************************************************)
EditTypeOK ==
    /\ page \in PageTypes
    /\ ed \in [Clients -> EditorTypes]
    /\ req \in [Slots -> ReqTypes]
    /\ edits \in Seq([prev : Text, new : Text])
    /\ typed \in Text
    /\ begun \in 0..MaxBegun
    /\ accepted \in Seq(SaveEntry)
    /\ shown \in [Clients -> SUBSET Text]
    /\ late \in [Clients -> SUBSET Stamp]
    /\ gone \subseteq Text

Idle == [pc |-> "idle", kind |-> "save", new |-> 1, expected |-> NoStamp,
         prev |-> 1, wrote |-> NoStamp, got |-> NoStamp]

Closed == [open |-> FALSE, body |-> 1, version |-> NoStamp, unsaved |-> FALSE,
           timer |-> 0, timerVersion |-> NoStamp,
           conflict |-> NoStamp, latest |-> 1, draft |-> 1]

EditInit ==
    /\ page = [body |-> 1, stamp |-> 1, dated |-> FALSE, status |-> "DRAFT"]
    /\ ed = [c \in Clients |-> Closed]
    /\ req = [s \in Slots |-> Idle]
    /\ edits = <<>>
    /\ typed = 1
    /\ begun = 0
    /\ accepted = <<>>
    /\ shown = [c \in Clients |-> {}]
    /\ late = [c \in Clients |-> {}]
    /\ gone = {}

-----------------------------------------------------------------------------
(***************************************************************************)
(* The editor.                                                             *)
(***************************************************************************)

\* What loadPage takes from the row: text and updatedAt; a conflict is over.
Loaded(e, row) ==
    [e EXCEPT !.open = TRUE, !.body = row.body, !.version = row.stamp,
              !.conflict = NoStamp, !.latest = 1, !.draft = 1]

Open(c) ==
    /\ ~ed[c].open
    /\ ed' = [ed EXCEPT ![c] = Loaded(@, page)]
    /\ shown' = [shown EXCEPT ![c] = @ \cup {page.body}]
    /\ UNCHANGED <<page, req, edits, typed, begun, accepted, late, gone>>

\* A key press sets the timer anew, with the version of this render; while a
\* conflict is shown the new text is also the draft that may overwrite.
\* Fault: a running timer is not restarted.
TypedKeepsTimer(e, t) ==
    [e EXCEPT !.body = t, !.unsaved = TRUE,
              !.timer = IF e.timer = 0 THEN t ELSE e.timer,
              !.timerVersion = e.version,
              !.draft = IF e.conflict # NoStamp THEN t ELSE e.draft]

Typed(e, t) ==
    [e EXCEPT !.body = t, !.unsaved = TRUE, !.timer = t,
              !.timerVersion = e.version,
              !.draft = IF e.conflict # NoStamp THEN t ELSE e.draft]

Type(c) ==
    /\ ed[c].open
    /\ typed < MaxText
    /\ typed' = typed + 1
    /\ ed' = [ed EXCEPT ![c] = Typed(@, typed + 1)]
    /\ shown' = [shown EXCEPT ![c] = @ \cup {typed + 1}]
    /\ UNCHANGED <<page, req, edits, begun, accepted, late, gone>>

Send(s, kind, text, version) ==
    /\ begun < MaxBegun
    /\ begun' = begun + 1
    /\ req' = [req EXCEPT ![s] = [Idle EXCEPT !.pc = "read", !.kind = kind,
                                              !.new = text, !.expected = version]]

SaveDraft(c) ==
    /\ ed[c].open
    /\ req[<<c, "manual">>].pc = "idle"
    /\ Send(<<c, "manual">>, "save", ed[c].body, ed[c].version)
    /\ UNCHANGED <<page, ed, edits, typed, accepted, shown, late, gone>>

\* The timer fires 30 seconds after the last key press: by then the requests
\* begun before have been answered.
Autosave(c) ==
    /\ ed[c].timer # 0
    /\ \A k \in {"manual", "auto"} : req[<<c, k>>].pc = "idle"
    /\ Send(<<c, "auto">>, "auto", ed[c].timer, ed[c].timerVersion)
    /\ ed' = [ed EXCEPT ![c].timer = 0, ![c].timerVersion = NoStamp]
    /\ UNCHANGED <<page, edits, typed, accepted, shown, late, gone>>

\* "Load Latest": the draft is given up.
LoadLatest(c) ==
    /\ ed[c].conflict # NoStamp
    /\ ed' = [ed EXCEPT ![c] =
                [Loaded(ed[c], [body |-> ed[c].latest, stamp |-> ed[c].conflict])
                    EXCEPT !.unsaved = FALSE]]
    /\ gone' = gone \cup {ed[c].body, ed[c].draft}
    /\ UNCHANGED <<page, req, edits, typed, begun, accepted, shown, late>>

\* "Overwrite With My Draft", knowing of the text it replaces.
Overwrite(c) ==
    /\ ed[c].conflict # NoStamp
    /\ req[<<c, "manual">>].pc = "idle"
    /\ Send(<<c, "manual">>, "overwrite", ed[c].draft, ed[c].conflict)
    /\ UNCHANGED <<page, ed, edits, typed, accepted, shown, late, gone>>

\* An API client saves a text of its own without expected_updated_at.
ApiSave(a) ==
    /\ req[<<a, "api">>].pc = "idle"
    /\ typed < MaxText
    /\ typed' = typed + 1
    /\ Send(<<a, "api">>, "api", typed + 1, NoStamp)
    /\ UNCHANGED <<page, ed, edits, accepted, shown, late, gone>>

(***************************************************************************)
(* What the answers do to the editor.                                      *)
(***************************************************************************)
Saved(e, r) ==
    [e EXCEPT !.version = r.got, !.unsaved = FALSE,
              !.conflict = NoStamp, !.latest = 1, !.draft = 1,
              !.body = IF r.kind = "overwrite" THEN r.new ELSE e.body]

Conflicted(e, r, row) ==
    [e EXCEPT !.conflict = row.stamp, !.latest = row.body,
              !.draft = IF r.kind = "overwrite" /\ e.conflict # NoStamp
                        THEN e.draft ELSE r.new]

AnswerConflict(s) ==
    /\ req' = [req EXCEPT ![s] = Idle]
    /\ ed' = [ed EXCEPT ![s[1]] = Conflicted(@, req[s], page)]
    /\ shown' = [shown EXCEPT ![s[1]] = @ \cup {page.body}]
    /\ UNCHANGED <<page, edits, typed, begun, accepted, late, gone>>

-----------------------------------------------------------------------------
(***************************************************************************)
(* The PATCH handler: read, conditional write, re-read, history row.       *)
(***************************************************************************)
Goto(s, pc) == req' = [req EXCEPT ![s].pc = pc]

ReadExisting(s) ==
    /\ req[s].pc = "read"
    /\ \/ /\ req[s].expected \in {NoStamp, page.stamp}
          /\ req' = [req EXCEPT ![s].pc = "write", ![s].prev = page.body]
          /\ UNCHANGED <<page, ed, edits, typed, begun, accepted, shown, late, gone>>
       \/ /\ req[s].expected \notin {NoStamp, page.stamp}
          /\ AnswerConflict(s)

\* The row after a write of the body: a new updatedAt.
NewBody(row, t) == [row EXCEPT !.body = t, !.stamp = row.stamp + 1]

\* The condition of updateMany: the stamp is still the expected one.
\* Fault: the update is not conditional.
StampIgnored(r) == TRUE

StampMatches(r) == r.expected \in {NoStamp, page.stamp}

WriteBody(s) ==
    /\ req[s].pc = "write"
    /\ StampMatches(req[s])
    /\ page.stamp < MaxStamp
    /\ page' = NewBody(page, req[s].new)
    /\ accepted' = Append(accepted, [expected |-> req[s].expected,
                                     prev |-> req[s].prev, new |-> req[s].new])
    /\ req' = [req EXCEPT ![s].pc = IF req[s].expected = NoStamp
                                    THEN "log" ELSE "reread",
                          ![s].wrote = page.stamp + 1,
                          ![s].got = page.stamp + 1]
    /\ UNCHANGED <<ed, edits, typed, shown, late, gone, begun>>

WriteMissed(s) ==
    /\ req[s].pc = "write"
    /\ ~StampMatches(req[s])
    /\ Goto(s, "conflict")
    /\ UNCHANGED <<page, ed, edits, typed, begun, accepted, shown, late, gone>>

ReadLatest(s) ==
    /\ req[s].pc = "conflict"
    /\ AnswerConflict(s)

\* updatedAt is read again: it may be that of a later write.
ReadStamp(s) ==
    /\ req[s].pc = "reread"
    /\ req' = [req EXCEPT ![s].pc = "log", ![s].got = page.stamp]
    /\ UNCHANGED <<page, ed, edits, typed, begun, accepted, shown, late, gone>>

\* The edit row of a save that changed the body.

EditRow(r) == [prev |-> r.prev, new |-> r.new]

\* The history row, then the answer.
LogEdit(s) ==
    /\ req[s].pc = "log"
    /\ edits' = IF req[s].new = req[s].prev THEN edits
                ELSE Append(edits, EditRow(req[s]))
    /\ req' = [req EXCEPT ![s] = Idle]
    /\ IF s[1] \in Clients
       THEN /\ ed' = [ed EXCEPT ![s[1]] = Saved(@, req[s])]
            /\ late' = [late EXCEPT ![s[1]] =
                          IF req[s].got # req[s].wrote THEN @ \cup {req[s].got}
                          ELSE @]
            /\ gone' = IF req[s].kind = "overwrite" /\ req[s].new # ed[s[1]].body
                       THEN gone \cup {ed[s[1]].body} ELSE gone
       ELSE UNCHANGED <<ed, late, gone>>
    /\ UNCHANGED <<page, typed, begun, accepted, shown>>

\* A statement or the connection fails: an autosave says nothing, a save
\* shows a message; the text stays in the editor either way.
FailSave(s) ==
    /\ req[s].pc # "idle"
    /\ req' = [req EXCEPT ![s] = Idle]
    /\ gone' = gone \cup {req[s].new}
    /\ UNCHANGED <<page, ed, edits, typed, begun, accepted, shown, late>>

\* A visitor of the public page: viewCount changes, and updatedAt with it.
View ==
    /\ page.status = "PUBLISHED"
    /\ page.stamp < MaxStamp
    /\ page' = [page EXCEPT !.stamp = @ + 1]
    /\ UNCHANGED <<ed, req, edits, typed, begun, accepted, shown, late, gone>>

EditNext ==
    \/ \E c \in Clients : Open(c) \/ Type(c) \/ SaveDraft(c) \/ Autosave(c)
                          \/ LoadLatest(c) \/ Overwrite(c)
    \/ \E a \in Callers : ApiSave(a)
    \/ \E s \in Slots :
        \/ ReadExisting(s) \/ WriteBody(s) \/ WriteMissed(s) \/ ReadLatest(s)
        \/ ReadStamp(s) \/ LogEdit(s) \/ FailSave(s)
    \/ View

EditSpec == EditInit /\ [][EditNext]_editVars

-----------------------------------------------------------------------------
(***************************************************************************)
(* The read, the conditional write and the later statements of a save act  *)
(* together as one compare-and-set of the page's text: the row takes a     *)
(* locked save only at the stamp it names, and the text it read first is   *)
(* then the one it replaces.                                               *)
(***************************************************************************)
Register == INSTANCE EditRegister
    WITH body <- page.body, stamp <- page.stamp, log <- accepted

SavesAreAtomic == Register!Spec

(***************************************************************************)
(* No blind overwrite (update, lines 206 and 223): a save of the editor    *)
(* replaces only a text its tab loaded, typed or was warned about.  The    *)
(* exception is the re-read of updatedAt after the write: overtaken by     *)
(* another write, it hands the tab a stamp of a text it never saw.         *)
(***************************************************************************)
ReplacesKnownText(s) ==
    \/ page.body \in shown[s[1]]
    \/ req[s].expected \in late[s[1]]

NoBlindOverwrite ==
    [][\A s \in Slots :
        s[1] \in Clients /\ req[s].pc = "write" /\ req'[s].pc = "reread"
            => ReplacesKnownText(s)]_editVars

(***************************************************************************)
(* The history is true: every edit row tells of a save the row took, with  *)
(* the text read before as the one replaced.                               *)
(***************************************************************************)
EditsWereAccepted ==
    \A i \in DOMAIN edits :
        \E j \in DOMAIN accepted :
            /\ accepted[j].prev = edits[i].prev
            /\ accepted[j].new = edits[i].new

(***************************************************************************)
(* The newest text of a tab is not lost by racing answers: it was saved,   *)
(* given up, swapped for an older draft the user chose to overwrite with,  *)
(* or its save failed; otherwise it is still marked unsaved, due for       *)
(* autosave, being sent, or offered by the conflict banner.                *)
(***************************************************************************)
Newest(c, t) == \A u \in shown[c] : u <= t

TextIsKept ==
    \A c \in Clients : \A t \in shown[c] :
        Newest(c, t) /\ ed[c].open /\ t # 1 =>
            \/ \E i \in DOMAIN accepted : accepted[i].new = t
            \/ t = page.body
            \/ t \in gone
            \/ ed[c].body = t /\ ed[c].unsaved
            \/ ed[c].timer = t
            \/ ed[c].conflict # NoStamp /\ ed[c].draft = t
            \/ \E k \in {"manual", "auto"} :
                req[<<c, k>>].pc # "idle" /\ req[<<c, k>>].new = t
=============================================================================
