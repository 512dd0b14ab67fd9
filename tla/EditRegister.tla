----------------------------- MODULE EditRegister -----------------------------
(***************************************************************************)
(* What saving a landing page promises: the text is a register, every      *)
(* accepted save replaces it in one step, and a save that names a stamp    *)
(* (updatedAt) is accepted only while the register still carries it.  The  *)
(* log says which text each save replaced.  Everything else that touches   *)
(* the page row (a view, a publish, a rollback) renews the stamp.          *)
(***************************************************************************)
EXTENDS Naturals, Sequences

CONSTANTS
    Text,       \* the texts a page may hold
    NoStamp     \* a save that names no stamp

VARIABLES
    body,       \* the text of the page
    stamp,      \* its updatedAt
    log         \* the accepted saves, in order

vars == <<body, stamp, log>>

Entry == [expected : Nat \cup {NoStamp}, prev : Text, new : Text]

Init ==
    /\ body \in Text
    /\ stamp = 1
    /\ log = <<>>

(***************************************************************************)
(* A save that named the current stamp, and the text it then replaced.     *)
(***************************************************************************)
LockedSave(t) ==
    /\ body' = t
    /\ stamp' > stamp
    /\ log' = Append(log, [expected |-> stamp, prev |-> body, new |-> t])

(***************************************************************************)
(* A save without a stamp replaces whatever is there; the text it believes *)
(* to have replaced may be an older one.                                   *)
(***************************************************************************)
FreeSave(t, believed) ==
    /\ body' = t
    /\ stamp' > stamp
    /\ log' = Append(log, [expected |-> NoStamp, prev |-> believed, new |-> t])

(***************************************************************************)
(* A rollback restores an earlier text; a view or a publish keeps it.      *)
(***************************************************************************)
Renew ==
    /\ body' \in Text
    /\ stamp' > stamp
    /\ UNCHANGED log

Next ==
    \/ \E t \in Text : LockedSave(t)
    \/ \E t, believed \in Text : FreeSave(t, believed)
    \/ Renew

Spec == Init /\ [][Next]_vars
=============================================================================
