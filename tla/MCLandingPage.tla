--------------------------- MODULE MCLandingPage ---------------------------
(***************************************************************************)
(* Instances of LandingPage for TLC: the requests that are sent.           *)
(***************************************************************************)
EXTENDS LandingPage

\* What makes transactions wait for each other.
ConcurrentKinds == {"direct", "chain", "rollback", "delete", "schedule", "cancel"}

\* What changes the status of a page.
LifecycleKinds == {"direct", "queue", "rollback", "archive", "unpublish", "delete",
                   "schedule"}
=============================================================================
