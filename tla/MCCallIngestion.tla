-------------------------- MODULE MCCallIngestion --------------------------
(***************************************************************************)
(* Instances of CallIngestion for TLC.  Version 1 of a transcript has two  *)
(* chunks and version 2 one, so that a newer transcript leaves an old row. *)
(***************************************************************************)
EXTENDS CallIngestion, TLC

MCChunkCount == [v \in 1..MaxVersion |-> IF v = 1 THEN 2 ELSE 1]

\* Requests are interchangeable, and so are backfills and workers.
Symmetric ==
    Permutations(Handlers) \cup Permutations(Backfillers) \cup Permutations(Workers)
=============================================================================
