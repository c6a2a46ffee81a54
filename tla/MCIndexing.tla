----------------------------- MODULE MCIndexing -----------------------------
(***************************************************************************)
(* A small instance of Indexing.                                           *)
(***************************************************************************)
EXTENDS Indexing, TLC

==============================================================================
