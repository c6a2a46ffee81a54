-------------------------- MODULE MCReconciliation --------------------------
(***************************************************************************)
(* A small instance of Reconciliation: two processes with two threads      *)
(* each, and one key of each kind.                                         *)
(***************************************************************************)
EXTENDS Reconciliation, TLC

\* Processes are interchangeable.
Symmetry == Permutations(Workers)

=============================================================================
