------------------------------ MODULE MCPipeline ------------------------------
(***************************************************************************)
(* A small instance of Pipeline: one chat, whose row may come later than   *)
(* its messages, and a URL that names no application.                      *)
(***************************************************************************)
EXTENDS Pipeline, TLC

CONSTANTS there, unknown

\* Requests are interchangeable.
Symmetry == Permutations(Requests)

=============================================================================
