------------------------------- MODULE MCSearch -------------------------------
(***************************************************************************)
(* A small instance of Search: two processes, pages of up to four, a       *)
(* window of five, and an int of seven bits, so that the product of a page *)
(* and a page size can wrap around to the first hit and below it.          *)
(***************************************************************************)
EXTENDS Search, TLC

\* Processes are interchangeable.
Symmetry == Permutations(Workers)

=============================================================================
