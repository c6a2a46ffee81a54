------------------------------ MODULE MCAppCache ------------------------------
(***************************************************************************)
(* A small instance of AppCache: an application and two threads.           *)
(***************************************************************************)
EXTENDS AppCache, TLC

\* Threads are interchangeable.
Symmetry == Permutations(Threads)

=============================================================================
