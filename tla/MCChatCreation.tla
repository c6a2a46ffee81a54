--------------------------- MODULE MCChatCreation ---------------------------
(***************************************************************************)
(* A small instance of ChatCreation: two processes, one application with   *)
(* two spellings of its token (MySQL compares without case, Redis does     *)
(* not), and a token of no application.                                    *)
(***************************************************************************)
EXTENDS ChatCreation, TLC

CONSTANTS lower, upper, unknown, app

MCAppOf ==
  [t \in Tokens |-> IF t = unknown THEN NoApp ELSE app]

\* Requests and processes are interchangeable; only runs without a liveness
\* property use this.
Symmetry == Permutations(Requests) \cup Permutations(Workers)

=============================================================================
