-------------------------- MODULE MCMessageCreation --------------------------
(***************************************************************************)
(* A small instance of MessageCreation: a chat whose row comes, one whose  *)
(* row never comes, and a URL that names no application.                   *)
(***************************************************************************)
EXTENDS MessageCreation

CONSTANTS there, missing, unknown

==============================================================================
