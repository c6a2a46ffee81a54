------------------------------- MODULE Failures -------------------------------
(***************************************************************************)
(* The failures that a behaviour may contain: which kinds, and how many.   *)
(* The properties say of which kinds they hold regardless.                 *)
(***************************************************************************)
EXTENDS Naturals

CONSTANTS
  Faults,     \* the kinds of failure that may happen
  MaxFaults   \* bound on the number of failures

VARIABLES
  happened,  \* kinds of failure that have happened
  failures   \* how many failures have happened

faultVars == <<happened, failures>>

Fault(kind) ==
  /\ kind \in Faults
  /\ failures < MaxFaults
  /\ failures' = failures + 1
  /\ happened' = happened \cup {kind}

NoFault == UNCHANGED faultVars

Unless(kinds) == happened \cap kinds # {}

FaultsOK(kinds) == happened \subseteq kinds /\ failures \in Nat

=============================================================================
