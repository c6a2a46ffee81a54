------------------------------- MODULE Counter -------------------------------
(***************************************************************************)
(* What reconciliation promises to the rest of the system: a row that is   *)
(* counted becomes visible in its counter once.  It may have to wait, and  *)
(* where deltas may be lost, it may not become visible at all.             *)
(*                                                                         *)
(* The way there (deltas, lock, passes, compensation) is Reconciliation's  *)
(* subject, which implements this.                                         *)
(***************************************************************************)
EXTENDS Naturals

CONSTANT
  Keys      \* what is counted: an application's chats, a chat's messages

VARIABLES
  total,    \* total[k]: the rows counted under k
  visible,  \* visible[k]: those that k's counter in MySQL shows
  pending,  \* pending[k]: those that it is still going to show
  lossy,    \* pending rows may be lost from here on
  excused   \* rows may be lost or counted twice from here on

vars == <<total, visible, pending>>

Init ==
  /\ total   = [k \in Keys |-> 0]
  /\ visible = [k \in Keys |-> 0]
  /\ pending = [k \in Keys |-> 0]

\* A row is counted.
Count(k) ==
  /\ total'   = [total EXCEPT ![k] = @ + 1]
  /\ pending' = [pending EXCEPT ![k] = @ + 1]
  /\ UNCHANGED visible

\* n pending rows show up.
Show(k, n) ==
  /\ n <= pending[k]
  /\ visible' = [visible EXCEPT ![k] = @ + n]
  /\ pending' = [pending EXCEPT ![k] = @ - n]
  /\ UNCHANGED total

\* Pending rows are lost.
Lose ==
  /\ lossy'
  /\ pending' \in [Keys -> Nat]
  /\ \A k \in Keys : pending'[k] <= pending[k]
  /\ UNCHANGED <<total, visible>>

Next ==
  \/ \E k \in Keys : Count(k)
  \/ \E k \in Keys : \E n \in 0..pending[k] : Show(k, n)
  \/ Lose
  \/ excused'

Spec == Init /\ [][Next]_vars

=============================================================================
