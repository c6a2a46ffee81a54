------------------------------- MODULE Delivery -------------------------------
(***************************************************************************)
(* What the system promises of a message, seen from outside: its request   *)
(* is answered once, with a 200 or an error; it is stored, perhaps before  *)
(* the answer, and then found by the search; nothing of this is taken      *)
(* back; and what was answered with an error is never stored, so that a    *)
(* client may send it again.                                               *)
(***************************************************************************)
CONSTANT
  Requests    \* the requests for new messages

VARIABLES
  accepted,   \* the requests that were answered 200
  failed,     \* those that were answered with an error
  stored,     \* those whose message is in MySQL
  searchable  \* those whose message is in Elasticsearch

vars == <<accepted, failed, stored, searchable>>

Init ==
  /\ accepted = {}
  /\ failed = {}
  /\ stored = {}
  /\ searchable = {}

Accept(r) ==
  /\ r \notin failed
  /\ accepted' = accepted \cup {r}
  /\ UNCHANGED <<failed, stored, searchable>>

Fail(r) ==
  /\ r \notin accepted \cup stored
  /\ failed' = failed \cup {r}
  /\ UNCHANGED <<accepted, stored, searchable>>

Store(r) ==
  /\ r \notin failed
  /\ stored' = stored \cup {r}
  /\ UNCHANGED <<accepted, failed, searchable>>

\* A bulk request indexes several messages at once.
Index(batch) ==
  /\ batch \subseteq stored
  /\ searchable' = searchable \cup batch
  /\ UNCHANGED <<accepted, failed, stored>>

Next ==
  \/ \E r \in Requests : Accept(r) \/ Fail(r) \/ Store(r)
  \/ \E batch \in SUBSET stored : Index(batch)

Spec == Init /\ [][Next]_vars

=============================================================================
