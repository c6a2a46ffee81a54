----------------------------- MODULE BrokerQueue -----------------------------
(***************************************************************************)
(* The part of RabbitMQ that go-chat and go-worker rely on.  A queue is    *)
(* the set of its ready messages; each message is a record whose field     *)
(* pos is its place in the order of publication.  A message handed to a    *)
(* consumer leaves the set, and it returns with the same pos when it is    *)
(* requeued: RabbitMQ puts a requeued message back at its original place.  *)
(***************************************************************************)
EXTENDS Naturals

\* m is the ready message that the broker hands out next.
AtFront(m, queue) ==
  /\ m \in queue
  /\ \A n \in queue : m.pos <= n.pos

=============================================================================
