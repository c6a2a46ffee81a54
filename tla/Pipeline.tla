------------------------------- MODULE Pipeline -------------------------------
(***************************************************************************)
(* A message's whole way, from POST .../messages to the search: the        *)
(* message workers of MessageCreation publish what the indexing workers of *)
(* Indexing consume.  The two share the go-worker processes, with their    *)
(* AMQP channels, and what happens to a process happens to both.           *)
(***************************************************************************)
EXTENDS Naturals, Sequences, FiniteSets, Failures

CONSTANTS
  Chats, Refused, Created, Contents, Requests, Workers, UniqueIndex, Sends,
  Nothing,                  \* MessageCreation
  BatchSize,                \* Indexing
  MaxSent                   \* bound on the messages published to indexing_queue

VARIABLES
  phase, chat, content, number, apiLinked, counter, delta, saved, messagesQueue,
  published, chatRows, linked, step, msg, row, messages, indexing,  \* MessageCreation
  sent,                     \* the rows published to indexing_queue, in order
  ready, delivery, batch, pc, held, docs                       \* Indexing

M == INSTANCE MessageCreation
I == INSTANCE Indexing WITH
  published <- Len(sent), queue <- ready, msg <- delivery,
  NoMessage <- Nothing, MaxMessages <- MaxSent

\* What the two assume of the constants.
ASSUME PipelineAssumption ==
  /\ Refused \subseteq Chats
  /\ Created \subseteq Chats \ Refused
  /\ Contents \subseteq {"fits", "too_long"}
  /\ IsFiniteSet(Workers)
  /\ UniqueIndex \in BOOLEAN
  /\ {Sends, BatchSize} \subseteq Nat \ {0}
  /\ {MaxSent, MaxFaults} \subseteq Nat
  /\ Nothing \notin M!Message
  /\ Nothing \notin M!MessageRow
  /\ Nothing \notin I!Message

\* What only one of the two has: they share linked and the failures.
messageVars ==
  <<phase, chat, content, number, apiLinked, counter, delta, saved, messagesQueue,
    published, step, msg, row, chatRows, messages, indexing>>
indexVars == <<sent, ready, delivery, batch, pc, held, docs>>
vars == <<messageVars, linked, indexVars, faultVars>>

\* Every message of indexing_queue stands for a row.
TypeOK ==
  /\ sent \in Seq(M!MessageRow)
  /\ indexing = I!Elements(sent)
  /\ indexing \subseteq messages
  /\ ready \cup docs \cup I!Batched \cup I!Flushing \cup I!Unsettled \subseteq I!Published
  /\ \A w \in Workers : row[w] \in messages \cup {Nothing}

Init ==
  /\ M!Init
  /\ sent = <<>>
  /\ ready = {}
  /\ delivery = [w \in Workers |-> Nothing]
  /\ batch = [w \in Workers |-> <<>>]
  /\ pc = [t \in I!Threads |-> IF t[2] = "stop" THEN "off" ELSE "idle"]
  /\ held = [t \in I!Threads |-> <<>>]
  /\ docs = {}

-----------------------------------------------------------------------------
(***************************************************************************)
(* Steps of one side.                                                      *)
(***************************************************************************)
Handler(r) ==
  /\ M!Handler(r)
  /\ UNCHANGED indexVars

\* go-chat dies, or loses its channel.
ApiFault ==
  /\ M!ApiCrash \/ M!ApiLinkLost
  /\ UNCHANGED indexVars

ChatPersisted(c) ==
  /\ M!ChatPersisted(c)
  /\ UNCHANGED indexVars

MessageStep(w) ==
  /\ step[w] # "publish"
  /\ M!MessageWorker(w)
  /\ UNCHANGED indexVars

MessageFault(w) ==
  /\ M!HandlerFault(w)
  /\ UNCHANGED indexVars

Consumer(w) ==
  /\ UNCHANGED <<messageVars, sent>>
  /\ I!Consumer(w)

Flush(t) ==
  /\ UNCHANGED <<messageVars, sent>>
  /\ I!Flush(t)

FlushFault(t) ==
  /\ UNCHANGED <<messageVars, sent>>
  /\ I!FlushFault(t)

Tick(w) ==
  /\ UNCHANGED <<messageVars, sent>>
  /\ I!Tick(w) \/ I!TickerReturns(w)

Terminate(w) ==
  /\ UNCHANGED <<messageVars, sent>>
  /\ I!Terminate(w)

-----------------------------------------------------------------------------
(***************************************************************************)
(* Steps of both.                                                          *)
(***************************************************************************)

\* The message worker's last call puts the row into the indexing worker's
\* queue, unless the channel is closed.
QueueForIndexing(w) ==
  /\ M!QueueForIndexing(w)
  /\ IF linked[w] THEN sent' = Append(sent, row[w]) /\ I!Publish
                  ELSE UNCHANGED indexVars

\* One channel serves all consumers of a process: losing it requeues both
\* deliveries.
LinkLost(w) ==
  /\ UNCHANGED sent
  /\ M!WorkerLinkLost(w)
  /\ I!LinkLost(w)

\* Workers.Stop returns and main ends, with a message in the middle of its
\* handler, as the consumer is closed last.
Exit(w) ==
  /\ UNCHANGED sent
  /\ M!End(w, FALSE)
  /\ I!Exit(w)

Crash(w) ==
  /\ UNCHANGED sent
  /\ M!End(w, pc[<<w, "stop">>] = "off")
  /\ I!Crash(w)

-----------------------------------------------------------------------------
Next ==
  \/ \E r \in Requests : Handler(r)
  \/ ApiFault
  \/ \E c \in Created : ChatPersisted(c)
  \/ \E w \in Workers :
       \/ MessageStep(w) \/ MessageFault(w) \/ QueueForIndexing(w)
       \/ Consumer(w) \/ Tick(w) \/ Terminate(w)
       \/ LinkLost(w) \/ Exit(w) \/ Crash(w)
  \/ \E t \in I!Threads : Flush(t) \/ FlushFault(t)

Spec == Init /\ [][Next]_vars

\* The fairness of MessageCreation and of Indexing.
FairSpec ==
  /\ Spec
  /\ \A c \in Created : WF_vars(ChatPersisted(c))
  /\ \A w \in Workers :
       /\ WF_vars(MessageStep(w) \/ QueueForIndexing(w))
       /\ WF_vars(Consumer(w)) /\ WF_vars(Tick(w)) /\ WF_vars(Exit(w))
  /\ \A t \in I!Threads : WF_vars(Flush(t))

-----------------------------------------------------------------------------
(***************************************************************************)
(* Properties.                                                             *)
(***************************************************************************)
RowOf(m) == sent[m.pos + 1]

Accepted   == {r \in Requests : phase[r] = "accepted"}
Failed     == {r \in Requests : phase[r] = "failed"}
Stored     == {m.request : m \in messages}
Searchable == {RowOf(m).request : m \in docs}

D == INSTANCE Delivery WITH
  accepted <- Accepted, failed <- Failed, stored <- Stored, searchable <- Searchable

\* What clients see of a message is consistent, whatever fails in go-chat, in
\* go-worker and in their calls: no document without its row, although row and
\* document are written by two workers with a queue and a batch between them; no row of a request that was answered with
\* an error, although the message may be stored before the answer, or go-chat
\* die before it; and neither answers, rows nor documents are taken back.
ImplementsDelivery == D!Spec

\* A row that is not searchable is still on its way: its worker is about to
\* publish it, or it is in the queue, in hands, in a batch or in a flush.  A
\* lost count and failed bulk requests do no harm; the other failures end a
\* worker, or its channel, with the only copy in its hands, or make it believe
\* that there is none.
RowsOnTheirWay ==
  \/ Unless({"crash", "sigterm", "worker_link", "db_write", "bulk_partial"})
  \/ \A m \in messages :
       \/ \E w \in Workers : row[w] = m
       \/ \E n \in ready \cup docs \cup I!Unsettled \cup I!Batched \cup I!Flushing : RowOf(n) = m

\* What keeps every process from message r for good: the message is lost on
\* its way into the queue or at its head, or waits behind one that comes back
\* for ever.
Lost == Unless({"find_app", "api_link"}) \/ \E m \in messagesQueue : M!Hopeless(m)

Due(r) == phase[r] = "accepted" /\ chat[r] \in Created /\ content[r] = "fits"

Healthy(w) == linked[w] /\ pc[<<w, "stop">>] = "off"

\* All failures of a run are over: some process is healthy, and no other is
\* shutting down or in the middle of a handler without a channel.
FailuresOver ==
  /\ failures = MaxFaults
  /\ \E w \in Workers : Healthy(w)
  /\ \A w \in Workers : Healthy(w) \/ (~linked[w] /\ step[w] = "idle")

\* What failed before a message became a row does it no harm: once failures are
\* over, an accepted message that is no row yet becomes searchable, whatever
\* processes were stopped, died or lost their channel, in the middle of its
\* handler or elsewhere, and whatever INSERTs failed.
FailuresLeaveNoTrace ==
  \A r \in Requests :
    Due(r) /\ r \notin Stored /\ FailuresOver ~> r \in Searchable \/ Lost

=============================================================================
