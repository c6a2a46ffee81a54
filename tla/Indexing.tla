------------------------------- MODULE Indexing -------------------------------
(***************************************************************************)
(* How go-worker's IndexingWorker moves messages from indexing_queue to    *)
(* Elasticsearch.  In each process the consumer appends deliveries to a    *)
(* batch in memory; the consumer flushes the batch when it is full, the    *)
(* ticker's goroutine every five seconds, and Stop on SIGTERM.  A mutex    *)
(* guards the batch, but not a flush as a whole, so flushes overlap.       *)
(*                                                                         *)
(* One action is one critical section, one request to Elasticsearch or one *)
(* step of RabbitMQ.                                                       *)
(***************************************************************************)
EXTENDS Naturals, Sequences, BrokerQueue, Failures

CONSTANTS
  Workers,      \* go-worker processes
  BatchSize,    \* the number of messages that fills a batch (1000 in the code)
  MaxMessages,  \* bound on the messages published to indexing_queue
  NoMessage     \* a consumer's delivery when it has none

FaultKinds ==
  { "bulk_error",    \* BulkIndex returns an error, whatever was indexed
    "bulk_partial",  \* Elasticsearch answers 200 and rejected some documents
    "worker_link",   \* a process loses its AMQP channel
    "crash",         \* a process dies and is restarted
    "sigterm" }      \* a process is told to stop

ASSUME IndexingAssumption ==
  /\ BatchSize \in Nat \ {0}
  /\ MaxMessages \in Nat
  /\ MaxFaults \in Nat
  /\ NoMessage \notin [pos : Nat]

\* Messages differ in their place in the queue, and so do their documents.
Message == [pos : Nat]
Threads == Workers \X {"consumer", "ticker", "stop"}

VARIABLES
  published,  \* how many messages were published
  queue,      \* ready messages of indexing_queue
  linked,     \* linked[w]: the AMQP channel of process w is open
  msg,        \* msg[w]: the delivery that the consumer of w handles
  batch,      \* batch[w]: the messages that w has collected
  pc,         \* pc[t]: what thread t does next
  held,       \* held[t]: the messages of the flush that t is at
  docs        \* messages whose document is in Elasticsearch

vars == <<published, queue, linked, msg, batch, pc, held, docs, faultVars>>

Points == {"idle", "append", "take", "bulk", "restore", "ack", "nack", "off", "exit"}

StateOK ==
  /\ published \in Nat
  /\ queue \subseteq Message
  /\ linked \in [Workers -> BOOLEAN]
  /\ msg \in [Workers -> Message \cup {NoMessage}]
  /\ batch \in [Workers -> Seq(Message)]
  /\ pc \in [Threads -> Points]
  /\ held \in [Threads -> Seq(Message)]
  /\ docs \subseteq Message
  /\ \A w \in Workers : msg[w] = NoMessage <=> pc[<<w, "consumer">>] \in {"idle", "exit"}
  /\ \A t \in Threads : held[t] # <<>> <=> pc[t] \in {"bulk", "restore"}

TypeOK == StateOK /\ FaultsOK(FaultKinds)

Init ==
  /\ published = 0
  /\ queue = {}
  /\ linked = [w \in Workers |-> TRUE]
  /\ msg = [w \in Workers |-> NoMessage]
  /\ batch = [w \in Workers |-> <<>>]
  /\ pc = [t \in Threads |-> IF t[2] = "stop" THEN "off" ELSE "idle"]
  /\ held = [t \in Threads |-> <<>>]
  /\ docs = {}
  /\ happened = {}
  /\ failures = 0

Goto(t, here, there) ==
  /\ pc[t] = here
  /\ pc' = [pc EXCEPT ![t] = there]

\* The messages of a sequence.
Elements(s) == {s[i] : i \in 1..Len(s)}

-----------------------------------------------------------------------------
(***************************************************************************)
(* The broker.                                                             *)
(***************************************************************************)

\* A message worker publishes the next message.
Publish ==
  /\ published < MaxMessages
  /\ published' = published + 1
  /\ queue' = queue \cup {[pos |-> published]}
  /\ NoFault
  /\ UNCHANGED <<linked, msg, batch, pc, held, docs>>

\* Prefetch is 1: the consumer gets the next message when it has none.
Deliver(w) ==
  /\ linked[w]
  /\ Goto(<<w, "consumer">>, "idle", "append")
  /\ \E m \in queue :
       /\ AtFront(m, queue)
       /\ queue' = queue \ {m}
       /\ msg' = [msg EXCEPT ![w] = m]
  /\ NoFault
  /\ UNCHANGED <<published, linked, batch, held, docs>>

-----------------------------------------------------------------------------
(***************************************************************************)
(* HandleMessage and flush.                                                *)
(***************************************************************************)

\* Mutant: > for >= in shouldFlush.
AppendLate(w) ==
  /\ Goto(<<w, "consumer">>, "append", IF Len(batch[w]) + 1 > BatchSize THEN "take" ELSE "ack")
  /\ batch' = [batch EXCEPT ![w] = Append(@, msg[w])]
  /\ NoFault
  /\ UNCHANGED <<published, queue, linked, msg, held, docs>>

\* The delivery joins the batch; whether it fills the batch is decided under
\* the mutex, and the flush comes after.
AppendToBatch(w) ==
  /\ Goto(<<w, "consumer">>, "append", IF Len(batch[w]) + 1 >= BatchSize THEN "take" ELSE "ack")
  /\ batch' = [batch EXCEPT ![w] = Append(@, msg[w])]
  /\ NoFault
  /\ UNCHANGED <<published, queue, linked, msg, held, docs>>

\* Mutant: the ticker's goroutine returns after a flush.
ReturnedOnce(t) == IF t[2] = "consumer" THEN "ack" ELSE "exit"

\* Where a thread is when its flush has returned nil, or an error.
Returned(t) == CASE t[2] = "consumer" -> "ack" [] t[2] = "ticker" -> "idle" [] OTHER -> "exit"
Failed(t)   == IF t[2] = "consumer" THEN "nack" ELSE Returned(t)

\* Mutant: the batch is copied and not emptied.
TakeKeeps(t) ==
  /\ Goto(t, "take", IF batch[t[1]] = <<>> THEN Returned(t) ELSE "bulk")
  /\ held' = [held EXCEPT ![t] = batch[t[1]]]
  /\ NoFault
  /\ UNCHANGED <<published, queue, linked, msg, batch, docs>>

\* The batch is copied and emptied; an empty batch ends the flush.
TakeBatch(t) ==
  /\ Goto(t, "take", IF batch[t[1]] = <<>> THEN Returned(t) ELSE "bulk")
  /\ held' = [held EXCEPT ![t] = batch[t[1]]]
  /\ batch' = [batch EXCEPT ![t[1]] = <<>>]
  /\ NoFault
  /\ UNCHANGED <<published, queue, linked, msg, docs>>

\* Mutant: the flush goes on with the messages that it has sent.
BulkIndexHolds(t) ==
  /\ Goto(t, "bulk", Returned(t))
  /\ docs' = docs \cup Elements(held[t])
  /\ NoFault
  /\ UNCHANGED <<published, queue, linked, msg, batch, held>>

BulkIndex(t) ==
  /\ Goto(t, "bulk", Returned(t))
  /\ docs' = docs \cup Elements(held[t])
  /\ held' = [held EXCEPT ![t] = <<>>]
  /\ NoFault
  /\ UNCHANGED <<published, queue, linked, msg, batch>>

\* "errors": true in the answer is logged and taken for success.
BulkIndexPartial(t) ==
  /\ Goto(t, "bulk", Returned(t))
  /\ Fault("bulk_partial")
  /\ \E part \in SUBSET Elements(held[t]) : docs' = docs \cup part
  /\ held' = [held EXCEPT ![t] = <<>>]
  /\ UNCHANGED <<published, queue, linked, msg, batch>>

\* A status of 400 and above, or no answer in 30 seconds; some or all of the
\* documents may have been indexed.
BulkIndexFails(t) ==
  /\ Goto(t, "bulk", "restore")
  /\ Fault("bulk_error")
  /\ \E part \in SUBSET Elements(held[t]) : docs' = docs \cup part
  /\ UNCHANGED <<published, queue, linked, msg, batch, held>>

\* Mutant: what was collected in the meantime is overwritten.
RestoreOverwrites(t) ==
  /\ Goto(t, "restore", Failed(t))
  /\ batch' = [batch EXCEPT ![t[1]] = held[t]]
  /\ held' = [held EXCEPT ![t] = <<>>]
  /\ NoFault
  /\ UNCHANGED <<published, queue, linked, msg, docs>>

\* The messages go back to the front of the batch, and flush returns an error.
RestoreBatch(t) ==
  /\ Goto(t, "restore", Failed(t))
  /\ batch' = [batch EXCEPT ![t[1]] = held[t] \o @]
  /\ held' = [held EXCEPT ![t] = <<>>]
  /\ NoFault
  /\ UNCHANGED <<published, queue, linked, msg, docs>>

\* On a closed channel Ack and Nack do nothing.
Ack(w) ==
  /\ Goto(<<w, "consumer">>, "ack", "idle")
  /\ msg' = [msg EXCEPT ![w] = NoMessage]
  /\ NoFault
  /\ UNCHANGED <<published, queue, linked, batch, held, docs>>

\* Only the delivery that filled the batch is requeued; it stays in the batch
\* as well.
Nack(w) ==
  /\ Goto(<<w, "consumer">>, "nack", "idle")
  /\ queue' = IF linked[w] THEN queue \cup {msg[w]} ELSE queue
  /\ msg' = [msg EXCEPT ![w] = NoMessage]
  /\ NoFault
  /\ UNCHANGED <<published, linked, batch, held, docs>>

-----------------------------------------------------------------------------
(***************************************************************************)
(* startAutoFlush and Stop.                                                *)
(***************************************************************************)
Tick(w) ==
  /\ Goto(<<w, "ticker">>, "idle", "take")
  /\ NoFault
  /\ UNCHANGED <<published, queue, linked, msg, batch, held, docs>>

\* Stop closes stopChan and flushes, beside a consumer that goes on.
Terminate(w) ==
  /\ Goto(<<w, "stop">>, "off", "take")
  /\ Fault("sigterm")
  /\ UNCHANGED <<published, queue, linked, msg, batch, held, docs>>

\* A ticker's goroutine that finds stopChan closed returns, unless it takes a
\* tick that is due first.
TickerReturns(w) ==
  /\ pc[<<w, "stop">>] # "off"
  /\ Goto(<<w, "ticker">>, "idle", "exit")
  /\ NoFault
  /\ UNCHANGED <<published, queue, linked, msg, batch, held, docs>>

\* What the broker requeues when w's channel closes.
Unacked(w) == IF linked[w] /\ msg[w] # NoMessage THEN {msg[w]} ELSE {}

\* The process of w ends; with again, its container starts it once more.
End(w, again) ==
  /\ queue' = queue \cup Unacked(w)
  /\ linked' = [linked EXCEPT ![w] = again]
  /\ msg' = [msg EXCEPT ![w] = NoMessage]
  /\ batch' = [batch EXCEPT ![w] = <<>>]
  /\ held' = [t \in Threads |-> IF t[1] = w THEN <<>> ELSE held[t]]
  /\ pc' = [t \in Threads |-> IF t[1] # w THEN pc[t]
                              ELSE IF ~again THEN "exit"
                              ELSE IF t[2] = "stop" THEN "off" ELSE "idle"]
  /\ UNCHANGED <<published, docs>>

\* Workers.Stop has returned: main closes the channel and ends, whatever the
\* consumer and the ticker's goroutine are doing.
Exit(w) ==
  /\ pc[<<w, "stop">>] = "exit"
  /\ pc[<<w, "consumer">>] # "exit"
  /\ End(w, FALSE)
  /\ NoFault

-----------------------------------------------------------------------------
(***************************************************************************)
(* The environment.                                                        *)
(***************************************************************************)

\* w's channel closes and its delivery is requeued, while the handler goes on.
\* Nothing reconnects; the batch and its ticker remain.
LinkLost(w) ==
  /\ linked[w]
  /\ Fault("worker_link")
  /\ linked' = [linked EXCEPT ![w] = FALSE]
  /\ queue' = queue \cup Unacked(w)
  /\ UNCHANGED <<published, msg, batch, pc, held, docs>>

\* w dies.  Its container starts it again, unless it was told to stop.
Crash(w) ==
  /\ pc[<<w, "consumer">>] # "exit"
  /\ Fault("crash")
  /\ End(w, pc[<<w, "stop">>] = "off")

-----------------------------------------------------------------------------
Consumer(w) ==
  \/ Deliver(w)
  \/ AppendToBatch(w)
  \/ Ack(w)
  \/ Nack(w)

Flush(t) ==
  \/ TakeBatch(t)
  \/ BulkIndex(t)
  \/ RestoreBatch(t)

FlushFault(t) ==
  \/ BulkIndexPartial(t)
  \/ BulkIndexFails(t)

Stop(w) ==
  \/ TickerReturns(w)
  \/ Exit(w)

ProcessFault(w) ==
  \/ Terminate(w)
  \/ LinkLost(w)
  \/ Crash(w)

Next ==
  \/ Publish
  \/ \E w \in Workers : Consumer(w) \/ Tick(w) \/ Stop(w) \/ ProcessFault(w)
  \/ \E t \in Threads : Flush(t) \/ FlushFault(t)

Spec == Init /\ [][Next]_vars

\* Goroutines go on and tickers fire; nobody has to publish or to fail.
FairSpec ==
  /\ Spec
  /\ \A w \in Workers :
       WF_vars(Consumer(w)) /\ WF_vars(Tick(w)) /\ WF_vars(Stop(w))
  /\ \A t \in Threads : WF_vars(Flush(t))

-----------------------------------------------------------------------------
(***************************************************************************)
(* Properties.                                                             *)
(***************************************************************************)
Published == {[pos |-> n] : n \in 0..(published - 1)}

\* Where a message is that is not in Elasticsearch.
Unsettled == UNION { Unacked(w) : w \in Workers }
Batched   == UNION { Elements(batch[w]) : w \in Workers }
Flushing  == UNION { Elements(held[t]) : t \in Threads }

\* Overlapping flushes lose nothing: a published message is in the queue, in
\* the hands of a consumer, in a batch, in a flush, or indexed, also when bulk
\* requests fail and channels are lost (flush, HandleMessage).
NothingLost ==
  \/ Unless({"bulk_partial", "crash", "sigterm"})
  \/ Published \subseteq queue \cup Unsettled \cup Batched \cup Flushing \cup docs

Copies(m, s) == {i \in 1..Len(s) : s[i] = m}

\* No message is sent to Elasticsearch twice: it is in one place of one batch
\* or one flush, and neither when it is ready or already indexed.
SentOnce ==
  \/ Unless({"bulk_error", "worker_link", "crash", "sigterm"})
  \/ /\ \A w \in Workers : \A t \in Threads : \A i \in 1..Len(batch[w]) :
          /\ Copies(batch[w][i], batch[w]) = {i}
          /\ batch[w][i] \notin Elements(held[t]) \cup queue \cup docs
     /\ \A t, u \in Threads : \A i \in 1..Len(held[t]) :
          /\ Copies(held[t][i], held[t]) = {i}
          /\ held[t][i] \notin queue \cup docs
          /\ t # u => held[t][i] \notin Elements(held[u])

\* A full batch is being flushed: a consumer that waits for its next delivery
\* has left room for it, as long as no flush has failed (HandleMessage).
RoomInBatch ==
  \/ Unless({"bulk_error"})
  \/ \A w \in Workers :
       Len(batch[w]) >= BatchSize => pc[<<w, "consumer">>] = "take"

\* Every published message is indexed, as long as a process keeps its channel.
EventuallyIndexed ==
  \A n \in 0..(MaxMessages - 1) :
    n < published ~>
      \/ [pos |-> n] \in docs
      \/ Unless({"bulk_partial", "crash", "sigterm"})
      \/ \A w \in Workers : ~linked[w]

\* README.md:81-84 and 205-211: messages are acknowledged after they were
\* indexed, so that the broker keeps every message that is not.
IndexedBeforeAck == Published \subseteq queue \cup Unsettled \cup docs

=============================================================================
