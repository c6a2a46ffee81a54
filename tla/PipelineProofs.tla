---------------------------- MODULE PipelineProofs ----------------------------
(***************************************************************************)
(* A message's whole way, for any number of requests, chats and processes: *)
(* what clients see implements Delivery.                                   *)
(*                                                                         *)
(* The steps of Pipeline are steps of MessageCreation and of Indexing, or  *)
(* of one of them beside which the other stands still; what their proofs   *)
(* say of such steps holds here.                                           *)
(***************************************************************************)
EXTENDS Pipeline, TLAPS

MP == INSTANCE MessageCreationProofs
IP == INSTANCE IndexingProofs WITH
  published <- Len(sent), queue <- ready, msg <- delivery,
  NoMessage <- Nothing, MaxMessages <- MaxSent

-----------------------------------------------------------------------------
(***************************************************************************)
(* The definitions of M and MP are the same, and so are those of I and IP. *)
(***************************************************************************)
LEMMA SameFaults ==
  /\ M!NoFault <=> NoFault
  /\ MP!NoFault <=> NoFault
  /\ I!NoFault <=> NoFault
  /\ IP!NoFault <=> NoFault
  /\ \A kind : M!Fault(kind) <=> Fault(kind)
  /\ \A kind : MP!Fault(kind) <=> Fault(kind)
  /\ \A kind : I!Fault(kind) <=> Fault(kind)
  /\ \A kind : IP!Fault(kind) <=> Fault(kind)
  BY DEF NoFault, M!NoFault, MP!NoFault, I!NoFault, IP!NoFault,
    faultVars, M!faultVars, MP!faultVars, I!faultVars, IP!faultVars,
    Fault, M!Fault, MP!Fault, I!Fault, IP!Fault

LEMMA SameHandler ==
  ASSUME NEW r \in Requests, M!Handler(r)
  PROVE  MP!Handler(r)
  BY SameFaults
  DEF M!Handler, M!IncrementMessageCounter, M!IncrementDisturbed, M!PublishMessage,
    M!PublishUnconfirmed, M!PublishFails, M!Answer, M!redisVars, M!brokerVars,
    M!workerVars, M!storeVars,
    MP!Handler, MP!IncrementMessageCounter, MP!IncrementDisturbed, MP!PublishMessage,
    MP!PublishUnconfirmed, MP!PublishFails, MP!Answer, MP!redisVars, MP!brokerVars,
    MP!workerVars, MP!storeVars

LEMMA SameInsert ==
  \A m : /\ M!RowOf(m) = MP!RowOf(m)
         /\ M!Fits(m) <=> MP!Fits(m)
         /\ M!Duplicate(m) <=> MP!Duplicate(m)
         /\ M!Inserted(m) = MP!Inserted(m)
<1>1. M!Cardinality(messages) = MP!Cardinality(messages)
  BY DEF M!Cardinality, MP!Cardinality
<1>2. \A m : M!RowOf(m) = MP!RowOf(m) /\ (M!Fits(m) <=> MP!Fits(m))
  BY <1>1 DEF M!RowOf, MP!RowOf, M!Fits, MP!Fits
<1>3. \A m : M!Duplicate(m) <=> MP!Duplicate(m)
  BY DEF M!Duplicate, M!MessageExists, M!IsMessageOf, M!ChatOf,
    MP!Duplicate, MP!MessageExists, MP!IsMessageOf, MP!ChatOf
<1> QED
  BY <1>2, <1>3 DEF M!Inserted, MP!Inserted

LEMMA SameWorker ==
  ASSUME NEW w \in Workers, M!MessageWorker(w)
  PROVE  MP!MessageWorker(w)
  BY SameFaults, SameInsert
  DEF M!MessageWorker, M!Deliver, M!FindApp, M!FindChat, M!FindMessage, M!CreateMessage,
    M!CreateMessageRefused, M!IncrementCounter, M!QueueForIndexing, M!Ack, M!Nack, M!Goto,
    M!ChatOf, M!AtFront,
    M!MessageExists, M!IsMessageOf, M!apiVars, M!redisVars, M!brokerVars, M!storeVars,
    MP!MessageWorker, MP!Deliver, MP!FindApp, MP!FindChat, MP!FindMessage, MP!CreateMessage,
    MP!CreateMessageRefused, MP!IncrementCounter, MP!QueueForIndexing, MP!Ack, MP!Nack, MP!Goto,
    MP!ChatOf, MP!AtFront,
    MP!MessageExists, MP!IsMessageOf, MP!apiVars, MP!redisVars, MP!brokerVars, MP!storeVars

LEMMA SameHandlerFault ==
  ASSUME NEW w \in Workers, M!HandlerFault(w)
  PROVE  MP!HandlerFault(w)
  BY SameFaults, SameInsert
  DEF M!HandlerFault, M!FindAppFails, M!FindChatFails, M!FindMessageFails, M!CreateMessageFails,
    M!IncrementCounterDisturbed, M!Goto, M!ChatOf,
    M!apiVars, M!redisVars, M!brokerVars, M!storeVars,
    MP!HandlerFault, MP!FindAppFails, MP!FindChatFails, MP!FindMessageFails, MP!CreateMessageFails,
    MP!IncrementCounterDisturbed, MP!Goto, MP!ChatOf,
    MP!apiVars, MP!redisVars, MP!brokerVars, MP!storeVars

LEMMA SameChatPersisted ==
  ASSUME NEW c \in Created, M!ChatPersisted(c)
  PROVE  MP!ChatPersisted(c)
  BY SameFaults
  DEF M!ChatPersisted, M!apiVars, M!redisVars, M!brokerVars, M!workerVars,
    MP!ChatPersisted, MP!apiVars, MP!redisVars, MP!brokerVars, MP!workerVars

LEMMA SameApiFault ==
  ASSUME M!ApiCrash \/ M!ApiLinkLost
  PROVE  MP!ApiCrash \/ MP!ApiLinkLost
  BY SameFaults
  DEF M!ApiCrash, M!ApiLinkLost, M!redisVars, M!brokerVars, M!workerVars, M!storeVars,
    MP!ApiCrash, MP!ApiLinkLost, MP!redisVars, MP!brokerVars, MP!workerVars, MP!storeVars

LEMMA SameLinkLost ==
  ASSUME NEW w \in Workers, M!WorkerLinkLost(w)
  PROVE  MP!WorkerLinkLost(w)
  BY SameFaults
  DEF M!WorkerLinkLost, M!Unacked, M!apiVars, M!redisVars, M!storeVars,
    MP!WorkerLinkLost, MP!Unacked, MP!apiVars, MP!redisVars, MP!storeVars

LEMMA SameEnd ==
  ASSUME NEW w \in Workers, NEW again, M!End(w, again)
  PROVE  MP!End(w, again)
  BY DEF M!End, M!Unacked, M!apiVars, M!redisVars, M!storeVars,
    MP!End, MP!Unacked, MP!apiVars, MP!redisVars, MP!storeVars

LEMMA SameThreads == I!Threads = IP!Threads
  BY DEF I!Threads, IP!Threads

LEMMA SameElements == \A s : I!Elements(s) = IP!Elements(s)
  BY DEF I!Elements, IP!Elements

LEMMA SameConsumer ==
  ASSUME NEW w \in Workers, I!Consumer(w)
  PROVE  IP!Consumer(w)
  BY SameFaults
  DEF I!Consumer, I!Deliver, I!AppendToBatch, I!Ack, I!Nack, I!Goto, I!AtFront,
    IP!Consumer, IP!Deliver, IP!AppendToBatch, IP!Ack, IP!Nack, IP!Goto, IP!AtFront

LEMMA SameFlush ==
  ASSUME NEW t \in I!Threads, I!Flush(t) \/ I!FlushFault(t)
  PROVE  IP!Flush(t) \/ IP!FlushFault(t)
<1>1. I!Returned(t) = IP!Returned(t) /\ I!Failed(t) = IP!Failed(t)
  BY DEF I!Returned, IP!Returned, I!Failed, IP!Failed
<1> QED
  BY <1>1, SameFaults, SameElements
  DEF I!Flush, I!FlushFault, I!TakeBatch, I!BulkIndex, I!RestoreBatch, I!BulkIndexPartial,
    I!BulkIndexFails, I!Goto,
    IP!Flush, IP!FlushFault, IP!TakeBatch, IP!BulkIndex, IP!RestoreBatch, IP!BulkIndexPartial,
    IP!BulkIndexFails, IP!Goto

LEMMA SameTick ==
  ASSUME NEW w \in Workers, I!Tick(w) \/ I!TickerReturns(w) \/ I!Terminate(w)
  PROVE  IP!Tick(w) \/ IP!TickerReturns(w) \/ IP!Terminate(w)
  BY SameFaults DEF I!Tick, I!TickerReturns, I!Terminate, I!Goto,
    IP!Tick, IP!TickerReturns, IP!Terminate, IP!Goto

LEMMA SameProcess ==
  ASSUME NEW w \in Workers, I!LinkLost(w) \/ I!Exit(w) \/ I!Crash(w)
  PROVE  IP!LinkLost(w) \/ IP!Exit(w) \/ IP!Crash(w)
<1>1. \A again : I!End(w, again) <=> IP!End(w, again)
  BY SameThreads DEF I!End, IP!End, I!Unacked, IP!Unacked
<1> QED
  BY <1>1, SameFaults DEF I!LinkLost, I!Exit, I!Crash, I!Unacked,
    IP!LinkLost, IP!Exit, IP!Crash, IP!Unacked

LEMMA SamePublish == I!Publish <=> IP!Publish
  BY SameFaults DEF I!Publish, IP!Publish

-----------------------------------------------------------------------------
(***************************************************************************)
(* A step of Pipeline is a step of each side.                              *)
(***************************************************************************)
LEMMA HappenedGrows ==
  ASSUME NoFault \/ \E kind : Fault(kind)
  PROVE  happened \subseteq happened'
  BY DEF NoFault, Fault, faultVars

LEMMA MessageAside ==
  ASSUME UNCHANGED <<messageVars, linked>>, happened \subseteq happened'
  PROVE  MP!Aside
  BY DEF messageVars, MP!Aside, MP!apiVars, MP!redisVars, MP!brokerVars, MP!workerVars,
    MP!storeVars

LEMMA IndexAside ==
  ASSUME UNCHANGED <<indexVars, linked>>, happened \subseteq happened'
  PROVE  IP!Aside
  BY DEF indexVars, IP!Aside

\* The API, the chat workers, and the message workers before they publish.
LEMMA MessageSide ==
  ASSUME \/ \E r \in Requests : Handler(r)
         \/ ApiFault
         \/ \E c \in Created : ChatPersisted(c)
         \/ \E w \in Workers : MessageStep(w) \/ MessageFault(w)
  PROVE  MP!Quiet /\ IP!Aside /\ UNCHANGED <<indexVars, linked, indexing>>
<1>1. ASSUME NEW r \in Requests, Handler(r)
      PROVE  /\ MP!Handler(r) /\ UNCHANGED <<indexVars, linked, indexing>>
             /\ happened \subseteq happened'
  <2>1. M!Handler(r) /\ UNCHANGED indexVars
    BY <1>1 DEF Handler
  <2>2. UNCHANGED <<linked, indexing>> /\ (M!NoFault \/ \E kind : M!Fault(kind))
    BY <2>1 DEF M!Handler, M!IncrementMessageCounter, M!IncrementDisturbed, M!PublishMessage,
      M!PublishUnconfirmed, M!PublishFails, M!Answer, M!workerVars, M!storeVars
  <2> QED
    BY <2>1, <2>2, SameHandler, SameFaults, HappenedGrows
<1>2. ASSUME NEW c \in Created, ChatPersisted(c)
      PROVE  /\ MP!ChatPersisted(c) /\ UNCHANGED <<indexVars, linked, indexing>>
             /\ happened \subseteq happened'
  <2>1. M!ChatPersisted(c) /\ UNCHANGED indexVars
    BY <1>2 DEF ChatPersisted
  <2>2. UNCHANGED <<linked, indexing>> /\ M!NoFault
    BY <2>1 DEF M!ChatPersisted, M!workerVars
  <2> QED
    BY <2>1, <2>2, SameChatPersisted, SameFaults, HappenedGrows
<1>3. ASSUME NEW w \in Workers, MessageStep(w)
      PROVE  /\ MP!MessageWorker(w) /\ UNCHANGED <<indexVars, linked, indexing>>
             /\ happened \subseteq happened'
  <2>1. M!MessageWorker(w) /\ step[w] # "publish" /\ UNCHANGED indexVars
    BY <1>3 DEF MessageStep
  <2>2. UNCHANGED <<linked, indexing>> /\ M!NoFault
    BY <2>1 DEF M!MessageWorker, M!Deliver, M!FindApp, M!FindChat, M!FindMessage,
      M!CreateMessage, M!CreateMessageRefused, M!IncrementCounter, M!QueueForIndexing, M!Ack,
      M!Nack, M!Goto, M!storeVars
  <2> QED
    BY <2>1, <2>2, SameWorker, SameFaults, HappenedGrows
<1>4. ASSUME NEW w \in Workers, MessageFault(w)
      PROVE  /\ MP!HandlerFault(w) /\ UNCHANGED <<indexVars, linked, indexing>>
             /\ happened \subseteq happened'
  <2>1. M!HandlerFault(w) /\ UNCHANGED indexVars
    BY <1>4 DEF MessageFault
  <2>2. UNCHANGED <<linked, indexing>> /\ \E kind : M!Fault(kind)
    BY <2>1 DEF M!HandlerFault, M!FindAppFails, M!FindChatFails, M!FindMessageFails,
      M!CreateMessageFails, M!IncrementCounterDisturbed, M!storeVars
  <2> QED
    BY <2>1, <2>2, SameHandlerFault, SameFaults, HappenedGrows
<1>5. CASE ApiFault
  <2>1. (M!ApiCrash \/ M!ApiLinkLost) /\ UNCHANGED indexVars
    BY <1>5 DEF ApiFault
  <2>2. UNCHANGED <<linked, indexing>> /\ \E kind : M!Fault(kind)
    BY <2>1 DEF M!ApiCrash, M!ApiLinkLost, M!workerVars, M!storeVars
  <2> QED
    BY <2>1, <2>2, SameApiFault, SameFaults, HappenedGrows, IndexAside DEF MP!Quiet
<1> QED
  BY <1>1, <1>2, <1>3, <1>4, <1>5, IndexAside DEF MP!Quiet

\* The last call of a message worker's handler.
LEMMA BetweenThem ==
  ASSUME NEW w \in Workers, QueueForIndexing(w)
  PROVE  /\ MP!Quiet
         /\ UNCHANGED messages
         /\ \/ /\ linked[w] /\ step[w] = "publish"
               /\ sent' = Append(sent, row[w])
               /\ indexing' = indexing \cup {row[w]}
               /\ IP!Publish
            \/ UNCHANGED <<sent, indexing>> /\ IP!Aside
<1>1. MP!MessageWorker(w)
  BY SameWorker DEF QueueForIndexing, M!MessageWorker
<1>2. /\ step[w] = "publish"
      /\ indexing' = IF linked[w] THEN indexing \cup {row[w]} ELSE indexing
      /\ UNCHANGED <<messages, linked>>
      /\ happened \subseteq happened'
  BY SameFaults, HappenedGrows DEF QueueForIndexing, M!QueueForIndexing, M!Goto
<1>3. CASE linked[w]
  BY <1>1, <1>2, <1>3, SamePublish DEF QueueForIndexing, MP!Quiet
<1>4. CASE ~linked[w]
  <2>1. UNCHANGED indexVars
    BY <1>4 DEF QueueForIndexing
  <2> QED
    BY <1>1, <1>2, <1>4, <2>1, IndexAside DEF MP!Quiet, indexVars
<1> QED
  BY <1>3, <1>4

\* The indexing workers.
LEMMA IndexSide ==
  ASSUME \/ \E w \in Workers : Consumer(w) \/ Tick(w) \/ Terminate(w)
         \/ \E t \in I!Threads : Flush(t) \/ FlushFault(t)
  PROVE  MP!Aside /\ IP!Next /\ UNCHANGED <<messageVars, sent>>
<1>1. ASSUME NEW w \in Workers, I!Consumer(w)
      PROVE  UNCHANGED linked /\ happened \subseteq happened'
  BY <1>1, SameFaults, HappenedGrows DEF I!Consumer, I!Deliver, I!AppendToBatch, I!Ack, I!Nack
<1>2. ASSUME NEW w \in Workers, I!Tick(w) \/ I!TickerReturns(w) \/ I!Terminate(w)
      PROVE  UNCHANGED linked /\ happened \subseteq happened'
  BY <1>2, SameFaults, HappenedGrows DEF I!Tick, I!TickerReturns, I!Terminate
<1>3. ASSUME NEW t \in I!Threads, I!Flush(t) \/ I!FlushFault(t)
      PROVE  UNCHANGED linked /\ happened \subseteq happened'
  BY <1>3, SameFaults, HappenedGrows DEF I!Flush, I!FlushFault, I!TakeBatch, I!BulkIndex,
    I!RestoreBatch, I!BulkIndexPartial, I!BulkIndexFails
<1>4. CASE \E w \in Workers : Consumer(w)
  BY <1>1, <1>4, SameConsumer, MessageAside DEF Consumer, IP!Next
<1>5. CASE \E w \in Workers : Tick(w) \/ Terminate(w)
  <2>1. PICK w \in Workers : /\ I!Tick(w) \/ I!TickerReturns(w) \/ I!Terminate(w)
                             /\ UNCHANGED <<messageVars, sent>>
    BY <1>5 DEF Tick, Terminate
  <2> QED
    BY <1>2, <2>1, SameTick, MessageAside DEF IP!Next, IP!Stop, IP!ProcessFault
<1>6. CASE \E t \in I!Threads : Flush(t) \/ FlushFault(t)
  <2>1. PICK t \in I!Threads : (I!Flush(t) \/ I!FlushFault(t)) /\ UNCHANGED <<messageVars, sent>>
    BY <1>6 DEF Flush, FlushFault
  <2> QED
    BY <1>3, <2>1, SameFlush, SameThreads, MessageAside DEF IP!Next
<1> QED
  BY <1>4, <1>5, <1>6

\* What happens to a process.
LEMMA BothSides ==
  ASSUME NEW w \in Workers, LinkLost(w) \/ Exit(w) \/ Crash(w)
  PROVE  /\ MP!WorkerLinkLost(w) \/ MP!Ends(w)
         /\ IP!Next
         /\ UNCHANGED <<sent, messages, indexing, docs>>
<1>1. I!LinkLost(w) \/ I!Exit(w) \/ I!Crash(w)
  BY DEF LinkLost, Exit, Crash
<1>2. IP!Next /\ UNCHANGED docs
  BY <1>1, SameProcess DEF IP!Next, IP!Stop, IP!ProcessFault, I!LinkLost, I!Exit, I!Crash, I!End
<1>3. happened \subseteq happened'
  BY <1>1, SameFaults, HappenedGrows DEF I!LinkLost, I!Exit, I!Crash
<1>4. \/ M!WorkerLinkLost(w)
      \/ \E again \in BOOLEAN : M!End(w, again)
  BY DEF LinkLost, Exit, Crash
<1>5. UNCHANGED <<sent, messages, indexing>>
  BY <1>4 DEF LinkLost, Exit, Crash, M!WorkerLinkLost, M!End, M!storeVars
<1>6. MP!WorkerLinkLost(w) \/ MP!Ends(w)
  BY <1>3, <1>4, SameLinkLost, SameEnd DEF MP!Ends
<1> QED
  BY <1>2, <1>5, <1>6

LEMMA QuietIsStep == MP!Quiet => MP!Step
  BY DEF MP!Quiet, MP!Step, MP!Environment

LEMMA StepIs ==
  ASSUME [Next]_vars
  PROVE  /\ MP!Step /\ IP!Step
         /\ \/ UNCHANGED <<sent, indexing>>
            \/ \E w \in Workers : /\ step[w] = "publish"
                                  /\ sent' = Append(sent, row[w])
                                  /\ indexing' = indexing \cup {row[w]}
<1>1. CASE UNCHANGED vars
  <2>1. UNCHANGED <<messageVars, indexVars, linked, happened, sent, indexing>>
    BY <1>1 DEF vars, messageVars, indexVars, faultVars
  <2> QED
    BY <2>1, MessageAside, IndexAside DEF MP!Step, IP!Step
<1>2. CASE \/ \E r \in Requests : Handler(r)
           \/ ApiFault
           \/ \E c \in Created : ChatPersisted(c)
           \/ \E w \in Workers : MessageStep(w) \/ MessageFault(w)
  BY <1>2, MessageSide, QuietIsStep DEF IP!Step, indexVars
<1>3. CASE \E w \in Workers : QueueForIndexing(w)
  BY <1>3, BetweenThem, QuietIsStep DEF IP!Step, IP!Next
<1>4. CASE \/ \E w \in Workers : Consumer(w) \/ Tick(w) \/ Terminate(w)
           \/ \E t \in I!Threads : Flush(t) \/ FlushFault(t)
  BY <1>4, IndexSide DEF MP!Step, IP!Step, messageVars
<1>5. CASE \E w \in Workers : LinkLost(w) \/ Exit(w) \/ Crash(w)
  BY <1>5, BothSides DEF MP!Step, IP!Step
<1> QED
  BY <1>1, <1>2, <1>3, <1>4, <1>5 DEF Next

-----------------------------------------------------------------------------
(***************************************************************************)
(* What the two sides know of each other.                                  *)
(***************************************************************************)

\* What MessageCreation and Indexing assume.
LEMMA Assumed == MP!IsFiniteSet(Workers)
  BY PipelineAssumption DEF IsFiniteSet, MP!IsFiniteSet

Sound ==
  /\ MP!StateOK /\ MP!Origins /\ MP!RowsHeld
  /\ IP!StateOK /\ IP!Known
  /\ sent \in Seq(M!MessageRow)
  /\ indexing = I!Elements(sent)

LEMMA SoundInit == Init => Sound
<1> SUFFICES ASSUME Init
             PROVE  Sound
  OBVIOUS
<1>1. MP!Init
  BY DEF Init, M!Init, MP!Init
<1>2. IP!Init
  BY SameThreads DEF Init, M!Init, IP!Init
<1>3. MP!StateOK
  BY <1>1, Assumed, PipelineAssumption, MP!StateInit DEF M!Message, M!MessageRow
<1>4. IP!StateOK /\ IP!Known
  BY <1>2, PipelineAssumption, IP!StateInit, IP!KnownInit DEF I!Message
<1>5. MP!Origins /\ MP!RowsHeld
  BY <1>1 DEF MP!Init, MP!Origins, MP!RowsHeld
<1>6. sent \in Seq(M!MessageRow) /\ indexing = I!Elements(sent)
  BY DEF Init, M!Init, I!Elements
<1> QED
  BY <1>3, <1>4, <1>5, <1>6 DEF Sound

LEMMA SoundStep ==
  ASSUME Sound, [Next]_vars
  PROVE  Sound'
<1> USE DEF Sound
<1>1. MP!StateOK' /\ MP!Origins' /\ MP!RowsHeld'
  BY StepIs, Assumed, PipelineAssumption, MP!StateStep, MP!OriginsStep, MP!RowsHeldStep
  DEF M!Message, M!MessageRow
<1>2. IP!StateOK' /\ IP!Known'
  BY StepIs, PipelineAssumption, IP!StateStep, IP!KnownStep DEF I!Message
<1>3. sent' \in Seq(M!MessageRow) /\ indexing' = I!Elements(sent')
  <2>1. CASE UNCHANGED <<sent, indexing>>
    BY <2>1
  <2>2. ASSUME NEW w \in Workers, step[w] = "publish", sent' = Append(sent, row[w]),
               indexing' = indexing \cup {row[w]}
        PROVE  sent' \in Seq(M!MessageRow) /\ indexing' = I!Elements(sent')
    <3>1. row[w] \in M!MessageRow
      BY <2>2 DEF MP!StateOK, MP!MessageRow, M!MessageRow
    <3>2. IP!Elements(Append(sent, row[w])) = IP!Elements(sent) \cup {row[w]}
      BY <3>1, PipelineAssumption, IP!ElementsAppend DEF I!Message
    <3> QED
      BY <2>2, <3>1, <3>2, SameElements
  <2> QED
    BY <2>1, <2>2, StepIs
<1> QED
  BY <1>1, <1>2, <1>3

LEMMA SoundHolds == Spec => []Sound
  BY SoundInit, SoundStep, PTL DEF Spec

LEMMA SamePlaces ==
  /\ I!Published = IP!Published
  /\ I!Unsettled = IP!Unsettled
  /\ I!Batched = IP!Batched
  /\ I!Flushing = IP!Flushing
  BY SameElements, SameThreads DEF I!Published, IP!Published, I!Unsettled, IP!Unsettled,
    I!Unacked, IP!Unacked, I!Batched, IP!Batched, I!Flushing, IP!Flushing

LEMMA Places ==
  ASSUME Sound
  PROVE  ready \cup docs \cup I!Batched \cup I!Flushing \cup I!Unsettled \subseteq I!Published
<1> SUFFICES ASSUME NEW m \in ready \cup docs \cup IP!Batched \cup IP!Flushing \cup IP!Unsettled
             PROVE  IP!Somewhere(m)
  BY SamePlaces DEF Sound, IP!Known
<1>1. CASE m \in IP!Unsettled
  BY <1>1 DEF IP!Unsettled, IP!Unacked, IP!Somewhere
<1>2. CASE m \in ready
  BY <1>2 DEF IP!Somewhere
<1>3. CASE m \in docs \cup IP!Batched \cup IP!Flushing
  BY <1>3 DEF IP!Somewhere, IP!Collected
<1> QED
  BY <1>1, <1>2, <1>3

LEMMA SoundIsTyped == Sound => TypeOK
<1> SUFFICES ASSUME Sound
             PROVE  TypeOK
  OBVIOUS
<1>1. indexing \subseteq messages
  BY DEF Sound, MP!StateOK
<1>2. \A w \in Workers : row[w] \in messages \cup {Nothing}
  BY DEF Sound, MP!StateOK, MP!RowsHeld
<1> QED
  BY <1>1, <1>2, Places DEF Sound, TypeOK

\* Every message of indexing_queue, wherever it is, stands for a row of MySQL,
\* and so does every document (MessageWorker.queueForIndexing).
THEOREM TypeCorrect == Spec => []TypeOK
  BY SoundHolds, SoundIsTyped, PTL

\* The row of a published message is one of those that were published.
LEMMA RowOfIs ==
  ASSUME Sound, NEW m \in I!Published
  PROVE  RowOf(m) \in indexing /\ RowOf(m) \in messages
<1>1. PICK n \in 0..(Len(sent) - 1) : m = [pos |-> n]
  BY DEF I!Published
<1>2. Len(sent) \in Nat /\ n + 1 \in 1..Len(sent)
  BY <1>1 DEF Sound
<1>3. RowOf(m) = sent[n + 1]
  BY <1>1 DEF RowOf
<1> QED
  BY <1>2, <1>3 DEF Sound, I!Elements, MP!StateOK

LEMMA RowIsPublished ==
  ASSUME Sound, NEW m \in indexing
  PROVE  \E n \in I!Published : RowOf(n) = m
<1>1. PICK i \in 1..Len(sent) : m = sent[i]
  BY DEF Sound, I!Elements
<1>2. Len(sent) \in Nat /\ i - 1 \in 0..(Len(sent) - 1) /\ (i - 1) + 1 = i
  BY <1>1 DEF Sound
<1>3. [pos |-> i - 1] \in I!Published
  BY <1>2 DEF I!Published
<1>4. RowOf([pos |-> i - 1]) = m
  BY <1>1, <1>2 DEF RowOf
<1> QED
  BY <1>3, <1>4

-----------------------------------------------------------------------------
(***************************************************************************)
(* Rows on their way: the two sides' promises in one.                      *)
(***************************************************************************)
Enders == {"crash", "sigterm", "worker_link", "db_write", "bulk_partial"}

OnTheirWay ==
  \/ Unless(Enders)
  \/ MP!AllLinked /\ MP!RowsPublished /\ IP!AckJustified /\ IP!Everywhere

LEMMA OnTheirWayInit == Init => OnTheirWay
<1> SUFFICES ASSUME Init
             PROVE  MP!AllLinked /\ MP!RowsPublished /\ IP!AckJustified /\ IP!Everywhere
  BY DEF OnTheirWay
<1>1. MP!AllLinked /\ MP!RowsPublished
  BY DEF Init, M!Init, MP!AllLinked, MP!RowsPublished
<1>2. IP!Published = {}
  BY DEF Init, IP!Published
<1>3. \A w \in Workers : pc[<<w, "stop">>] = "off" /\ pc[<<w, "consumer">>] = "idle"
  BY DEF Init, I!Threads
<1> QED
  BY <1>1, <1>2, <1>3 DEF IP!AckJustified, IP!Everywhere

LEMMA OnTheirWayStep ==
  ASSUME Sound, OnTheirWay, [Next]_vars
  PROVE  OnTheirWay'
<1> SUFFICES ASSUME ~Unless(Enders)'
             PROVE  /\ MP!AllLinked' /\ MP!RowsPublished'
                    /\ IP!AckJustified' /\ IP!Everywhere'
  BY DEF OnTheirWay
<1> USE StepIs DEF Sound
<1>1. ~Unless(Enders)
  BY MP!Stable, Assumed, PipelineAssumption DEF Unless, M!Message, M!MessageRow
<1>2. MP!AllLinked /\ MP!RowsPublished /\ IP!AckJustified /\ IP!Everywhere
  BY <1>1 DEF OnTheirWay
<1>3. ~IP!Excused'
  BY DEF IP!Excused, IP!Unless, Unless, Enders
<1>4. IP!AckJustified' /\ IP!Everywhere'
  BY <1>2, <1>3, PipelineAssumption, IP!KeptStep DEF IP!Kept, I!Message
<1>5. \A w \in Workers : ~LinkLost(w) /\ ~Exit(w) /\ ~Crash(w)
  <2> SUFFICES ASSUME NEW w \in Workers, I!LinkLost(w) \/ I!Exit(w) \/ I!Crash(w)
               PROVE  FALSE
    BY DEF LinkLost, Exit, Crash
  <2>1. pc[<<w, "stop">>] = "off"
    BY <1>2 DEF IP!AckJustified
  <2>2. Fault("worker_link") \/ Fault("crash")
    BY <2>1, SameFaults DEF I!LinkLost, I!Exit, I!Crash
  <2> QED
    BY <2>2 DEF Fault, Unless, Enders
<1>6. MP!Quiet
  <2>1. CASE UNCHANGED vars
    <3>1. UNCHANGED <<messageVars, linked, happened>>
      BY <2>1 DEF vars, messageVars, faultVars
    <3> QED
      BY <3>1, MessageAside DEF MP!Quiet
  <2>2. CASE Next
    BY <1>5, <2>2, MessageSide, BetweenThem, IndexSide DEF Next, MP!Quiet
  <2> QED
    BY <2>1, <2>2
<1>7. ~MP!Unless({"db_write"})'
  BY DEF MP!Unless, Unless, Enders
<1> QED
  BY <1>2, <1>4, <1>6, <1>7, Assumed, PipelineAssumption, MP!RowsPublishedStep
  DEF M!Message, M!MessageRow

LEMMA OnTheirWayIs == Sound /\ OnTheirWay => RowsOnTheirWay
<1> SUFFICES ASSUME Sound, ~Unless(Enders), MP!RowsPublished, IP!Everywhere, NEW m \in messages,
                    \A w \in Workers : row[w] # m
             PROVE  \E n \in ready \cup docs \cup I!Unsettled \cup I!Batched \cup I!Flushing :
                      RowOf(n) = m
  BY DEF OnTheirWay, RowsOnTheirWay, Enders
<1>1. m \in indexing
  BY DEF MP!RowsPublished
<1>2. PICK n \in I!Published : RowOf(n) = m
  BY <1>1, RowIsPublished
<1> QED
  BY <1>2, SamePlaces DEF IP!Everywhere, IP!Collected

\* A row is never without somebody who will make it searchable, from the INSERT
\* to the index, across both workers and the queue between them, as long as
\* none of the five failures of Enders happens: lost counts, failing SELECTs
\* and failed bulk requests leave no row behind.
THEOREM NoRowIsForgotten == Spec => []RowsOnTheirWay
<1>1. Spec => [](Sound /\ OnTheirWay)
  BY SoundInit, SoundStep, OnTheirWayInit, OnTheirWayStep, PTL DEF Spec
<1> QED
  BY <1>1, OnTheirWayIs, PTL

-----------------------------------------------------------------------------
(***************************************************************************)
(* Pipeline implements Delivery.                                           *)
(***************************************************************************)
LEMMA DeliveryInit == Init => D!Init
<1> SUFFICES ASSUME Init
             PROVE  Accepted = {} /\ Failed = {} /\ Stored = {} /\ Searchable = {}
  BY DEF D!Init
<1>1. Accepted = {} /\ Failed = {}
  BY DEF Init, M!Init, Accepted, Failed
<1>2. Stored = {} /\ Searchable = {}
  BY DEF Init, M!Init, Stored, Searchable
<1> QED
  BY <1>1, <1>2

\* A published message keeps its row.
LEMMA RowsStay ==
  ASSUME Sound, [Next]_vars, NEW m \in I!Published
  PROVE  RowOf(m)' = RowOf(m)
<1>1. PICK n \in 0..(Len(sent) - 1) : m = [pos |-> n]
  BY DEF I!Published
<1>2. sent \in Seq(M!MessageRow) /\ n + 1 \in 1..Len(sent) /\ m.pos = n
  BY <1>1 DEF Sound
<1>3. ASSUME NEW w \in Workers, step[w] = "publish", sent' = Append(sent, row[w])
      PROVE  sent'[n + 1] = sent[n + 1]
  <2>1. row[w] \in M!MessageRow
    BY <1>3 DEF Sound, MP!StateOK, MP!MessageRow, M!MessageRow
  <2> QED
    BY <1>2, <1>3, <2>1
<1>4. sent'[n + 1] = sent[n + 1]
  BY <1>3, StepIs
<1> QED
  BY <1>2, <1>4 DEF RowOf

\* What is searchable was stored before.
LEMMA SearchableIsStored == Sound => Searchable \subseteq Stored
<1> SUFFICES ASSUME Sound, NEW m \in docs
             PROVE  RowOf(m).request \in Stored
  BY DEF Searchable
<1>1. m \in I!Published
  BY Places
<1> QED
  BY <1>1, RowOfIs DEF Stored

LEMMA SearchableIsStoredNext == Sound' => (Searchable \subseteq Stored)'
  BY SearchableIsStored, PTL

\* A step that leaves the index alone changes nothing of what is searchable.
LEMMA SearchableStays ==
  ASSUME Sound, [Next]_vars, UNCHANGED docs
  PROVE  UNCHANGED Searchable
<1>1. \A m \in docs : RowOf(m)' = RowOf(m)
  BY Places, RowsStay
<1> QED
  BY <1>1 DEF Searchable

\* A handler answers its own request, and does nothing else that clients see.
LEMMA HandlerAnswers ==
  ASSUME Sound, [Next]_vars, NEW r \in Requests, Handler(r)
  PROVE  D!Accept(r) \/ D!Fail(r) \/ UNCHANGED D!vars
<1>1. M!Handler(r) /\ UNCHANGED indexVars
  BY DEF Handler
<1>2. UNCHANGED Searchable
  BY <1>1, SearchableStays DEF indexVars
<1>3. PICK p : /\ phase' = [phase EXCEPT ![r] = p]
               /\ p \in {"numbered", "queued", "accepted", "failed"}
               /\ p = "accepted" => phase[r] = "queued"
               /\ phase[r] \in {"new", "numbered", "queued"}
               /\ p = "failed" => phase[r] \in {"new", "numbered"}
  BY <1>1 DEF M!Handler, M!IncrementMessageCounter, M!IncrementDisturbed, M!PublishMessage,
    M!PublishUnconfirmed, M!PublishFails, M!Answer
<1>4. UNCHANGED messages
  BY <1>1 DEF M!Handler, M!IncrementMessageCounter, M!IncrementDisturbed, M!PublishMessage,
    M!PublishUnconfirmed, M!PublishFails, M!Answer, M!storeVars
<1>5. UNCHANGED Stored
  BY <1>4 DEF Stored
<1>6. phase'[r] = p /\ \A q \in Requests \ {r} : phase'[q] = phase[q]
  BY <1>3 DEF Sound, MP!StateOK
<1>7. CASE p = "accepted"
  <2>1. Accepted' = Accepted \cup {r} /\ UNCHANGED Failed /\ r \notin Failed
    BY <1>3, <1>6, <1>7 DEF Accepted, Failed
  <2> QED
    BY <1>2, <1>5, <2>1 DEF D!Accept
<1>8. CASE p = "failed"
  <2>1. Failed' = Failed \cup {r} /\ UNCHANGED Accepted /\ r \notin Accepted
    BY <1>3, <1>6, <1>8 DEF Accepted, Failed
  <2>2. r \notin Stored
    BY <1>3, <1>8 DEF Stored, Sound, MP!Origins, MP!Sent, MP!Gone
  <2> QED
    BY <1>2, <1>5, <2>1, <2>2 DEF D!Fail
<1>9. CASE p \in {"numbered", "queued"}
  <2>1. UNCHANGED <<Accepted, Failed>>
    BY <1>3, <1>6, <1>9 DEF Accepted, Failed
  <2> QED
    BY <1>2, <1>5, <2>1 DEF D!vars
<1> QED
  BY <1>3, <1>7, <1>8, <1>9

\* A crash of go-chat leaves requests without an answer.
LEMMA ApiFaultUnseen ==
  ASSUME Sound, [Next]_vars, ApiFault
  PROVE  UNCHANGED D!vars
<1>1. (M!ApiCrash \/ M!ApiLinkLost) /\ UNCHANGED indexVars
  BY DEF ApiFault
<1>2. UNCHANGED Searchable
  BY <1>1, SearchableStays DEF indexVars
<1>3. UNCHANGED messages
  BY <1>1 DEF M!ApiCrash, M!ApiLinkLost, M!storeVars
<1>4. ASSUME NEW q \in Requests
      PROVE  \/ phase'[q] = phase[q]
             \/ phase[q] \in {"numbered", "queued"} /\ phase'[q] = "cut"
  BY <1>1 DEF M!ApiCrash, M!ApiLinkLost
<1>5. Accepted' = Accepted
  BY <1>4 DEF Accepted
<1>6. Failed' = Failed
  BY <1>4 DEF Failed
<1>7. UNCHANGED Stored
  BY <1>3 DEF Stored
<1> QED
  BY <1>2, <1>5, <1>6, <1>7 DEF D!vars

\* A message worker stores what was published.
LEMMA WorkerStores ==
  ASSUME Sound, [Next]_vars, UNCHANGED <<phase, docs>>
  PROVE  (\E r \in Requests : D!Store(r)) \/ UNCHANGED D!vars
<1>1. UNCHANGED <<Accepted, Failed, Searchable>>
  BY SearchableStays DEF Accepted, Failed
<1>2. CASE UNCHANGED messages
  BY <1>1, <1>2 DEF Stored, D!vars
<1>3. ASSUME NEW w \in Workers, MP!Inserts(w)
      PROVE  \E r \in Requests : D!Store(r)
  <2>1. /\ step[w] = "insert"
        /\ messages' = messages \cup {MP!RowOf(msg[w])}
        /\ MP!RowOf(msg[w]).request = msg[w].request
    BY <1>3 DEF MP!Inserts, MP!RowOf
  <2>2. msg[w].request \in Requests \ Failed
    BY <2>1 DEF Sound, MP!StateOK, MP!Message, MP!Origins, MP!Sent, MP!Gone, Failed
  <2>3. Stored' = Stored \cup {msg[w].request}
    BY <2>1 DEF Stored
  <2> QED
    BY <1>1, <2>2, <2>3 DEF D!Store
<1> QED
  BY <1>2, <1>3, StepIs, Assumed, PipelineAssumption, MP!RowsGrow
  DEF Sound, M!Message, M!MessageRow

\* A flush makes searchable what is stored.
LEMMA FlushIndexes ==
  ASSUME Sound, [Next]_vars, UNCHANGED messageVars, docs \subseteq docs'
  PROVE  \E some \in SUBSET Stored : D!Index(some)
<1>1. UNCHANGED <<Accepted, Failed, Stored>>
  BY DEF messageVars, Accepted, Failed, Stored
<1>2. Searchable \subseteq Searchable'
  <2>1. \A m \in docs : RowOf(m)' = RowOf(m)
    BY Places, RowsStay
  <2> QED
    BY <2>1 DEF Searchable
<1>3. Searchable' \subseteq Stored
  BY <1>1, SoundStep, SearchableIsStoredNext
<1>4. D!Index(Searchable')
  BY <1>1, <1>2, <1>3 DEF D!Index
<1> QED
  BY <1>3, <1>4

LEMMA DeliveryStep ==
  ASSUME Sound, [Next]_vars
  PROVE  [D!Next]_(D!vars)
<1>1. CASE UNCHANGED vars
  <2>1. UNCHANGED <<phase, docs, messages>>
    BY <1>1 DEF vars, messageVars, indexVars
  <2> QED
    BY <2>1, WorkerStores DEF D!Next
<1>2. CASE (\E r \in Requests : Handler(r)) \/ ApiFault
  BY <1>2, HandlerAnswers, ApiFaultUnseen DEF D!Next
<1>3. ASSUME UNCHANGED <<phase, docs>>
      PROVE  [D!Next]_(D!vars)
  BY <1>3, WorkerStores DEF D!Next
<1>4. ASSUME NEW c \in Created, ChatPersisted(c)
      PROVE  UNCHANGED <<phase, docs>>
  BY <1>4 DEF ChatPersisted, M!ChatPersisted, M!apiVars, indexVars
<1>5. ASSUME NEW w \in Workers, MessageStep(w) \/ MessageFault(w) \/ QueueForIndexing(w)
      PROVE  UNCHANGED <<phase, docs>>
  <2>1. M!MessageWorker(w) \/ M!HandlerFault(w)
    BY <1>5 DEF MessageStep, MessageFault, QueueForIndexing, M!MessageWorker
  <2>2. UNCHANGED phase
    BY <2>1, SameWorker, SameHandlerFault, MP!WorkerMoves, Assumed, PipelineAssumption
    DEF Sound, M!Message, M!MessageRow
  <2>3. UNCHANGED docs
    BY <1>5 DEF MessageStep, MessageFault, QueueForIndexing, I!Publish, indexVars
  <2> QED
    BY <2>2, <2>3
<1>6. ASSUME NEW w \in Workers, LinkLost(w) \/ Exit(w) \/ Crash(w)
      PROVE  UNCHANGED <<phase, docs>>
  BY <1>6, BothSides DEF LinkLost, Exit, Crash, M!WorkerLinkLost, M!End, M!apiVars
<1>7. ASSUME NEW w \in Workers, Consumer(w) \/ Tick(w) \/ Terminate(w)
      PROVE  UNCHANGED <<phase, docs>>
  BY <1>7 DEF Consumer, Tick, Terminate, I!Consumer, I!Deliver, I!AppendToBatch, I!Ack, I!Nack,
    I!Tick, I!TickerReturns, I!Terminate, messageVars
<1>8. ASSUME NEW t \in I!Threads, Flush(t) \/ FlushFault(t)
      PROVE  [D!Next]_(D!vars)
  <2>1. UNCHANGED messageVars /\ docs \subseteq docs'
    BY <1>8 DEF Flush, FlushFault, I!Flush, I!FlushFault, I!TakeBatch, I!BulkIndex,
      I!RestoreBatch, I!BulkIndexPartial, I!BulkIndexFails
  <2> QED
    BY <2>1, FlushIndexes DEF D!Next
<1> QED
  BY <1>1, <1>2, <1>3, <1>4, <1>5, <1>6, <1>7, <1>8 DEF Next

\* Whatever fails, for any number of processes and messages, and although a
\* message may be stored before its client has the answer, or go-chat die
\* before it gives one: what is answered with an error is never stored, every
\* document has its row, and answers, rows and documents are not taken back.
\* Rows come from messages that were published (MessageCreation's Origins),
\* which a request that fails never is; a document's row was published before
\* the document (Indexing's Known), and what was published stays what it was.
THEOREM PipelineImplementsDelivery == Spec => ImplementsDelivery
  BY SoundHolds, DeliveryInit, DeliveryStep, PTL DEF Spec, ImplementsDelivery, D!Spec

===============================================================================
