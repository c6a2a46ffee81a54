------------------------- MODULE ChatCreationProofs -------------------------
(***************************************************************************)
(* Proofs about ChatCreation, for every value of its constants.            *)
(***************************************************************************)
EXTENDS ChatCreation, FiniteSetTheorems, TLAPS

-----------------------------------------------------------------------------
(***************************************************************************)
(* Typing.                                                                 *)
(***************************************************************************)

\* What an INSERT leaves in the table.
LEMMA InsertedType ==
  ASSUME TypeOK, NEW w \in Workers, step[w] = "insert"
  PROVE  Inserted(msg[w]) \subseteq ChatRow /\ IsFiniteSet(Inserted(msg[w]))
<1>1. msg[w] \in ChatMessage /\ AppOf[msg[w].token] \in Apps
  BY DEF TypeOK
<1>2. Cardinality(chats) \in Nat /\ IsFiniteSet(chats)
  BY FS_CardinalityType DEF TypeOK
<1>3. RowOf(msg[w]) \in ChatRow
  BY <1>1, <1>2 DEF RowOf, ChatMessage, ChatRow
<1>4. IsFiniteSet(chats \cup {RowOf(msg[w])})
  BY <1>2, FS_AddElement
<1> QED
  BY <1>2, <1>3, <1>4 DEF Inserted, TypeOK

\* Nothing but a step of a handler, of a worker or of the environment changes
\* the state, and a worker that is not idle has a message.
LEMMA TypeStep == TypeOK /\ [Next]_vars => TypeOK'
<1> SUFFICES ASSUME TypeOK, [Next]_vars PROVE TypeOK'
  OBVIOUS
<1> USE ChatAssumption DEF TypeOK, Phases, Steps, ChatMessage, ChatRow
<1>1. CASE UNCHANGED vars
  BY <1>1 DEF vars, apiVars, redisVars, brokerVars, workerVars, faultVars
<1>2. ASSUME NEW r \in Requests, Handler(r) PROVE TypeOK'
  <2>1. CASE IncrementChatCounter(r)
    BY <2>1 DEF IncrementChatCounter, NoFault, brokerVars, workerVars, faultVars
  <2>2. CASE IncrementDisturbed(r)
    <3>1. PICK k \in 0..Sends :
            /\ chatCounter' = [chatCounter EXCEPT ![token[r]] = @ + k]
            /\ \/ /\ k > 0
                  /\ number' = [number EXCEPT ![r] = chatCounter[token[r]] + k]
                  /\ phase' = [phase EXCEPT ![r] = "numbered"]
               \/ /\ phase' = [phase EXCEPT ![r] = "failed"]
                  /\ UNCHANGED number
      BY <2>2 DEF IncrementDisturbed
    <3>2. chatCounter' \in [Tokens -> Nat] /\ number' \in [Requests -> Nat]
      BY <3>1
    <3> QED
      BY <2>2, <3>1, <3>2 DEF IncrementDisturbed, Fault, FaultKinds, brokerVars, workerVars
  <2>3. CASE PublishChat(r)
    BY <2>3 DEF PublishChat, NoFault, redisVars, workerVars, faultVars
  <2>4. CASE PublishUnconfirmed(r)
    <3>1. apiLinked' \in BOOLEAN
      BY <2>4, Zenon DEF PublishUnconfirmed
    <3> QED
      BY <2>4, <3>1 DEF PublishUnconfirmed, Fault, FaultKinds, redisVars, brokerVars, workerVars
  <2>5. CASE PublishFails(r)
    BY <2>5 DEF PublishFails, NoFault, redisVars, brokerVars, workerVars, faultVars
  <2> QED
    BY <1>2, <2>1, <2>2, <2>3, <2>4, <2>5 DEF Handler
<1>3. ASSUME NEW w \in Workers, ChatWorker(w) PROVE TypeOK'
  <2>1. CASE Deliver(w)
    BY <2>1 DEF Deliver, Goto, NoFault, AtFront, apiVars, redisVars, faultVars
  <2>2. CASE FindApp(w)
    BY <2>2 DEF FindApp, Goto, NoFault, apiVars, redisVars, brokerVars, faultVars
  <2>3. CASE FindChat(w)
    BY <2>3 DEF FindChat, Goto, NoFault, apiVars, redisVars, brokerVars, faultVars
  <2>4. CASE CreateChat(w)
    <3>1. chats' \subseteq ChatRow /\ IsFiniteSet(chats')
      BY <2>4, InsertedType DEF CreateChat, Goto
    <3> QED
      BY <2>4, <3>1 DEF CreateChat, Goto, NoFault, apiVars, redisVars, brokerVars, faultVars
  <2>5. CASE IncrementCounter(w)
    BY <2>5 DEF IncrementCounter, Goto, NoFault, apiVars, brokerVars, faultVars
  <2>6. CASE Ack(w)
    BY <2>6 DEF Ack, Goto, NoFault, apiVars, redisVars, brokerVars, faultVars
  <2>7. CASE Nack(w)
    BY <2>7 DEF Nack, Goto, NoFault, apiVars, redisVars, faultVars
  <2> QED
    BY <1>3, <2>1, <2>2, <2>3, <2>4, <2>5, <2>6, <2>7 DEF ChatWorker
<1>4. ASSUME NEW w \in Workers, WorkerFault(w) PROVE TypeOK'
  <2>1. CASE FindAppFails(w)
    BY <2>1 DEF FindAppFails, Goto, Fault, FaultKinds, apiVars, redisVars, brokerVars
  <2>2. CASE FindChatFails(w)
    BY <2>2 DEF FindChatFails, Goto, Fault, FaultKinds, apiVars, redisVars, brokerVars
  <2>3. CASE CreateChatFails(w)
    <3>1. chats' \subseteq ChatRow /\ IsFiniteSet(chats')
      BY <2>3, InsertedType DEF CreateChatFails, Goto
    <3> QED
      BY <2>3, <3>1
      DEF CreateChatFails, Goto, Fault, FaultKinds, apiVars, redisVars, brokerVars
  <2>4. CASE IncrementCounterDisturbed(w)
    <3>1. PICK k \in 0..Sends :
            deltaChats' = [deltaChats EXCEPT ![AppOf[msg[w].token]] = @ + k]
      BY <2>4 DEF IncrementCounterDisturbed
    <3>2. deltaChats' \in [Apps -> Nat]
      BY <2>4, <3>1 DEF IncrementCounterDisturbed, Goto
    <3> QED
      BY <2>4, <3>2
      DEF IncrementCounterDisturbed, Goto, Fault, FaultKinds, apiVars, brokerVars
  <2>5. CASE WorkerLinkLost(w)
    BY <2>5 DEF WorkerLinkLost, Unacked, Fault, FaultKinds, apiVars, redisVars
  <2>6. CASE CrashAndRestart(w)
    BY <2>6 DEF CrashAndRestart, Unacked, Fault, FaultKinds, apiVars, redisVars
  <2> QED
    BY <1>4, <2>1, <2>2, <2>3, <2>4, <2>5, <2>6 DEF WorkerFault
<1>5. CASE Environment
  <2>1. CASE ApiLinkLost
    <3>1. apiLinked' \in BOOLEAN
      BY <2>1, Zenon DEF ApiLinkLost
    <3> QED
      BY <2>1, <3>1 DEF ApiLinkLost, Fault, FaultKinds, redisVars, brokerVars, workerVars
  <2>2. CASE BrokerRestart
    <3>1. apiLinked' \in BOOLEAN /\ linked' \in [Workers -> BOOLEAN]
      BY <2>2, Zenon DEF BrokerRestart
    <3> QED
      BY <2>2, <3>1 DEF BrokerRestart, Fault, FaultKinds, redisVars
  <2>3. CASE RedisSnapshot
    BY <2>3 DEF RedisSnapshot, NoFault, apiVars, brokerVars, workerVars, faultVars
  <2>4. CASE RedisRestart
    BY <2>4 DEF RedisRestart, Fault, FaultKinds, apiVars, brokerVars, workerVars
  <2> QED
    BY <1>5, <2>1, <2>2, <2>3, <2>4 DEF Environment
<1> QED
  BY <1>1, <1>2, <1>3, <1>4, <1>5 DEF Next

\* The variables stay within their types, a worker at work holds a message,
\* and behind the application lookup it knows the application.
THEOREM TypeCorrect == Spec => []TypeOK
<1>1. Init => TypeOK
  BY ChatAssumption, FS_EmptySet
  DEF Init, TypeOK, Phases, Steps, ChatMessage, ChatRow, FaultKinds
<1> QED
  BY <1>1, TypeStep, PTL DEF Spec

-----------------------------------------------------------------------------
(***************************************************************************)
(* What every step leaves alone.                                           *)
(***************************************************************************)

\* A request keeps its token, and its number once it has one; it stays
\* accepted; a failure, once it happened, has happened.
LEMMA Stable ==
  ASSUME TypeOK, [Next]_vars
  PROVE  /\ token' = token
         /\ happened \subseteq happened'
         /\ \A r \in Requests :
              /\ phase[r] # "new" => number'[r] = number[r]
              /\ phase[r] = "accepted" => phase'[r] = "accepted"
<1> USE DEF TypeOK
<1>1. CASE UNCHANGED vars
  BY <1>1 DEF vars, apiVars, faultVars
<1>2. ASSUME NEW r \in Requests, Handler(r)
      PROVE  /\ token' = token
             /\ happened \subseteq happened'
             /\ \A q \in Requests :
                  /\ phase[q] # "new" => number'[q] = number[q]
                  /\ phase[q] = "accepted" => phase'[q] = "accepted"
  BY <1>2 DEF Handler, IncrementChatCounter, IncrementDisturbed, PublishChat,
              PublishUnconfirmed, PublishFails, Fault, NoFault, faultVars
<1>3. ASSUME NEW w \in Workers, ChatWorker(w)
      PROVE  UNCHANGED <<token, phase, number, happened>>
  BY <1>3 DEF ChatWorker, Deliver, FindApp, FindChat, CreateChat, IncrementCounter,
              Ack, Nack, NoFault, faultVars, apiVars
<1>4. ASSUME NEW w \in Workers, WorkerFault(w)
      PROVE  UNCHANGED <<token, phase, number>> /\ happened \subseteq happened'
  BY <1>4 DEF WorkerFault, FindAppFails, FindChatFails, CreateChatFails,
              IncrementCounterDisturbed, WorkerLinkLost, CrashAndRestart, Fault, apiVars
<1>5. CASE Environment
  BY <1>5 DEF Environment, ApiLinkLost, BrokerRestart, RedisSnapshot, RedisRestart,
              Fault, NoFault, faultVars, apiVars
<1> QED
  BY <1>1, <1>2, <1>3, <1>4, <1>5 DEF Next

\* A row is never removed, and a step adds at most the row of a message that
\* a worker is about to insert.
LEMMA RowsGrow ==
  ASSUME TypeOK, [Next]_vars
  PROVE  \/ chats' = chats
         \/ \E w \in Workers :
              /\ step[w] = "insert"
              /\ step' = [step EXCEPT ![w] = step'[w]]
              /\ step'[w] # "insert"
              /\ UNCHANGED <<msg, chatsQueue>>
              /\ chats' = Inserted(msg[w])
<1> USE DEF TypeOK
<1>1. CASE UNCHANGED vars
  BY <1>1 DEF vars
<1>2. ASSUME NEW r \in Requests, Handler(r) PROVE chats' = chats
  BY <1>2 DEF Handler, IncrementChatCounter, IncrementDisturbed, PublishChat,
              PublishUnconfirmed, PublishFails
<1>3. ASSUME NEW w \in Workers, ChatWorker(w), ~CreateChat(w) PROVE chats' = chats
  BY <1>3 DEF ChatWorker, Deliver, FindApp, FindChat, IncrementCounter, Ack, Nack
<1>4. ASSUME NEW w \in Workers, WorkerFault(w), ~CreateChatFails(w) PROVE chats' = chats
  BY <1>4 DEF WorkerFault, FindAppFails, FindChatFails,
              IncrementCounterDisturbed, WorkerLinkLost, CrashAndRestart
<1>5. CASE Environment
  BY <1>5 DEF Environment, ApiLinkLost, BrokerRestart, RedisSnapshot, RedisRestart
<1>6. ASSUME NEW w \in Workers, CreateChat(w) \/ CreateChatFails(w)
      PROVE  \/ chats' = chats
             \/ /\ step[w] = "insert"
                /\ step' = [step EXCEPT ![w] = step'[w]]
                /\ step'[w] # "insert"
                /\ UNCHANGED <<msg, chatsQueue>>
                /\ chats' = Inserted(msg[w])
  BY <1>6 DEF CreateChat, CreateChatFails, Goto, brokerVars
<1> QED
  BY <1>1, <1>2, <1>3, <1>4, <1>5, <1>6 DEF Next

-----------------------------------------------------------------------------
(***************************************************************************)
(* Accepted chats are not lost.                                            *)
(***************************************************************************)

LEMMA RowsStay ==
  ASSUME TypeOK, [Next]_vars
  PROVE  chats \subseteq chats'
BY RowsGrow DEF Inserted

\* A worker that is about to acknowledge a message has seen or made its row,
\* or there is no application to make it for.
AckJustified ==
  \/ Unless({"db_read"})
  \/ \A w \in Workers :
       step[w] \in {"incr", "ack"} => AppOf[msg[w].token] = NoApp \/ ChatExists(msg[w])

\* An INSERT leaves a row for its message.
LEMMA InsertedHolds ==
  ASSUME NEW m PROVE \E c \in Inserted(m) : IsChatOf(c, m)
<1>1. CASE Duplicate(m)
  BY <1>1 DEF Inserted, Duplicate, ChatExists
<1>2. CASE ~Duplicate(m)
  <2>1. RowOf(m) \in Inserted(m) /\ IsChatOf(RowOf(m), m)
    BY <1>2 DEF Inserted, RowOf, IsChatOf
  <2> QED
    BY <2>1
<1> QED
  BY <1>1, <1>2

LEMMA AckJustifiedStep ==
  ASSUME TypeOK, [Next]_vars, AckJustified
  PROVE  AckJustified'
<1> SUFFICES ASSUME ~Unless({"db_read"})', NEW v \in Workers, step'[v] \in {"incr", "ack"}
             PROVE  AppOf[msg'[v].token] = NoApp \/ ChatExists(msg[v])'
  BY DEF AckJustified, ChatExists
<1> USE DEF TypeOK
<1>0. /\ chats \subseteq chats'
      /\ step[v] \in {"incr", "ack"} => AppOf[msg[v].token] = NoApp \/ ChatExists(msg[v])
  BY RowsStay, Stable DEF AckJustified, Unless
<1>1. CASE UNCHANGED <<step, msg>>
  BY <1>0, <1>1 DEF ChatExists
<1>2. ASSUME NEW w \in Workers, ChatWorker(w)
      PROVE  AppOf[msg'[v].token] = NoApp \/ ChatExists(msg[v])'
  <2>1. CASE Deliver(w)
    BY <1>0, <2>1 DEF Deliver, Goto, ChatExists
  <2>2. CASE FindApp(w)
    BY <1>0, <2>2 DEF FindApp, Goto, ChatExists
  <2>3. CASE FindChat(w)
    BY <1>0, <2>3 DEF FindChat, Goto, ChatExists
  <2>4. CASE CreateChat(w)
    <3>1. \E c \in chats' : IsChatOf(c, msg[w])
      BY <2>4, InsertedHolds DEF CreateChat
    <3> QED
      BY <1>0, <2>4, <3>1 DEF CreateChat, Goto, ChatExists, IsChatOf
  <2>5. CASE IncrementCounter(w)
    BY <1>0, <2>5 DEF IncrementCounter, Goto, ChatExists
  <2>6. CASE Ack(w)
    BY <1>0, <2>6 DEF Ack, Goto, ChatExists
  <2>7. CASE Nack(w)
    BY <1>0, <2>7 DEF Nack, Goto, ChatExists
  <2> QED
    BY <1>2, <2>1, <2>2, <2>3, <2>4, <2>5, <2>6, <2>7 DEF ChatWorker
<1>3. ASSUME NEW w \in Workers, WorkerFault(w)
      PROVE  AppOf[msg'[v].token] = NoApp \/ ChatExists(msg[v])'
  <2>1. CASE CreateChatFails(w)
    BY <1>0, <2>1 DEF CreateChatFails, Goto, ChatExists
  <2>2. CASE IncrementCounterDisturbed(w)
    BY <1>0, <2>2 DEF IncrementCounterDisturbed, Goto, ChatExists
  <2>3. CASE WorkerLinkLost(w)
    BY <1>0, <2>3 DEF WorkerLinkLost, ChatExists
  <2>4. CASE CrashAndRestart(w)
    BY <1>0, <2>4 DEF CrashAndRestart, ChatExists
  <2>5. ~FindAppFails(w) /\ ~FindChatFails(w)
    BY DEF FindAppFails, FindChatFails, Fault, Unless
  <2> QED
    BY <1>3, <2>1, <2>2, <2>3, <2>4, <2>5 DEF WorkerFault
<1>4. ASSUME NEW r \in Requests, Handler(r) PROVE UNCHANGED <<step, msg>>
  BY <1>4 DEF Handler, IncrementChatCounter, IncrementDisturbed, PublishChat,
              PublishUnconfirmed, PublishFails, workerVars
<1>5. Environment => UNCHANGED <<step, msg>>
  BY DEF Environment, ApiLinkLost, BrokerRestart, RedisSnapshot, RedisRestart, workerVars
<1>6. UNCHANGED vars => UNCHANGED <<step, msg>>
  BY DEF vars, workerVars
<1> QED
  BY <1>1, <1>2, <1>3, <1>4, <1>5, <1>6 DEF Next

\* The kinds of failure that can lose a chat after its 201.
Losses == {"db_read", "api_link", "broker"}

LEMMA AcceptedNotLostStep ==
  ASSUME TypeOK, [Next]_vars, AckJustified, AcceptedNotLost
  PROVE  AcceptedNotLost'
<1> SUFFICES ASSUME ~Unless(Losses)', NEW q \in Requests,
                    phase'[q] = "accepted", AppOf[token[q]] # NoApp
             PROVE  Queued(q)' \/ Unsettled(q)' \/ Persisted(q)'
  BY Stable DEF AcceptedNotLost, Losses
<1> USE DEF TypeOK
<1>0. ~Unless(Losses) /\ ~Unless({"db_read"}) /\ token' = token
  BY Stable DEF Unless, Losses
<1>1. ASSUME phase[q] = "accepted"
      PROVE  Queued(q) \/ Unsettled(q) \/ Persisted(q)
  BY <1>0, <1>1 DEF AcceptedNotLost, Losses
<1>2. Persisted(q) => Persisted(q)' \/ phase[q] # "accepted"
  BY RowsStay, Stable DEF Persisted
<1>3. ASSUME UNCHANGED <<phase, number, linked, step, msg>>, chatsQueue \subseteq chatsQueue'
      PROVE  Queued(q)' \/ Unsettled(q)' \/ Persisted(q)'
  BY <1>0, <1>1, <1>2, <1>3 DEF Queued, Unsettled, AsksFor
<1>4. ASSUME NEW r \in Requests, Handler(r)
      PROVE  Queued(q)' \/ Unsettled(q)' \/ Persisted(q)'
  <2>1. UNCHANGED <<linked, step, msg>> /\ chatsQueue \subseteq chatsQueue'
    BY <1>4 DEF Handler, IncrementChatCounter, IncrementDisturbed, PublishChat,
                PublishUnconfirmed, PublishFails, workerVars, brokerVars
  <2>2. CASE phase[q] = "accepted"
    <3>1. number'[q] = number[q]
      BY <2>2, Stable
    <3> QED
      BY <1>0, <1>1, <1>2, <2>1, <2>2, <3>1 DEF Queued, Unsettled, AsksFor
  <2>3. CASE phase[q] # "accepted"
    <3>1. ~PublishUnconfirmed(r)
      BY DEF PublishUnconfirmed, Fault, Unless, Losses
    <3>2. PublishChat(q)
      BY <1>4, <2>3, <3>1 DEF Handler, IncrementChatCounter, IncrementDisturbed,
                               PublishChat, PublishFails
    <3> QED
      <4> DEFINE m == [pos |-> published, token |-> token[q], number |-> number[q]]
      <4>1. m \in chatsQueue' /\ m.token = token[q] /\ m.number = number'[q]
        BY <3>2 DEF PublishChat
      <4> QED
        BY <1>0, <4>1 DEF Queued, AsksFor
  <2> QED
    BY <2>2, <2>3
<1>5. ASSUME NEW w \in Workers, ChatWorker(w)
      PROVE  Queued(q)' \/ Unsettled(q)' \/ Persisted(q)'
  <2>0. UNCHANGED <<phase, number>>
    BY <1>5 DEF ChatWorker, Deliver, FindApp, FindChat, CreateChat, IncrementCounter,
                Ack, Nack, apiVars
  <2>1. CASE Deliver(w)
    BY <1>0, <1>1, <1>2, <2>0, <2>1 DEF Deliver, Goto, Queued, Unsettled, AsksFor
  <2>2. ASSUME UNCHANGED <<chatsQueue, linked, msg>>, Goto(w, step[w], step'[w]), step'[w] # "idle"
        PROVE  Queued(q)' \/ Unsettled(q)' \/ Persisted(q)'
    BY <1>0, <1>1, <1>2, <2>0, <2>2 DEF Goto, Queued, Unsettled, AsksFor
  <2>3. FindApp(w) \/ FindChat(w) \/ CreateChat(w) \/ IncrementCounter(w)
          => /\ UNCHANGED <<chatsQueue, linked, msg>>
             /\ Goto(w, step[w], step'[w])
             /\ step'[w] # "idle"
    BY DEF FindApp, FindChat, CreateChat, IncrementCounter, Goto, brokerVars
  <2>4. CASE Ack(w)
    <3>1. AppOf[msg[w].token] = NoApp \/ ChatExists(msg[w])
      BY <1>0, <2>4 DEF Ack, Goto, AckJustified
    <3>2. AsksFor(msg[w], q) => Persisted(q)
      BY <3>1 DEF AsksFor, ChatExists, IsChatOf, Persisted
    <3>3. UNCHANGED <<linked, chatsQueue>> /\ \A v \in Workers : v # w =>
            step'[v] = step[v] /\ msg'[v] = msg[v]
      BY <2>4 DEF Ack, Goto, brokerVars
    <3>4. phase[q] = "accepted"
      BY <2>0
    <3> QED
      BY <1>0, <1>1, <1>2, <2>0, <3>2, <3>3, <3>4 DEF Queued, Unsettled, AsksFor
  <2>5. CASE Nack(w)
    BY <1>0, <1>1, <1>2, <2>0, <2>5 DEF Nack, Goto, Queued, Unsettled, AsksFor
  <2> QED
    BY <1>5, <2>1, <2>2, <2>3, <2>4, <2>5 DEF ChatWorker
<1>6. ASSUME NEW w \in Workers, WorkerFault(w)
      PROVE  Queued(q)' \/ Unsettled(q)' \/ Persisted(q)'
  <2>0. UNCHANGED <<phase, number>>
    BY <1>6 DEF WorkerFault, FindAppFails, FindChatFails, CreateChatFails,
                IncrementCounterDisturbed, WorkerLinkLost, CrashAndRestart, apiVars
  <2>1. CASE CreateChatFails(w) \/ IncrementCounterDisturbed(w)
    BY <1>0, <1>1, <1>2, <2>0, <2>1
    DEF CreateChatFails, IncrementCounterDisturbed, Goto, brokerVars,
        Queued, Unsettled, AsksFor
  <2>2. CASE WorkerLinkLost(w)
    BY <1>0, <1>1, <1>2, <2>0, <2>2 DEF WorkerLinkLost, Unacked, Queued, Unsettled, AsksFor
  <2>3. CASE CrashAndRestart(w)
    BY <1>0, <1>1, <1>2, <2>0, <2>3 DEF CrashAndRestart, Unacked, Queued, Unsettled, AsksFor
  <2>4. ~FindAppFails(w) /\ ~FindChatFails(w)
    BY DEF FindAppFails, FindChatFails, Fault, Unless, Losses
  <2> QED
    BY <1>6, <2>1, <2>2, <2>3, <2>4 DEF WorkerFault
<1>7. CASE Environment
  <2>1. ~ApiLinkLost /\ ~BrokerRestart
    BY DEF ApiLinkLost, BrokerRestart, Fault, Unless, Losses
  <2> QED
    BY <1>3, <1>7, <2>1 DEF Environment, RedisSnapshot, RedisRestart, apiVars,
                            brokerVars, workerVars
<1>8. CASE UNCHANGED vars
  BY <1>3, <1>8 DEF vars, apiVars, brokerVars, workerVars
<1> QED
  BY <1>4, <1>5, <1>6, <1>7, <1>8 DEF Next

\* A chat that was answered 201 stays in the queue, with a worker that has
\* not settled it, or in MySQL, as long as no SELECT fails, go-chat keeps its
\* channel and RabbitMQ does not restart: crashed workers, lost worker
\* channels, failed INSERTs and anything Redis does lose nothing.
THEOREM NothingAcceptedIsLost == Spec => []AcceptedNotLost
<1>1. Init => AckJustified /\ AcceptedNotLost
  BY DEF Init, AckJustified, AcceptedNotLost
<1>2. TypeOK /\ AckJustified /\ AcceptedNotLost /\ [Next]_vars
        => (AckJustified /\ AcceptedNotLost)'
  BY AckJustifiedStep, AcceptedNotLostStep
<1> QED
  BY <1>1, <1>2, TypeCorrect, PTL DEF Spec

-----------------------------------------------------------------------------
(***************************************************************************)
(* A number names one chat.  The invariant follows a message from the      *)
(* request that drew its number (Numbers, Origins) through the queue and   *)
(* the workers, where there is one copy of it (SingleCopy), to the insert, *)
(* which no other insert of the same number precedes (InsertFresh).        *)
(***************************************************************************)
Exceptions == {"db_read", "worker_link", "redis_restart"}

Numbered(r) == phase[r] \in {"numbered", "accepted"}

\* Requests of one token hold different numbers, none above the counter.
Numbers ==
  \/ Unless(Exceptions)
  \/ /\ \A r \in Requests : Numbered(r) => number[r] <= chatCounter[token[r]]
     /\ \A r, s \in Requests :
          Numbered(r) /\ Numbered(s) /\ token[r] = token[s] /\ number[r] = number[s] => r = s

Same(m, n)  == m.token = n.token /\ m.number = n.number
Holding(w)  == step[w] # "idle"
Accepted(m) == \E r \in Requests : phase[r] = "accepted" /\ AsksFor(m, r)

\* Every message was published by a request.
Origins ==
  /\ \A m \in chatsQueue : Accepted(m)
  /\ \A w \in Workers : Holding(w) => Accepted(msg[w])

\* A message is in one place.
SingleCopy ==
  \/ Unless(Exceptions)
  \/ /\ \A m, n \in chatsQueue : Same(m, n) => m = n
     /\ \A m \in chatsQueue, w \in Workers : Holding(w) => ~Same(m, msg[w])
     /\ \A v, w \in Workers : Holding(v) /\ Holding(w) /\ Same(msg[v], msg[w]) => v = w

\* The row that a worker is about to insert is not there.
InsertFresh ==
  \/ Unless(Exceptions)
  \/ \A w \in Workers :
       step[w] = "insert" /\ OneSpelling(AppOf[msg[w].token]) => ~ChatExists(msg[w])

LEMMA NumbersStep ==
  ASSUME TypeOK, [Next]_vars, Numbers
  PROVE  Numbers'
<1> SUFFICES ASSUME ~Unless(Exceptions)' PROVE Numbers'
  BY DEF Numbers
<1> USE DEF TypeOK
<1>0. /\ \A r \in Requests : Numbered(r) => number[r] <= chatCounter[token[r]]
      /\ \A r, s \in Requests :
           Numbered(r) /\ Numbered(s) /\ token[r] = token[s] /\ number[r] = number[s] => r = s
  BY Stable DEF Numbers, Unless
<1>1. ASSUME UNCHANGED <<phase, number, token, chatCounter>>
      PROVE  Numbers'
  BY <1>0, <1>1 DEF Numbers, Numbered
<1>2. ASSUME NEW r \in Requests, Handler(r) PROVE Numbers'
  <2>1. ASSUME NEW k \in Nat, k > 0, phase[r] = "new", token' = token,
               chatCounter' = [chatCounter EXCEPT ![token[r]] = @ + k],
               number' = [number EXCEPT ![r] = chatCounter[token[r]] + k],
               phase' = [phase EXCEPT ![r] = "numbered"]
        PROVE  Numbers'
    BY <1>0, <2>1 DEF Numbers, Numbered
  <2>2. ASSUME NEW k \in Nat, phase[r] = "new", UNCHANGED <<token, number>>,
               chatCounter' = [chatCounter EXCEPT ![token[r]] = @ + k],
               phase' = [phase EXCEPT ![r] = "failed"]
        PROVE  Numbers'
    BY <1>0, <2>2 DEF Numbers, Numbered
  <2>3. CASE IncrementChatCounter(r)
    BY <1>0, <2>3 DEF IncrementChatCounter, Numbers, Numbered
  <2>4. CASE IncrementDisturbed(r)
    <3>1. PICK k \in 0..Sends :
            /\ chatCounter' = [chatCounter EXCEPT ![token[r]] = @ + k]
            /\ \/ /\ k > 0
                  /\ number' = [number EXCEPT ![r] = chatCounter[token[r]] + k]
                  /\ phase' = [phase EXCEPT ![r] = "numbered"]
               \/ /\ phase' = [phase EXCEPT ![r] = "failed"]
                  /\ UNCHANGED number
      BY <2>4 DEF IncrementDisturbed
    <3>2. k \in Nat /\ phase[r] = "new" /\ token' = token
      BY <2>4, ChatAssumption DEF IncrementDisturbed
    <3> QED
      BY <2>1, <2>2, <3>1, <3>2
  <2>5. CASE PublishChat(r) \/ PublishUnconfirmed(r) \/ PublishFails(r)
    BY <1>0, <2>5 DEF PublishChat, PublishUnconfirmed, PublishFails, redisVars,
                      Numbers, Numbered
  <2> QED
    BY <1>2, <2>3, <2>4, <2>5 DEF Handler
<1>3. ASSUME NEW w \in Workers, ChatWorker(w) \/ WorkerFault(w) PROVE Numbers'
  <2>1. UNCHANGED <<phase, number, token, chatCounter>>
    BY <1>3 DEF ChatWorker, Deliver, FindApp, FindChat, CreateChat, IncrementCounter,
                Ack, Nack, WorkerFault, FindAppFails, FindChatFails, CreateChatFails,
                IncrementCounterDisturbed, WorkerLinkLost, CrashAndRestart, apiVars, redisVars
  <2> QED
    BY <1>1, <2>1
<1>4. CASE Environment
  <2>1. ~RedisRestart
    BY DEF RedisRestart, Fault, Unless, Exceptions
  <2>2. UNCHANGED <<phase, number, token, chatCounter>>
    BY <1>4, <2>1 DEF Environment, ApiLinkLost, BrokerRestart, RedisSnapshot, apiVars, redisVars
  <2> QED
    BY <1>1, <2>2
<1>5. CASE UNCHANGED vars
  BY <1>1, <1>5 DEF vars, apiVars, redisVars
<1> QED
  BY <1>2, <1>3, <1>4, <1>5 DEF Next

\* The messages of a step's second state: those of the first, moved between
\* the queue and the workers, and the one that a request publishes.
LEMMA MessagesMove ==
  ASSUME TypeOK, [Next]_vars
  PROVE  \/ /\ \A m \in chatsQueue' :
               m \in chatsQueue \/ \E w \in Workers : Holding(w) /\ m = msg[w]
            /\ \A w \in Workers : step'[w] # "idle" =>
                 (Holding(w) /\ msg'[w] = msg[w]) \/ msg'[w] \in chatsQueue
         \/ \E r \in Requests :
              /\ phase[r] = "numbered"
              /\ phase'[r] = "accepted"
              /\ chatsQueue' = chatsQueue \cup
                   {[pos |-> published, token |-> token[r], number |-> number[r]]}
              /\ UNCHANGED <<step, msg>>
<1> USE DEF TypeOK, Holding
<1>1. CASE UNCHANGED vars
  BY <1>1 DEF vars, brokerVars, workerVars
<1>2. ASSUME NEW r \in Requests, Handler(r)
      PROVE  \/ UNCHANGED <<chatsQueue, step, msg>>
             \/ /\ phase[r] = "numbered"
                /\ phase'[r] = "accepted"
                /\ chatsQueue' = chatsQueue \cup
                     {[pos |-> published, token |-> token[r], number |-> number[r]]}
                /\ UNCHANGED <<step, msg>>
  BY <1>2 DEF Handler, IncrementChatCounter, IncrementDisturbed, PublishChat,
              PublishUnconfirmed, PublishFails, workerVars, brokerVars
<1>3. ASSUME NEW w \in Workers, ChatWorker(w) \/ WorkerFault(w)
      PROVE  /\ \A m \in chatsQueue' : m \in chatsQueue \/ (Holding(w) /\ m = msg[w])
             /\ \A v \in Workers : step'[v] # "idle" =>
                  (Holding(v) /\ msg'[v] = msg[v]) \/ msg'[v] \in chatsQueue
  <2>1. CASE Deliver(w)
    BY <2>1 DEF Deliver, Goto
  <2>2. CASE FindApp(w) \/ FindChat(w) \/ CreateChat(w) \/ IncrementCounter(w)
    BY <2>2 DEF FindApp, FindChat, CreateChat, IncrementCounter, Goto, brokerVars
  <2>3. CASE Ack(w) \/ Nack(w)
    BY <2>3 DEF Ack, Nack, Goto, brokerVars
  <2>4. CASE FindAppFails(w) \/ FindChatFails(w) \/ CreateChatFails(w) \/ IncrementCounterDisturbed(w)
    BY <2>4 DEF FindAppFails, FindChatFails, CreateChatFails, IncrementCounterDisturbed,
                Goto, brokerVars
  <2>5. CASE WorkerLinkLost(w) \/ CrashAndRestart(w)
    BY <2>5 DEF WorkerLinkLost, CrashAndRestart, Unacked
  <2> QED
    BY <1>3, <2>1, <2>2, <2>3, <2>4, <2>5 DEF ChatWorker, WorkerFault
<1>4. CASE Environment
  BY <1>4 DEF Environment, ApiLinkLost, BrokerRestart, RedisSnapshot, RedisRestart,
              brokerVars, workerVars
<1> QED
  BY <1>1, <1>2, <1>3, <1>4 DEF Next

LEMMA OriginsStep ==
  ASSUME TypeOK, [Next]_vars, Origins
  PROVE  Origins'
<1> USE DEF TypeOK
<1>1. ASSUME NEW m \in ChatMessage, Accepted(m)
      PROVE  \E r \in Requests :
               phase'[r] = "accepted" /\ m.token = token'[r] /\ m.number = number'[r]
  BY <1>1, Stable DEF Accepted, AsksFor
<1>2. ASSUME NEW m \in chatsQueue'
      PROVE  \E r \in Requests :
               phase'[r] = "accepted" /\ m.token = token'[r] /\ m.number = number'[r]
  <2>1. ASSUME NEW r \in Requests, phase[r] = "numbered", phase'[r] = "accepted",
               m = [pos |-> published, token |-> token[r], number |-> number[r]]
        PROVE  phase'[r] = "accepted" /\ m.token = token'[r] /\ m.number = number'[r]
    BY <2>1, Stable
  <2>2. CASE m \in ChatMessage /\ Accepted(m)
    BY <1>1, <2>2
  <2> QED
    BY <2>1, <2>2, MessagesMove DEF Origins, Holding
<1>3. ASSUME NEW w \in Workers, step'[w] # "idle"
      PROVE  \E r \in Requests : phase'[r] = "accepted" /\ AsksFor(msg[w], r)'
  <2>1. Accepted(msg'[w])
    BY <1>3, MessagesMove DEF Origins, Holding
  <2> QED
    BY <2>1, Stable DEF Accepted, AsksFor
<1> QED
  BY <1>2, <1>3 DEF Origins, Accepted, Holding, AsksFor

LEMMA SingleCopyStep ==
  ASSUME TypeOK, [Next]_vars, Numbers, Origins, SingleCopy
  PROVE  SingleCopy'
<1> SUFFICES ASSUME ~Unless(Exceptions)' PROVE SingleCopy'
  BY DEF SingleCopy
<1> USE DEF TypeOK
<1>0. /\ \A m, n \in chatsQueue : Same(m, n) => m = n
      /\ \A m \in chatsQueue, w \in Workers : step[w] # "idle" => ~Same(m, msg[w])
      /\ \A v, w \in Workers :
           step[v] # "idle" /\ step[w] # "idle" /\ Same(msg[v], msg[w]) => v = w
  BY Stable DEF SingleCopy, Unless, Holding
<1>1. ASSUME chatsQueue' \subseteq chatsQueue,
             \A w \in Workers : step'[w] # "idle" => step[w] # "idle" /\ msg'[w] = msg[w]
      PROVE  SingleCopy'
  BY <1>0, <1>1 DEF SingleCopy, Same, Holding
<1>2. ASSUME NEW r \in Requests, Handler(r) PROVE SingleCopy'
  <2>1. CASE PublishChat(r)
    <3> DEFINE new == [pos |-> published, token |-> token[r], number |-> number[r]]
    <3>1. ASSUME NEW m, Accepted(m) PROVE ~Same(m, new) /\ ~Same(new, m)
      BY <2>1, <3>1, Stable
      DEF PublishChat, Accepted, AsksFor, Numbers, Numbered, Unless, Same
    <3>2. chatsQueue' = chatsQueue \cup {new} /\ UNCHANGED <<step, msg>>
      BY <2>1 DEF PublishChat, workerVars
    <3> HIDE DEF new
    <3> QED
      BY <1>0, <3>1, <3>2 DEF SingleCopy, Origins, Holding, Same
  <2> QED
    BY <1>1, <1>2, <2>1 DEF Handler, IncrementChatCounter, IncrementDisturbed,
                            PublishUnconfirmed, PublishFails, workerVars, brokerVars
<1>3. ASSUME NEW w \in Workers, ChatWorker(w) \/ WorkerFault(w) PROVE SingleCopy'
  <2>1. CASE Deliver(w)
    BY <1>0, <2>1 DEF Deliver, Goto, SingleCopy, Same, Holding
  <2>2. CASE FindApp(w) \/ FindChat(w) \/ CreateChat(w) \/ IncrementCounter(w)
    BY <1>1, <2>2 DEF FindApp, FindChat, CreateChat, IncrementCounter, Goto, brokerVars
  <2>3. CASE Ack(w)
    BY <1>1, <2>3 DEF Ack, Goto, brokerVars
  <2>4. CASE Nack(w)
    BY <1>0, <2>4 DEF Nack, Goto, SingleCopy, Same, Holding
  <2>5. CASE CreateChatFails(w) \/ IncrementCounterDisturbed(w)
    BY <1>1, <2>5 DEF CreateChatFails, IncrementCounterDisturbed, Goto, brokerVars
  <2>6. CASE CrashAndRestart(w)
    BY <1>0, <2>6 DEF CrashAndRestart, Unacked, SingleCopy, Same, Holding
  <2>7. ~FindAppFails(w) /\ ~FindChatFails(w) /\ ~WorkerLinkLost(w)
    BY DEF FindAppFails, FindChatFails, WorkerLinkLost, Fault, Unless, Exceptions
  <2> QED
    BY <1>3, <2>1, <2>2, <2>3, <2>4, <2>5, <2>6, <2>7 DEF ChatWorker, WorkerFault
<1>4. CASE Environment
  BY <1>1, <1>4 DEF Environment, ApiLinkLost, BrokerRestart, RedisSnapshot, RedisRestart,
                    brokerVars, workerVars
<1>5. CASE UNCHANGED vars
  BY <1>1, <1>5 DEF vars, brokerVars, workerVars
<1> QED
  BY <1>2, <1>3, <1>4, <1>5 DEF Next

LEMMA InsertFreshStep ==
  ASSUME TypeOK, [Next]_vars, Origins, SingleCopy, InsertFresh
  PROVE  InsertFresh'
<1> SUFFICES ASSUME ~Unless(Exceptions)', NEW w \in Workers, step'[w] = "insert",
                    OneSpelling(AppOf[msg'[w].token]),
                    NEW c \in chats', IsChatOf(c, msg'[w])
             PROVE  FALSE
  BY Stable DEF InsertFresh, ChatExists, OneSpelling
<1> USE DEF TypeOK
<1>0. ~Unless(Exceptions)
  BY Stable DEF Unless
\* w was at the insert before the step, or has just found no row.
<1>1. /\ msg'[w] = msg[w]
      /\ \/ step[w] = "insert"
         \/ chats' = chats /\ ~ChatExists(msg[w])
  <2>1. ASSUME NEW v \in Workers, ChatWorker(v)
        PROVE  \/ step[w] = "insert" /\ msg'[w] = msg[w]
               \/ chats' = chats /\ ~ChatExists(msg[w]) /\ msg'[w] = msg[w]
    <3>1. CASE Deliver(v)
      BY <3>1 DEF Deliver, Goto
    <3>2. CASE FindApp(v)
      BY <3>2 DEF FindApp, Goto
    <3>3. CASE FindChat(v)
      BY <3>3 DEF FindChat, Goto
    <3>4. CASE CreateChat(v)
      BY <3>4 DEF CreateChat, Goto
    <3>5. CASE IncrementCounter(v)
      BY <3>5 DEF IncrementCounter, Goto
    <3>6. CASE Ack(v) \/ Nack(v)
      BY <3>6 DEF Ack, Nack, Goto
    <3> QED
      BY <2>1, <3>1, <3>2, <3>3, <3>4, <3>5, <3>6 DEF ChatWorker
  <2>2. ASSUME NEW v \in Workers, WorkerFault(v)
        PROVE  step[w] = "insert" /\ msg'[w] = msg[w]
    <3>1. ~FindAppFails(v) /\ ~FindChatFails(v) /\ ~WorkerLinkLost(v)
      BY DEF FindAppFails, FindChatFails, WorkerLinkLost, Fault, Unless, Exceptions
    <3> QED
      BY <2>2, <3>1 DEF WorkerFault, CreateChatFails, IncrementCounterDisturbed,
                        CrashAndRestart, Goto
  <2>3. ASSUME NEW r \in Requests, Handler(r) PROVE UNCHANGED <<step, msg>>
    BY <2>3 DEF Handler, IncrementChatCounter, IncrementDisturbed, PublishChat,
                PublishUnconfirmed, PublishFails, workerVars
  <2>4. Environment \/ UNCHANGED vars => UNCHANGED <<step, msg>>
    BY DEF Environment, ApiLinkLost, BrokerRestart, RedisSnapshot, RedisRestart,
           vars, workerVars
  <2> QED
    BY <2>1, <2>2, <2>3, <2>4 DEF Next
<1>2. CASE step[w] # "insert"
  BY <1>1, <1>2 DEF ChatExists
<1>3. CASE step[w] = "insert"
  <2>1. ~ChatExists(msg[w])
    BY <1>0, <1>1, <1>3 DEF InsertFresh
  <2>2. PICK v \in Workers : /\ step[v] = "insert"
                             /\ step' = [step EXCEPT ![v] = step'[v]]
                             /\ step'[v] # "insert"
                             /\ chats' = Inserted(msg[v])
    BY <1>1, <2>1, RowsGrow DEF ChatExists
  <2>3. v # w
    BY <2>2
  <2>4. c = RowOf(msg[v])
    BY <1>1, <2>1, <2>2 DEF Inserted, ChatExists
  <2>5. AppOf[msg[v].token] = AppOf[msg[w].token] /\ msg[v].number = msg[w].number
    BY <1>1, <2>4 DEF IsChatOf, RowOf
  <2>6. msg[v].token = msg[w].token
    BY <1>1, <1>3, <2>2, <2>5 DEF Origins, Holding, Accepted, AsksFor, OneSpelling
  <2> QED
    BY <1>0, <1>3, <2>2, <2>3, <2>5, <2>6 DEF SingleCopy, Same, Holding
<1> QED
  BY <1>2, <1>3

LEMMA UniqueNumbersStep ==
  ASSUME TypeOK, [Next]_vars, InsertFresh, UniqueNumbers
  PROVE  UniqueNumbers'
<1> SUFFICES ASSUME NEW c \in chats', NEW d \in chats', c.app = d.app, c.number = d.number,
                    UniqueIndex \/ (~Unless(Exceptions)' /\ OneSpelling(c.app))
             PROVE  c = d
  BY Stable, ChatAssumption DEF UniqueNumbers, OneSpelling, Exceptions
<1> USE DEF TypeOK
<1>1. UniqueIndex \/ (~Unless(Exceptions) /\ OneSpelling(c.app))
  BY Stable DEF Unless
<1>2. CASE chats' = chats
  BY <1>1, <1>2 DEF UniqueNumbers, Exceptions
<1>3. ASSUME NEW w \in Workers, step[w] = "insert", chats' = Inserted(msg[w])
      PROVE  c = d
  <2>1. CASE c \in chats /\ d \in chats
    BY <1>1, <2>1 DEF UniqueNumbers, Exceptions
  <2>2. CASE ~Duplicate(msg[w]) /\ c = RowOf(msg[w]) /\ d = RowOf(msg[w])
    BY <2>2
  <2>3. ASSUME NEW e \in chats, ~Duplicate(msg[w]),
               e.app = RowOf(msg[w]).app, e.number = RowOf(msg[w]).number,
               e.app = c.app
        PROVE  FALSE
    <3>1. ChatExists(msg[w]) /\ c.app = AppOf[msg[w].token]
      BY <2>3 DEF ChatExists, IsChatOf, RowOf
    <3> QED
      BY <1>1, <1>3, <2>3, <3>1 DEF Duplicate, InsertFresh
  <2> QED
    BY <1>3, <2>1, <2>2, <2>3 DEF Inserted
<1> QED
  BY <1>2, <1>3, RowsGrow

\* While no SELECT fails, no worker loses its channel under a message and
\* Redis keeps its counters, one number names one row per application, if the
\* application is addressed by one spelling of its token; with a unique index
\* it always does.
THEOREM NumbersNameOneChat == Spec => []UniqueNumbers
<1> DEFINE UInv == Numbers /\ Origins /\ SingleCopy /\ InsertFresh /\ UniqueNumbers
<1>1. Init => UInv
  BY DEF Init, Numbers, Numbered, Origins, SingleCopy, InsertFresh, UniqueNumbers, Holding
<1>2. TypeOK /\ UInv /\ [Next]_vars => UInv'
  BY NumbersStep, OriginsStep, SingleCopyStep, InsertFreshStep, UniqueNumbersStep
<1>3. UInv => UniqueNumbers
  OBVIOUS
<1> HIDE DEF UInv
<1> QED
  BY <1>1, <1>2, <1>3, TypeCorrect, PTL DEF Spec

-----------------------------------------------------------------------------
(***************************************************************************)
(* Counting.                                                               *)
(***************************************************************************)

\* Ids grow, so that an INSERT adds a row that is not there.
RowIds == \A c \in chats : c.id <= Cardinality(chats)

LEMMA RowOfIsNew ==
  ASSUME TypeOK, RowIds, NEW m
  PROVE  RowOf(m) \notin chats
<1>1. Cardinality(chats) \in Nat
  BY FS_CardinalityType DEF TypeOK
<1> QED
  BY <1>1 DEF RowIds, RowOf

LEMMA RowIdsStep ==
  ASSUME TypeOK, [Next]_vars, RowIds
  PROVE  RowIds'
<1>1. CASE chats' = chats
  BY <1>1 DEF RowIds
<1>2. ASSUME NEW w \in Workers, chats' = chats \cup {RowOf(msg[w])} PROVE RowIds'
  <2>1. Cardinality(chats) \in Nat /\ IsFiniteSet(chats)
    BY FS_CardinalityType DEF TypeOK
  <2>2. Cardinality(chats') = Cardinality(chats) + 1
    BY <1>2, <2>1, RowOfIsNew, FS_AddElement
  <2>3. \A c \in chats : c.id \in Nat /\ c.id <= Cardinality(chats)
    BY DEF TypeOK, ChatRow, RowIds
  <2>4. RowOf(msg[w]).id = Cardinality(chats) + 1
    BY DEF RowOf
  <2> QED
    BY <1>2, <2>1, <2>2, <2>3, <2>4 DEF RowIds
<1> QED
  BY <1>1, <1>2, RowsGrow DEF Inserted

\* What a step does to the count of application a: nothing; a row and a worker
\* that has to count it; the worker counts it; or a crash or a failed INSERT
\* leaves a row that nobody will count.
Nothing(a) ==
  UNCHANGED <<deltaChats[a], Uncounted(a), RowsOf(a)>>

Adds(a) ==
  /\ deltaChats'[a] = deltaChats[a]
  /\ \E w \in Workers \ Uncounted(a) : Uncounted(a)' = Uncounted(a) \cup {w}
  /\ \E c : c \notin RowsOf(a) /\ RowsOf(a)' = RowsOf(a) \cup {c}

Counts(a) ==
  /\ deltaChats'[a] = deltaChats[a] + 1
  /\ \E w \in Uncounted(a) : Uncounted(a)' = Uncounted(a) \ {w}
  /\ RowsOf(a)' = RowsOf(a)

Forgets(a) ==
  /\ deltaChats'[a] = deltaChats[a]
  /\ Uncounted(a)' \subseteq Uncounted(a)
  /\ RowsOf(a) \subseteq RowsOf(a)'
  /\ Unless({"crash", "db_write"})'

LEMMA CountStep ==
  ASSUME TypeOK, [Next]_vars, RowIds, ~Unless({"redis", "redis_restart"})', NEW a \in Apps
  PROVE  Nothing(a) \/ Adds(a) \/ Counts(a) \/ Forgets(a)
<1> USE DEF TypeOK
<1>1. ASSUME UNCHANGED <<deltaChats, chats, step, msg>>
      PROVE  Nothing(a)
  BY <1>1 DEF Nothing, Uncounted, RowsOf
<1>2. ASSUME NEW r \in Requests, Handler(r) PROVE Nothing(a)
  <2>1. UNCHANGED <<deltaChats, chats, step, msg>>
    BY <1>2 DEF Handler, IncrementChatCounter, IncrementDisturbed, PublishChat,
                PublishUnconfirmed, PublishFails, redisVars, workerVars
  <2> QED
    BY <1>1, <2>1
<1>3. ASSUME NEW w \in Workers, UNCHANGED <<deltaChats, chats>>,
             step[w] # "incr", step'[w] # "incr",
             \A v \in Workers : v # w => step'[v] = step[v] /\ msg'[v] = msg[v]
      PROVE  Nothing(a)
  BY <1>3 DEF Nothing, Uncounted, RowsOf
<1>4. ASSUME NEW w \in Workers, ChatWorker(w)
      PROVE  Nothing(a) \/ Adds(a) \/ Counts(a)
  <2>1. CASE Deliver(w)
    BY <1>3, <2>1 DEF Deliver, Goto, redisVars
  <2>2. CASE FindApp(w) \/ FindChat(w) \/ Ack(w) \/ Nack(w)
    BY <1>3, <2>2 DEF FindApp, FindChat, Ack, Nack, Goto, redisVars
  <2>3. CASE CreateChat(w)
    <3>1. CASE Duplicate(msg[w])
      BY <1>3, <2>3, <3>1 DEF CreateChat, Goto, Inserted, redisVars
    <3>2. CASE ~Duplicate(msg[w]) /\ AppOf[msg[w].token] = a
      <4>1. Uncounted(a)' = Uncounted(a) \cup {w} /\ w \notin Uncounted(a)
        BY <2>3, <3>2 DEF CreateChat, Goto, Uncounted
      <4>2. RowsOf(a)' = RowsOf(a) \cup {RowOf(msg[w])} /\ RowOf(msg[w]) \notin RowsOf(a)
        BY <2>3, <3>2, RowOfIsNew DEF CreateChat, Inserted, RowsOf, RowOf
      <4>3. deltaChats' = deltaChats
        BY <2>3 DEF CreateChat, redisVars
      <4> QED
        BY <4>1, <4>2, <4>3 DEF Adds
    <3>3. CASE ~Duplicate(msg[w]) /\ AppOf[msg[w].token] # a
      <4>1. Uncounted(a)' = Uncounted(a)
        BY <2>3, <3>3 DEF CreateChat, Goto, Uncounted
      <4>2. RowsOf(a)' = RowsOf(a)
        BY <2>3, <3>3 DEF CreateChat, Inserted, RowsOf, RowOf
      <4> QED
        BY <2>3, <4>1, <4>2 DEF CreateChat, redisVars, Nothing
    <3> QED
      BY <3>1, <3>2, <3>3
  <2>4. CASE IncrementCounter(w)
    <3>1. CASE AppOf[msg[w].token] = a
      <4>1. Uncounted(a)' = Uncounted(a) \ {w} /\ w \in Uncounted(a)
        BY <2>4, <3>1 DEF IncrementCounter, Goto, Uncounted
      <4>2. deltaChats'[a] = deltaChats[a] + 1 /\ RowsOf(a)' = RowsOf(a)
        BY <2>4, <3>1 DEF IncrementCounter, RowsOf
      <4> QED
        BY <4>1, <4>2 DEF Counts
    <3>2. CASE AppOf[msg[w].token] # a
      BY <2>4, <3>2 DEF IncrementCounter, Goto, Uncounted, RowsOf, Nothing
    <3> QED
      BY <3>1, <3>2
  <2> QED
    BY <1>4, <2>1, <2>2, <2>3, <2>4 DEF ChatWorker
<1>5. ASSUME NEW w \in Workers, WorkerFault(w)
      PROVE  Nothing(a) \/ Forgets(a)
  <2>1. CASE FindAppFails(w) \/ FindChatFails(w)
    BY <1>3, <2>1 DEF FindAppFails, FindChatFails, Goto, redisVars
  <2>2. CASE CreateChatFails(w)
    <3>1. "db_write" \in happened' /\ chats \subseteq chats' /\ deltaChats' = deltaChats
      BY <2>2 DEF CreateChatFails, Fault, Inserted, redisVars
    <3>2. Uncounted(a)' = Uncounted(a)
      BY <2>2 DEF CreateChatFails, Goto, Uncounted
    <3> QED
      BY <3>1, <3>2 DEF Forgets, RowsOf, Unless
  <2>3. CASE WorkerLinkLost(w)
    BY <1>1, <2>3 DEF WorkerLinkLost, redisVars
  <2>4. CASE CrashAndRestart(w)
    <3>1. "crash" \in happened' /\ chats' = chats /\ deltaChats' = deltaChats
      BY <2>4 DEF CrashAndRestart, Fault, redisVars
    <3>2. Uncounted(a)' \subseteq Uncounted(a)
      BY <2>4 DEF CrashAndRestart, Uncounted
    <3> QED
      BY <3>1, <3>2 DEF Forgets, RowsOf, Unless
  <2>5. ~IncrementCounterDisturbed(w)
    BY DEF IncrementCounterDisturbed, Fault, Unless
  <2> QED
    BY <1>5, <2>1, <2>2, <2>3, <2>4, <2>5 DEF WorkerFault
<1>6. CASE Environment
  <2>1. ~RedisRestart
    BY DEF RedisRestart, Fault, Unless
  <2> QED
    BY <1>1, <1>6, <2>1 DEF Environment, ApiLinkLost, BrokerRestart, RedisSnapshot,
                            redisVars, workerVars
<1>7. CASE UNCHANGED vars
  BY <1>1, <1>7 DEF vars, redisVars, workerVars
<1> QED
  BY <1>2, <1>4, <1>5, <1>6, <1>7 DEF Next

\* The sizes that the counting properties compare.
LEMMA Sizes ==
  ASSUME TypeOK, NEW a \in Apps
  PROVE  /\ IsFiniteSet(Uncounted(a)) /\ Cardinality(Uncounted(a)) \in Nat
         /\ IsFiniteSet(RowsOf(a)) /\ Cardinality(RowsOf(a)) \in Nat
         /\ deltaChats[a] \in Nat
<1>1. IsFiniteSet(Uncounted(a))
  BY ChatAssumption, FS_Subset DEF Uncounted
<1>2. IsFiniteSet(RowsOf(a))
  BY FS_Subset DEF RowsOf, TypeOK
<1> QED
  BY <1>1, <1>2, FS_CardinalityType DEF TypeOK

LEMMA CountingStep ==
  ASSUME TypeOK, TypeOK', [Next]_vars, RowIds, ~Unless({"redis", "redis_restart"})',
         NEW a \in Apps
  PROVE  /\ deltaChats[a] + Cardinality(Uncounted(a)) <= Cardinality(RowsOf(a))
              => (deltaChats[a] + Cardinality(Uncounted(a)) <= Cardinality(RowsOf(a)))'
         /\ ~Unless({"crash", "db_write"})'
            /\ deltaChats[a] + Cardinality(Uncounted(a)) = Cardinality(RowsOf(a))
              => (deltaChats[a] + Cardinality(Uncounted(a)) = Cardinality(RowsOf(a)))'
<1>1. CASE Nothing(a)
  BY <1>1 DEF Nothing
<1>2. CASE Adds(a)
  <2>1. Cardinality(Uncounted(a)') = Cardinality(Uncounted(a)) + 1
    BY <1>2, Sizes, FS_AddElement DEF Adds
  <2>2. Cardinality(RowsOf(a)') = Cardinality(RowsOf(a)) + 1
    BY <1>2, Sizes, FS_AddElement DEF Adds
  <2> QED
    BY <1>2, <2>1, <2>2, Sizes DEF Adds
<1>3. CASE Counts(a)
  <2>1. Cardinality(Uncounted(a)') = Cardinality(Uncounted(a)) - 1
    BY <1>3, Sizes, FS_RemoveElement DEF Counts
  <2> QED
    BY <1>3, <2>1, Sizes DEF Counts
<1>4. CASE Forgets(a)
  <2>1. Cardinality(Uncounted(a)') <= Cardinality(Uncounted(a))
    BY <1>4, Sizes, FS_Subset DEF Forgets
  <2>2. IsFiniteSet(RowsOf(a)') /\ Cardinality(RowsOf(a)') \in Nat
    BY FS_Subset, FS_CardinalityType DEF RowsOf, TypeOK
  <2>3. Cardinality(RowsOf(a)) <= Cardinality(RowsOf(a)')
    BY <1>4, <2>2, FS_Subset DEF Forgets
  <2>4. Cardinality(Uncounted(a)') \in Nat
    BY <1>4, Sizes, FS_Subset, FS_CardinalityType DEF Forgets
  <2> QED
    BY <1>4, <2>1, <2>2, <2>3, <2>4, Sizes DEF Forgets
<1> QED
  BY <1>1, <1>2, <1>3, <1>4, CountStep

\* Unless Redis itself misbehaves, the delta of an application never exceeds
\* the rows that were inserted for it: crashes, redeliveries and duplicate
\* rows included.
THEOREM RowsNeverOvercounted == Spec => []NeverOvercounts
<1>1. Init => RowIds /\ NeverOvercounts
  <2>1. ASSUME Init, NEW a \in Apps
        PROVE  deltaChats[a] = 0 /\ Uncounted(a) = {} /\ RowsOf(a) = {}
    BY <2>1 DEF Init, Uncounted, RowsOf
  <2>2. Cardinality({}) = 0
    BY FS_EmptySet
  <2>3. Init => chats = {}
    BY DEF Init
  <2>4. Init => NeverOvercounts
    BY <2>1, <2>2 DEF NeverOvercounts
  <2> QED
    BY <2>3, <2>4 DEF RowIds
<1>2. TypeOK /\ TypeOK' /\ RowIds /\ NeverOvercounts /\ [Next]_vars => NeverOvercounts'
  BY CountingStep, Stable DEF NeverOvercounts, Unless
<1>3. TypeOK /\ RowIds /\ [Next]_vars => RowIds'
  BY RowIdsStep
<1> QED
  BY <1>1, <1>2, <1>3, TypeCorrect, PTL DEF Spec

\* Without crashes and failed INSERTs it equals them, but for the workers that
\* are about to count: lost channels and failed SELECTs do no harm.
THEOREM RowsCountedExactly == Spec => []CountsExact
<1>1. Init => RowIds /\ CountsExact
  <2>1. ASSUME Init, NEW a \in Apps
        PROVE  deltaChats[a] = 0 /\ Uncounted(a) = {} /\ RowsOf(a) = {}
    BY <2>1 DEF Init, Uncounted, RowsOf
  <2>2. Cardinality({}) = 0
    BY FS_EmptySet
  <2>3. Init => chats = {}
    BY DEF Init
  <2>4. Init => CountsExact
    BY <2>1, <2>2 DEF CountsExact
  <2> QED
    BY <2>3, <2>4 DEF RowIds
<1>2. TypeOK /\ TypeOK' /\ RowIds /\ CountsExact /\ [Next]_vars => CountsExact'
  BY CountingStep, Stable DEF CountsExact, Unless
<1>3. TypeOK /\ RowIds /\ [Next]_vars => RowIds'
  BY RowIdsStep
<1> QED
  BY <1>1, <1>2, <1>3, TypeCorrect, PTL DEF Spec

=============================================================================
