------------------------- MODULE MessageCreationProofs -------------------------
(***************************************************************************)
(* Proofs about MessageCreation, for every value of its constants.         *)
(***************************************************************************)
EXTENDS MessageCreation, FiniteSetTheorems, TLAPS

-----------------------------------------------------------------------------
(***************************************************************************)
(* The steps that the proofs are about: those of Next, and those that      *)
(* others take beside them when the component is part of a larger system,  *)
(* where a process may also end for good.                                  *)
(***************************************************************************)
Aside ==
  /\ UNCHANGED <<apiVars, redisVars, brokerVars, workerVars, storeVars>>
  /\ happened \subseteq happened'

Ends(w) ==
  /\ \E again \in BOOLEAN : End(w, again)
  /\ happened \subseteq happened'

Step ==
  \/ \E r \in Requests : Handler(r)
  \/ \E w \in Workers : MessageWorker(w) \/ HandlerFault(w) \/ WorkerLinkLost(w) \/ Ends(w)
  \/ Environment
  \/ Aside

LEMMA NextIsStep == [Next]_vars => Step
<1>1. CASE UNCHANGED vars
  BY <1>1 DEF vars, faultVars, Aside, Step
<1>2. ASSUME NEW w \in Workers, CrashAndRestart(w) PROVE Ends(w)
  BY <1>2 DEF CrashAndRestart, Fault, Ends
<1> QED
  BY <1>1, <1>2 DEF Next, ProcessFault, Step

-----------------------------------------------------------------------------
(***************************************************************************)
(* Typing.                                                                 *)
(***************************************************************************)
LEMMA InsertedType ==
  ASSUME StateOK, NEW w \in Workers, step[w] = "insert",
         NEW S \in {messages, Inserted(msg[w])}
  PROVE  /\ RowOf(msg[w]) \in MessageRow
         /\ S \subseteq MessageRow /\ IsFiniteSet(S)
         /\ \A m \in S : chat[m.request] \in chatRows
<1>1. msg[w] \in Message /\ chat[msg[w].request] \in chatRows
  BY DEF StateOK
<1>2. Cardinality(messages) \in Nat /\ IsFiniteSet(messages)
  BY FS_CardinalityType DEF StateOK
<1>3. RowOf(msg[w]) \in MessageRow /\ RowOf(msg[w]).request = msg[w].request
  BY <1>1, <1>2 DEF RowOf, Message, MessageRow
<1>4. IsFiniteSet(messages \cup {RowOf(msg[w])})
  BY <1>2, FS_AddElement
<1>5. S \in {messages, messages \cup {RowOf(msg[w])}}
  BY DEF Inserted
<1> QED
  BY <1>1, <1>2, <1>3, <1>4, <1>5 DEF StateOK

\* Handlers.
LEMMA HandlerType == ASSUME StateOK, NEW r \in Requests, Handler(r) PROVE StateOK'
<1> USE MessageAssumption DEF StateOK, Phases
<1>0. UNCHANGED <<chat, content, workerVars, storeVars>>
  BY DEF Handler, IncrementMessageCounter, IncrementDisturbed, PublishMessage,
         PublishUnconfirmed, PublishFails, Answer
<1>1. phase' \in [Requests -> Phases]
  BY DEF Handler, IncrementMessageCounter, IncrementDisturbed, PublishMessage,
         PublishUnconfirmed, PublishFails, Answer
<1>2. apiLinked' \in BOOLEAN
  BY Zenon DEF Handler, IncrementMessageCounter, IncrementDisturbed, PublishMessage,
         PublishUnconfirmed, PublishFails, Answer
<1>3. counter' \in [Chats -> Nat] /\ number' \in [Requests -> Nat]
  <2>1. ASSUME NEW k \in Nat, counter' = [counter EXCEPT ![chat[r]] = @ + k],
               number' \in {number, [number EXCEPT ![r] = counter[chat[r]] + k]}
        PROVE  counter' \in [Chats -> Nat] /\ number' \in [Requests -> Nat]
    BY <2>1
  <2>2. CASE IncrementMessageCounter(r)
    BY <2>1, <2>2 DEF IncrementMessageCounter
  <2>3. CASE IncrementDisturbed(r)
    <3>1. \A k \in 0..Sends : k \in Nat
      OBVIOUS
    <3> QED
      BY <2>1, <2>3, <3>1 DEF IncrementDisturbed
  <2>4. CASE PublishMessage(r) \/ PublishUnconfirmed(r) \/ PublishFails(r) \/ Answer(r)
    BY <2>4 DEF PublishMessage, PublishUnconfirmed, PublishFails, Answer, redisVars
  <2> QED
    BY <2>2, <2>3, <2>4 DEF Handler
<1>4. delta' = delta /\ saved' = saved
  BY DEF Handler, IncrementMessageCounter, IncrementDisturbed, PublishMessage,
         PublishUnconfirmed, PublishFails, Answer, redisVars
<1>5. messagesQueue' \subseteq Message /\ published' \in Nat
  BY DEF Handler, IncrementMessageCounter, IncrementDisturbed, PublishMessage,
         PublishUnconfirmed, PublishFails, Answer, brokerVars, Message
<1> QED
  BY <1>0, <1>1, <1>2, <1>3, <1>4, <1>5 DEF workerVars, storeVars

\* What a step of a worker has to keep.
WorkersOK ==
  \A w \in Workers :
    /\ step[w] # "idle" => msg[w] \in Message
    /\ step[w] \in {"findMessage", "insert"} => chat[msg[w].request] \in chatRows
    /\ step[w] \in {"incr", "publish"} => row[w] \in messages

\* A step from here to there of one worker, with its row and message.
LEMMA WorkerParts ==
  ASSUME StateOK, NEW w \in Workers, NEW here, NEW there \in Steps, Goto(w, here, there),
         UNCHANGED <<apiVars, counter, saved, published, chatRows>>,
         linked' = linked,
         delta' \in [Chats -> Nat], messagesQueue' \subseteq Message,
         msg' \in [Workers -> Message \cup {Nothing}],
         row' \in [Workers -> MessageRow \cup {Nothing}],
         \A v \in Workers : v # w => msg'[v] = msg[v] /\ row'[v] = row[v],
         messages \subseteq messages', messages' \subseteq MessageRow,
         IsFiniteSet(messages'),
         \A m \in messages' : chat[m.request] \in chatRows,
         indexing' \subseteq messages',
         there # "idle" => msg'[w] \in Message,
         there \in {"findMessage", "insert"} => chat[msg'[w].request] \in chatRows,
         there \in {"incr", "publish"} => row'[w] \in messages'
  PROVE  StateOK'
<1>1. step' \in [Workers -> Steps] /\ step'[w] = there /\ \A v \in Workers : v # w => step'[v] = step[v]
  BY DEF Goto, StateOK
<1>2. WorkersOK'
  BY <1>1 DEF StateOK, WorkersOK, apiVars
<1>3. saved' \in [counter : [Chats -> Nat], delta : [Chats -> Nat]]
  BY DEF StateOK
<1> QED
  BY <1>1, <1>2, <1>3 DEF StateOK, WorkersOK, apiVars

LEMMA WorkerType ==
  ASSUME StateOK, NEW w \in Workers, MessageWorker(w) \/ HandlerFault(w)
  PROVE  StateOK'
<1>1. CASE Deliver(w)
  <2>1. PICK m \in messagesQueue : msg' = [msg EXCEPT ![w] = m] /\ messagesQueue' = messagesQueue \ {m}
    BY <1>1 DEF Deliver
  <2>2. Goto(w, "idle", "findApp") /\ "findApp" \in Steps
    BY <1>1 DEF Deliver, Steps
  <2> QED
    BY <1>1, <2>1, <2>2, WorkerParts DEF Deliver, StateOK, redisVars, storeVars
<1>2. CASE FindApp(w) \/ FindAppFails(w) \/ FindChat(w) \/ FindChatFails(w)
           \/ FindMessage(w) \/ FindMessageFails(w)
  <2>1. PICK here \in {"findApp", "findChat", "findMessage"},
             there \in {"findChat", "findMessage", "insert", "ack", "nack"} :
          /\ Goto(w, here, there)
          /\ there \in {"findMessage", "insert"} => chat[msg[w].request] \in chatRows
    BY <1>2 DEF FindApp, FindAppFails, FindChat, FindChatFails, FindMessage,
                FindMessageFails, ChatOf, Goto, StateOK
  <2>2. UNCHANGED <<apiVars, redisVars, brokerVars, linked, msg, row, storeVars>>
    BY <1>2 DEF FindApp, FindAppFails, FindChat, FindChatFails, FindMessage, FindMessageFails
  <2>3. msg[w] \in Message /\ there \in Steps
    BY <2>1 DEF Goto, StateOK, Steps
  <2> QED
    BY <2>1, <2>2, <2>3, WorkerParts DEF StateOK, redisVars, brokerVars, storeVars
<1>3. CASE CreateMessage(w) \/ CreateMessageRefused(w) \/ CreateMessageFails(w)
  <2>1. PICK there \in {"incr", "ack", "nack"} :
          /\ Goto(w, "insert", there)
          /\ there = "incr" => CreateMessage(w) /\ ~Duplicate(msg[w])
          /\ there # "incr" => row' = row
    BY <1>3 DEF CreateMessage, CreateMessageRefused, CreateMessageFails
  <2>2. /\ messages' \in {messages, Inserted(msg[w])}
        /\ UNCHANGED <<apiVars, redisVars, brokerVars, linked, msg, chatRows, indexing>>
    BY <1>3 DEF CreateMessage, CreateMessageRefused, CreateMessageFails, storeVars
  <2>3. step[w] = "insert" /\ msg[w] \in Message /\ there \in Steps
    BY <2>1 DEF Goto, StateOK, Steps
  <2>4. /\ RowOf(msg[w]) \in MessageRow
        /\ messages' \subseteq MessageRow /\ IsFiniteSet(messages')
        /\ \A m \in messages' : chat[m.request] \in chatRows
    BY <2>2, <2>3, InsertedType
  <2>5. ASSUME there = "incr"
        PROVE  /\ row' = [row EXCEPT ![w] = RowOf(msg[w])]
               /\ messages' = messages \cup {RowOf(msg[w])}
    BY <2>1, <2>5 DEF CreateMessage, Inserted
  <2>6. /\ row' \in [Workers -> MessageRow \cup {Nothing}]
        /\ \A v \in Workers : v # w => row'[v] = row[v]
        /\ there = "incr" => row'[w] \in messages'
    BY <2>1, <2>4, <2>5 DEF StateOK
  <2>7. messages \subseteq messages' /\ indexing' \subseteq messages'
    BY <2>2 DEF StateOK, Inserted
  <2> QED
    BY <2>1, <2>2, <2>3, <2>4, <2>6, <2>7, WorkerParts DEF StateOK, redisVars, brokerVars
<1>4. CASE IncrementCounter(w) \/ IncrementCounterDisturbed(w)
  <2>1. Goto(w, "incr", "publish") /\ step[w] = "incr" /\ "publish" \in Steps
    BY <1>4 DEF IncrementCounter, IncrementCounterDisturbed, Goto, Steps
  <2>2. PICK k \in Nat : delta' = [delta EXCEPT ![ChatOf(row[w])] = @ + k]
    <3>1. \A k \in 0..Sends : k \in Nat
      BY MessageAssumption
    <3>2. CASE IncrementCounter(w)
      BY <3>2 DEF IncrementCounter
    <3>3. CASE IncrementCounterDisturbed(w)
      BY <3>1, <3>3 DEF IncrementCounterDisturbed
    <3> QED
      BY <1>4, <3>2, <3>3
  <2>3. delta' \in [Chats -> Nat]
    <3>1. delta \in [Chats -> Nat]
      BY DEF StateOK
    <3>2. ChatOf(row[w]) \in Chats
      BY <2>1 DEF StateOK, ChatOf, MessageRow
    <3> QED
      BY <2>2, <3>1, <3>2
  <2>4. UNCHANGED <<apiVars, counter, saved, brokerVars, linked, msg, row, storeVars>>
    BY <1>4 DEF IncrementCounter, IncrementCounterDisturbed
  <2>5. msg[w] \in Message /\ row[w] \in messages
    BY <2>1 DEF StateOK
  <2> QED
    BY <2>1, <2>3, <2>4, <2>5, WorkerParts DEF StateOK, brokerVars, storeVars
<1>5. CASE QueueForIndexing(w)
  <2>1. Goto(w, "publish", "ack") /\ step[w] = "publish" /\ "ack" \in Steps
    BY <1>5 DEF QueueForIndexing, Goto, Steps
  <2>2. msg[w] \in Message /\ row[w] \in messages
    BY <2>1 DEF StateOK
  <2>3. /\ indexing' \subseteq indexing \cup {row[w]}
        /\ row' = [row EXCEPT ![w] = Nothing]
        /\ UNCHANGED <<apiVars, redisVars, brokerVars, linked, msg, chatRows, messages>>
    BY <1>5 DEF QueueForIndexing
  <2> QED
    BY <2>1, <2>2, <2>3, WorkerParts DEF StateOK, redisVars, brokerVars
<1>6. CASE Ack(w) \/ Nack(w)
  <2>1. PICK here \in {"ack", "nack"} : Goto(w, here, "idle")
    BY <1>6 DEF Ack, Nack
  <2>2. msg[w] \in Message
    BY <2>1 DEF StateOK, Goto
  <2>3. /\ messagesQueue' \subseteq messagesQueue \cup {msg[w]}
        /\ msg' = [msg EXCEPT ![w] = Nothing]
        /\ UNCHANGED <<apiVars, redisVars, published, linked, row, storeVars>>
    BY <1>6 DEF Ack, Nack, brokerVars
  <2> QED
    BY <2>1, <2>2, <2>3, WorkerParts DEF StateOK, Steps, redisVars, storeVars
<1> QED
  BY <1>1, <1>2, <1>3, <1>4, <1>5, <1>6 DEF MessageWorker, HandlerFault

LEMMA UnackedType ==
  ASSUME StateOK, NEW w \in Workers
  PROVE  Unacked(w) \subseteq Message
BY DEF Unacked, StateOK

LEMMA ProcessType ==
  ASSUME StateOK, NEW w \in Workers, WorkerLinkLost(w) \/ Ends(w)
  PROVE  StateOK'
<1>1. CASE WorkerLinkLost(w)
  <2>1. linked' \in [Workers -> BOOLEAN]
    BY <1>1, Zenon DEF WorkerLinkLost, StateOK
  <2> QED
    BY <1>1, <2>1, UnackedType DEF WorkerLinkLost, StateOK, apiVars, redisVars, storeVars
<1>2. CASE Ends(w)
  <2>1. PICK again \in BOOLEAN : End(w, again)
    BY <1>2 DEF Ends
  <2>2. linked' \in [Workers -> BOOLEAN]
    BY <2>1, Zenon DEF End, StateOK
  <2>3. /\ step' = [step EXCEPT ![w] = "idle"]
        /\ msg' = [msg EXCEPT ![w] = Nothing]
        /\ row' = [row EXCEPT ![w] = Nothing]
        /\ messagesQueue' = messagesQueue \cup Unacked(w)
        /\ UNCHANGED <<apiVars, redisVars, published, storeVars>>
    BY <2>1 DEF End
  <2>4. WorkersOK'
    BY <2>3 DEF WorkersOK, StateOK, storeVars, apiVars
  <2> QED
    BY <2>2, <2>3, <2>4, UnackedType
    DEF StateOK, WorkersOK, Steps, apiVars, redisVars, storeVars
<1> QED
  BY <1>1, <1>2

LEMMA EnvironmentType == ASSUME StateOK, Environment \/ Aside PROVE StateOK'
<1> USE DEF StateOK
<1>1. CASE \E c \in Created : ChatPersisted(c)
  BY <1>1 DEF ChatPersisted, apiVars, redisVars, brokerVars, workerVars
<1>2. CASE ApiLinkLost
  <2>1. apiLinked' \in BOOLEAN
    BY <1>2, Zenon DEF ApiLinkLost
  <2> QED
    BY <1>2, <2>1 DEF ApiLinkLost, redisVars, brokerVars, workerVars, storeVars
<1>3. CASE BrokerRestart
  <2>1. apiLinked' \in BOOLEAN /\ linked' \in [Workers -> BOOLEAN]
    BY <1>3, Zenon DEF BrokerRestart
  <2> QED
    BY <1>3, <2>1 DEF BrokerRestart, redisVars, storeVars
<1>4. CASE RedisSnapshot
  BY <1>4 DEF RedisSnapshot, apiVars, brokerVars, workerVars, storeVars
<1>5. CASE RedisRestart
  BY <1>5 DEF RedisRestart, apiVars, brokerVars, workerVars, storeVars
<1>6. CASE ApiCrash
  <2>1. phase' \in [Requests -> Phases]
    BY <1>6 DEF ApiCrash, Phases
  <2>2. apiLinked' \in BOOLEAN
    BY <1>6, Zenon DEF ApiCrash
  <2> QED
    BY <1>6, <2>1, <2>2 DEF ApiCrash, redisVars, brokerVars, workerVars, storeVars
<1>7. CASE Aside
  BY <1>7 DEF Aside, apiVars, redisVars, brokerVars, workerVars, storeVars
<1> QED
  BY <1>1, <1>2, <1>3, <1>4, <1>5, <1>6, <1>7 DEF Environment

\* The types survive every step, in any surroundings.
LEMMA StateStep == StateOK /\ Step => StateOK'
BY HandlerType, WorkerType, ProcessType, EnvironmentType DEF Step

LEMMA StateInit == Init => StateOK
BY MessageAssumption, FS_EmptySet DEF Init, StateOK, Phases, Steps

\* A step adds no failure that is not one of FaultKinds.
LEMMA FaultsStep == FaultsOK(FaultKinds) /\ [Next]_vars => FaultsOK(FaultKinds)'
<1> SUFFICES ASSUME FaultsOK(FaultKinds), [Next]_vars,
                    ~ \E kind \in FaultKinds : Fault(kind)
             PROVE  NoFault
  BY DEF FaultsOK, Fault, NoFault, faultVars
<1>1. /\ \A r \in Requests : Handler(r) => NoFault
      /\ \A w \in Workers : MessageWorker(w) => NoFault
      /\ \A w \in Workers : ~HandlerFault(w) /\ ~ProcessFault(w)
      /\ Environment => NoFault
  BY DEF Handler, IncrementMessageCounter, IncrementDisturbed, PublishMessage,
    PublishUnconfirmed, PublishFails, Answer, MessageWorker, Deliver, FindApp, FindChat, FindMessage,
    CreateMessage, CreateMessageRefused, IncrementCounter, QueueForIndexing, Ack, Nack,
    HandlerFault, FindAppFails, FindChatFails, FindMessageFails, CreateMessageFails, IncrementCounterDisturbed, ProcessFault,
    WorkerLinkLost, CrashAndRestart, Environment, ChatPersisted, ApiLinkLost, ApiCrash, BrokerRestart,
    RedisSnapshot, RedisRestart, FaultKinds
<1> QED
  BY <1>1 DEF Next, NoFault, vars

\* The variables stay within their types, a worker at work has a message, and
\* behind the lookup of the chat, and behind the INSERT, the rows that the
\* handler relies on are there (HandleMessage).
THEOREM TypeCorrect == Spec => []TypeOK
<1>1. Init => TypeOK
  BY StateInit DEF Init, TypeOK, FaultsOK
<1>2. TypeOK /\ [Next]_vars => TypeOK'
  BY StateStep, FaultsStep, NextIsStep DEF TypeOK
<1> QED
  BY <1>1, <1>2, PTL DEF Spec

-----------------------------------------------------------------------------
(***************************************************************************)
(* What every step leaves alone.                                           *)
(***************************************************************************)

\* The message of r may have been published.
Gone(r) == phase[r] \in {"queued", "accepted", "cut"}

\* A request keeps its chat and its content, and its number once it has one;
\* what was published stays so, answers stay, and so do rows; a failure, once
\* it happened, has happened.
LEMMA Stable ==
  ASSUME StateOK, Step
  PROVE  /\ chat' = chat /\ content' = content
         /\ happened \subseteq happened'
         /\ messages \subseteq messages' /\ indexing \subseteq indexing'
         /\ \A r \in Requests :
              /\ phase[r] # "new" => number'[r] = number[r]
              /\ Gone(r) => Gone(r)'
              /\ phase[r] \in {"accepted", "failed"} => phase'[r] = phase[r]
<1> USE DEF StateOK, Gone
<1>1. ASSUME NEW r \in Requests, Handler(r)
      PROVE  /\ chat' = chat /\ content' = content /\ happened \subseteq happened'
             /\ messages' = messages /\ indexing' = indexing
             /\ \A q \in Requests :
                  /\ phase[q] # "new" => number'[q] = number[q]
                  /\ Gone(q) => Gone(q)'
                  /\ phase[q] \in {"accepted", "failed"} => phase'[q] = phase[q]
  BY <1>1 DEF Handler, IncrementMessageCounter, IncrementDisturbed, PublishMessage,
    PublishUnconfirmed, PublishFails, Answer, storeVars, Fault, NoFault, faultVars
<1>2. ASSUME NEW w \in Workers, MessageWorker(w) \/ HandlerFault(w) \/ WorkerLinkLost(w) \/ Ends(w)
      PROVE  /\ UNCHANGED apiVars /\ happened \subseteq happened'
             /\ messages \subseteq messages' /\ indexing \subseteq indexing'
  BY <1>2 DEF MessageWorker, Deliver, FindApp, FindChat, FindMessage, CreateMessage,
    CreateMessageRefused, IncrementCounter, QueueForIndexing, Ack, Nack, HandlerFault, FindAppFails, FindChatFails,
    FindMessageFails, CreateMessageFails, IncrementCounterDisturbed, WorkerLinkLost, Ends, End,
    Inserted, Fault, NoFault, faultVars, storeVars
<1>3. CASE Environment
  BY <1>3 DEF Environment, ChatPersisted, ApiLinkLost, ApiCrash, BrokerRestart, RedisSnapshot,
    RedisRestart, Fault, NoFault, faultVars, apiVars, storeVars
<1>4. CASE Aside
  BY <1>4 DEF Aside, apiVars, storeVars
<1> QED
  BY <1>1, <1>2, <1>3, <1>4 DEF Step, apiVars

\* What has been excused stays excused.
LEMMA UnlessStays ==
  ASSUME StateOK, Step, NEW kinds, Unless(kinds)
  PROVE  Unless(kinds)'
BY Stable DEF Unless

\* The INSERT of w.
Inserts(w) ==
  /\ step[w] = "insert"
  /\ Fits(msg[w]) /\ ~Duplicate(msg[w])
  /\ messages' = messages \cup {RowOf(msg[w])}
  /\ \E there \in {"incr", "nack"} : step' = [step EXCEPT ![w] = there]
  /\ UNCHANGED <<msg, messagesQueue, linked>>

\* A step adds at most the row of a message that a worker is about to insert.
LEMMA RowsGrow ==
  ASSUME StateOK, Step
  PROVE  messages' = messages \/ \E w \in Workers : Inserts(w)
<1>1. ASSUME NEW r \in Requests, Handler(r) PROVE messages' = messages
  BY <1>1 DEF Handler, IncrementMessageCounter, IncrementDisturbed, PublishMessage,
              PublishUnconfirmed, PublishFails, Answer, storeVars
<1>2. ASSUME NEW w \in Workers, MessageWorker(w), ~CreateMessage(w) PROVE messages' = messages
  BY <1>2 DEF MessageWorker, Deliver, FindApp, FindChat, FindMessage, CreateMessageRefused, IncrementCounter,
              QueueForIndexing, Ack, Nack, storeVars
<1>3. ASSUME NEW w \in Workers, HandlerFault(w), ~CreateMessageFails(w) PROVE messages' = messages
  BY <1>3 DEF HandlerFault, FindAppFails, FindChatFails, FindMessageFails,
              IncrementCounterDisturbed, storeVars
<1>4. ASSUME NEW w \in Workers, WorkerLinkLost(w) \/ Ends(w) PROVE messages' = messages
  BY <1>4 DEF WorkerLinkLost, Ends, End, storeVars
<1>5. CASE Environment \/ Aside
  BY <1>5 DEF Environment, ChatPersisted, ApiLinkLost, ApiCrash, BrokerRestart, RedisSnapshot,
              RedisRestart, Aside, storeVars
<1>6. ASSUME NEW w \in Workers, CreateMessage(w) \/ CreateMessageFails(w)
      PROVE  messages' = messages \/ Inserts(w)
  BY <1>6 DEF CreateMessage, CreateMessageFails, Inserted, Goto, Inserts, brokerVars
<1> QED
  BY <1>1, <1>2, <1>3, <1>4, <1>5, <1>6 DEF Step

\* What a worker's handler does to the queue and the deliveries: it takes up a
\* message, goes on with the one it has, or settles it.
Takes(w) ==
  /\ Goto(w, "idle", "findApp")
  /\ linked[w]
  /\ \E m \in messagesQueue : msg' = [msg EXCEPT ![w] = m] /\ messagesQueue' = messagesQueue \ {m}

GoesOn(w) ==
  /\ step[w] # "idle"
  /\ \E there \in Steps \ {"idle"} : step' = [step EXCEPT ![w] = there]
  /\ UNCHANGED <<messagesQueue, msg>>

Settles(w) ==
  /\ \/ Goto(w, "ack", "idle") /\ UNCHANGED messagesQueue
     \/ /\ Goto(w, "nack", "idle")
        /\ messagesQueue' = IF linked[w] THEN messagesQueue \cup {msg[w]} ELSE messagesQueue
  /\ msg' = [msg EXCEPT ![w] = Nothing]

LEMMA WorkerMoves ==
  ASSUME StateOK, NEW w \in Workers, MessageWorker(w) \/ HandlerFault(w)
  PROVE  /\ Takes(w) \/ GoesOn(w) \/ Settles(w)
         /\ UNCHANGED <<phase, chat, content, number, apiLinked, counter, saved, linked, chatRows>>
<1>1. UNCHANGED <<phase, chat, content, number, apiLinked, counter, saved, linked, chatRows>>
  BY DEF MessageWorker, Deliver, FindApp, FindChat, FindMessage, CreateMessage,
    CreateMessageRefused, IncrementCounter, QueueForIndexing, Ack, Nack, HandlerFault, FindAppFails, FindChatFails,
    FindMessageFails, CreateMessageFails, IncrementCounterDisturbed, storeVars, apiVars, redisVars
<1>2. CASE Deliver(w)
  BY <1>1, <1>2 DEF Deliver, Takes
<1>3. CASE Ack(w) \/ Nack(w)
  BY <1>1, <1>3 DEF Ack, Nack, Settles, brokerVars
<1>4. CASE ~(Deliver(w) \/ Ack(w) \/ Nack(w))
  BY <1>1, <1>4 DEF MessageWorker, HandlerFault, FindApp, FindChat, FindMessage, CreateMessage,
    CreateMessageRefused, IncrementCounter, QueueForIndexing, FindAppFails, FindChatFails, FindMessageFails,
    CreateMessageFails, IncrementCounterDisturbed, Goto, GoesOn, Steps, brokerVars
<1> QED
  BY <1>2, <1>3, <1>4

-----------------------------------------------------------------------------
(***************************************************************************)
(* Numbers, and where messages and rows come from.                         *)
(***************************************************************************)
Numbered(r) == phase[r] = "numbered" \/ Gone(r)

\* Requests of one chat hold different numbers, none above the counter.
Numbers ==
  \/ Unless({"redis_restart"})
  \/ /\ \A r \in Requests : Numbered(r) => number[r] <= counter[chat[r]]
     /\ \A r, s \in Requests :
          Numbered(r) /\ Numbered(s) /\ chat[r] = chat[s] /\ number[r] = number[s] => r = s

\* m was published by a request, or made from what it published.
Sent(m) == Gone(m.request) /\ AsksFor(m, m.request)

Origins ==
  /\ \A m \in messagesQueue : Sent(m)
  /\ \A w \in Workers : step[w] # "idle" => Sent(msg[w])
  /\ \A m \in messages : Sent(m)

LEMMA NumbersStep ==
  ASSUME StateOK, Step, Numbers
  PROVE  Numbers'
<1> SUFFICES ASSUME ~Unless({"redis_restart"})' PROVE Numbers'
  BY DEF Numbers
<1> USE DEF StateOK, Gone
<1>0. /\ \A r \in Requests : Numbered(r) => number[r] <= counter[chat[r]]
      /\ \A r, s \in Requests :
           Numbered(r) /\ Numbered(s) /\ chat[r] = chat[s] /\ number[r] = number[s] => r = s
  BY UnlessStays DEF Numbers
<1>1. ASSUME UNCHANGED <<number, chat, counter>>,
             \A r \in Requests : Numbered(r)' => Numbered(r)
      PROVE  Numbers'
  BY <1>0, <1>1 DEF Numbers, Numbered
<1>2. ASSUME NEW r \in Requests, Handler(r) PROVE Numbers'
  <2>1. ASSUME NEW k \in Nat, k > 0, phase[r] = "new", chat' = chat,
               counter' = [counter EXCEPT ![chat[r]] = @ + k],
               number' = [number EXCEPT ![r] = counter[chat[r]] + k],
               phase' = [phase EXCEPT ![r] = "numbered"]
        PROVE  Numbers'
    BY <1>0, <2>1 DEF Numbers, Numbered
  <2>2. ASSUME NEW k \in Nat, phase[r] = "new", UNCHANGED <<chat, number>>,
               counter' = [counter EXCEPT ![chat[r]] = @ + k],
               phase' = [phase EXCEPT ![r] = "failed"]
        PROVE  Numbers'
    BY <1>0, <2>2 DEF Numbers, Numbered
  <2>3. CASE IncrementMessageCounter(r)
    BY <1>0, <2>3 DEF IncrementMessageCounter, Numbers, Numbered
  <2>4. CASE IncrementDisturbed(r)
    <3>1. PICK k \in 0..Sends :
            /\ counter' = [counter EXCEPT ![chat[r]] = @ + k]
            /\ \/ /\ k > 0
                  /\ number' = [number EXCEPT ![r] = counter[chat[r]] + k]
                  /\ phase' = [phase EXCEPT ![r] = "numbered"]
               \/ /\ phase' = [phase EXCEPT ![r] = "failed"]
                  /\ UNCHANGED number
      BY <2>4 DEF IncrementDisturbed
    <3>2. k \in Nat /\ phase[r] = "new" /\ chat' = chat
      BY <2>4, MessageAssumption DEF IncrementDisturbed
    <3> QED
      BY <2>1, <2>2, <3>1, <3>2
  <2>5. CASE PublishMessage(r) \/ PublishUnconfirmed(r) \/ PublishFails(r) \/ Answer(r)
    BY <1>0, <2>5 DEF PublishMessage, PublishUnconfirmed, PublishFails, Answer, redisVars,
                      Numbers, Numbered
  <2> QED
    BY <1>2, <2>3, <2>4, <2>5 DEF Handler
<1>3. ASSUME NEW w \in Workers, MessageWorker(w) \/ HandlerFault(w) \/ WorkerLinkLost(w) \/ Ends(w)
      PROVE  Numbers'
  <2>1. UNCHANGED <<phase, number, chat, counter>>
    BY <1>3, WorkerMoves DEF WorkerLinkLost, Ends, End, apiVars, redisVars
  <2> QED
    BY <1>1, <2>1 DEF Numbered
<1>4. CASE Environment
  <2>1. ~RedisRestart
    BY DEF RedisRestart, Fault, Unless
  <2>2. UNCHANGED <<number, chat, counter>> /\ (~ApiCrash => phase' = phase)
    BY <1>4, <2>1 DEF Environment, ChatPersisted, ApiLinkLost, ApiCrash, BrokerRestart,
                      RedisSnapshot, apiVars, redisVars
  <2>3. \A r \in Requests : Numbered(r)' => Numbered(r)
    BY <2>2 DEF ApiCrash, Numbered
  <2> QED
    BY <1>1, <2>2, <2>3
<1>5. CASE Aside
  BY <1>1, <1>5 DEF Aside, apiVars, redisVars, Numbered
<1> QED
  BY <1>2, <1>3, <1>4, <1>5 DEF Step

\* The request that publishes its message.
Publishes(r) ==
  /\ phase[r] = "numbered"
  /\ phase' = [phase EXCEPT ![r] = "queued"]
  /\ messagesQueue' = messagesQueue \cup
       {[pos |-> published, request |-> r, number |-> number[r]]}
  /\ UNCHANGED <<chat, number, linked, step, msg>>

\* The messages of a step's second state: those of the first, moved between
\* the queue and the workers, and the one that a request publishes.
LEMMA MessagesMove ==
  ASSUME StateOK, Step
  PROVE  \/ /\ \A m \in messagesQueue' :
                 m \in messagesQueue \/ \E w \in Workers : step[w] # "idle" /\ m = msg[w]
            /\ \A w \in Workers : step'[w] # "idle" =>
                 (step[w] # "idle" /\ msg'[w] = msg[w]) \/ msg'[w] \in messagesQueue
         \/ \E r \in Requests : Publishes(r)
<1> USE DEF StateOK
<1>1. ASSUME NEW r \in Requests, Handler(r)
      PROVE  UNCHANGED <<messagesQueue, step, msg>> \/ Publishes(r)
  BY <1>1 DEF Handler, IncrementMessageCounter, IncrementDisturbed, PublishMessage,
              PublishUnconfirmed, PublishFails, Answer, Publishes, workerVars, brokerVars
<1>2. ASSUME NEW w \in Workers, MessageWorker(w) \/ HandlerFault(w)
      PROVE  /\ \A m \in messagesQueue' : m \in messagesQueue \/ (step[w] # "idle" /\ m = msg[w])
             /\ \A v \in Workers : step'[v] # "idle" =>
                  (step[v] # "idle" /\ msg'[v] = msg[v]) \/ msg'[v] \in messagesQueue
  BY <1>2, WorkerMoves DEF Takes, GoesOn, Settles, Goto
<1>3. ASSUME NEW w \in Workers, WorkerLinkLost(w) \/ Ends(w)
      PROVE  /\ \A m \in messagesQueue' : m \in messagesQueue \/ (step[w] # "idle" /\ m = msg[w])
             /\ \A v \in Workers : step'[v] # "idle" => step[v] # "idle" /\ msg'[v] = msg[v]
  BY <1>3 DEF WorkerLinkLost, Ends, End, Unacked
<1>4. CASE Environment \/ Aside
  BY <1>4 DEF Environment, ChatPersisted, ApiLinkLost, ApiCrash, BrokerRestart, RedisSnapshot,
              RedisRestart, Aside, brokerVars, workerVars
<1> QED
  BY <1>1, <1>2, <1>3, <1>4 DEF Step

LEMMA OriginsStep ==
  ASSUME StateOK, Step, Origins
  PROVE  Origins'
<1> DEFINE GoneTo(r) == phase'[r] \in {"queued", "accepted", "cut"}
<1> USE DEF StateOK
<1>1. ASSUME NEW m, m.request \in Requests, Sent(m)
      PROVE  GoneTo(m.request) /\ m.number = number'[m.request]
  BY <1>1, Stable DEF Sent, Gone, AsksFor
<1>2. \A m \in Message \cup MessageRow : m.request \in Requests
  BY DEF Message, MessageRow
<1>3. ASSUME NEW r \in Requests, Publishes(r)
      PROVE  \A m \in messagesQueue' \ messagesQueue :
               GoneTo(m.request) /\ m.number = number'[m.request]
  BY <1>3 DEF Publishes
<1>4. ASSUME NEW m \in messagesQueue'
      PROVE  GoneTo(m.request) /\ m.number = number'[m.request]
  BY <1>1, <1>2, <1>3, MessagesMove DEF Origins
<1>5. ASSUME NEW w \in Workers, step'[w] # "idle"
      PROVE  GoneTo(msg'[w].request) /\ msg'[w].number = number'[msg'[w].request]
  <2>1. CASE (step[w] # "idle" /\ msg'[w] = msg[w]) \/ msg'[w] \in messagesQueue
    BY <1>1, <1>2, <2>1 DEF Origins
  <2>2. CASE \E r \in Requests : Publishes(r)
    BY <1>1, <1>2, <1>5, <2>2 DEF Publishes, Origins
  <2> QED
    BY <1>5, <2>1, <2>2, MessagesMove
<1>6. ASSUME NEW m \in messages'
      PROVE  GoneTo(m.request) /\ m.number = number'[m.request]
  <2>1. CASE m \in messages
    BY <1>1, <1>2, <2>1 DEF Origins
  <2>2. ASSUME NEW w \in Workers, Inserts(w), m = RowOf(msg[w])
        PROVE  GoneTo(m.request) /\ m.number = number'[m.request]
    <3>1. step[w] # "idle" /\ m.request = msg[w].request /\ m.number = msg[w].number
      BY <2>2 DEF Inserts, RowOf
    <3> QED
      BY <1>1, <1>2, <3>1 DEF Origins, Sent, Gone
  <2> QED
    BY <2>1, <2>2, RowsGrow DEF Inserts
<1> QED
  BY <1>4, <1>5, <1>6 DEF Origins, Sent, Gone, AsksFor

-----------------------------------------------------------------------------
(***************************************************************************)
(* Accepted messages are not lost.                                         *)
(***************************************************************************)

\* A worker that is about to acknowledge a message has made or seen its row,
\* or there is no application to make it for.
AckJustified ==
  \/ Unless({"find_app", "redis_restart"})
  \/ \A w \in Workers :
       step[w] \in {"incr", "publish", "ack"} =>
         ChatOf(msg[w]) \in Refused \/ Stored(msg[w].request)

\* A message that is found under another's chat and number is that message.
LEMMA FoundIsOwn ==
  ASSUME StateOK, Numbers, Origins, ~Unless({"redis_restart"}),
         NEW w \in Workers, step[w] # "idle", MessageExists(msg[w])
  PROVE  Stored(msg[w].request)
<1>1. PICK s \in messages : IsMessageOf(s, msg[w])
  BY DEF MessageExists
<1>2. /\ Sent(s) /\ Sent(msg[w])
      /\ s.request \in Requests /\ msg[w].request \in Requests
  BY DEF Origins, StateOK, Message, MessageRow
<1>3. s.request = msg[w].request
  BY <1>1, <1>2 DEF Numbers, Numbered, Sent, Gone, AsksFor, IsMessageOf, ChatOf
<1> QED
  BY <1>1, <1>2, <1>3 DEF Stored, Sent

LEMMA StoredStays ==
  ASSUME StateOK, Step, NEW r \in Requests, Gone(r), Stored(r)
  PROVE  Stored(r)'
BY Stable DEF Stored, AsksFor, Gone

\* Where a worker is after a step that leaves it with the same message.
LEMMA BeforeAck ==
  ASSUME StateOK, Step, Numbers, Origins, ~Unless({"find_app", "redis_restart"})',
         NEW w \in Workers, step'[w] \in {"incr", "publish", "ack"}
  PROVE  /\ msg'[w] = msg[w] /\ step[w] # "idle"
         /\ \/ step[w] \in {"incr", "publish", "ack"}
            \/ ChatOf(msg[w]) \in Refused
            \/ Stored(msg[w].request)
            \/ Inserts(w)
<1> DEFINE Goal == /\ msg'[w] = msg[w] /\ step[w] # "idle"
                   /\ \/ step[w] \in {"incr", "publish", "ack"}
                      \/ ChatOf(msg[w]) \in Refused
                      \/ Stored(msg[w].request)
                      \/ Inserts(w)
<1> USE DEF StateOK
<1>1. CASE UNCHANGED <<step, msg>>
  BY <1>1
<1>2. ASSUME NEW v \in Workers, MessageWorker(v) PROVE Goal
  <2>1. CASE Deliver(v)
    BY <2>1 DEF Deliver, Goto
  <2>2. CASE FindApp(v)
    BY <2>2 DEF FindApp, Goto
  <2>3. CASE FindChat(v)
    BY <2>3 DEF FindChat, Goto
  <2>4. CASE FindMessage(v)
    <3>1. ~Unless({"redis_restart"})
      BY UnlessStays DEF Unless
    <3>2. v = w => step[w] # "idle"
      BY <2>4 DEF FindMessage, Goto
    <3>3. v = w => MessageExists(msg[w]) \/ step[w] \in {"incr", "publish", "ack"}
      BY <2>4 DEF FindMessage, Goto
    <3> QED
      BY <2>4, <3>1, <3>2, <3>3, FoundIsOwn DEF FindMessage, Goto
  <2>5. CASE CreateMessage(v)
    <3>1. ~Unless({"redis_restart"})
      BY UnlessStays DEF Unless
    <3>2. v = w => step[w] # "idle" /\ (Duplicate(msg[w]) => MessageExists(msg[w]))
      BY <2>5 DEF CreateMessage, Goto, Duplicate
    <3>3. v = w /\ ~Duplicate(msg[w]) => Inserts(w)
      BY <2>5 DEF CreateMessage, Inserted, Goto, Inserts, brokerVars
    <3> QED
      BY <2>5, <3>1, <3>2, <3>3, FoundIsOwn DEF CreateMessage, Goto
  <2>6. CASE IncrementCounter(v)
    BY <2>6 DEF IncrementCounter, Goto
  <2>7. CASE QueueForIndexing(v)
    BY <2>7 DEF QueueForIndexing, Goto
  <2>8. CASE Ack(v) \/ Nack(v) \/ CreateMessageRefused(v)
    BY <2>8 DEF Ack, Nack, CreateMessageRefused, Goto
  <2> QED
    BY <1>2, <2>1, <2>2, <2>3, <2>4, <2>5, <2>6, <2>7, <2>8 DEF MessageWorker
<1>3. ASSUME NEW v \in Workers, HandlerFault(v) PROVE Goal
  <2>1. CASE CreateMessageFails(v)
    BY <2>1 DEF CreateMessageFails, Goto
  <2>2. CASE IncrementCounterDisturbed(v)
    BY <2>2 DEF IncrementCounterDisturbed, Goto
  <2>3. CASE FindChatFails(v) \/ FindMessageFails(v)
    BY <2>3 DEF FindChatFails, FindMessageFails, Goto
  <2>4. ~FindAppFails(v)
    BY DEF FindAppFails, Fault, Unless
  <2> QED
    BY <1>3, <2>1, <2>2, <2>3, <2>4 DEF HandlerFault
<1>4. ASSUME NEW v \in Workers, WorkerLinkLost(v) \/ Ends(v) PROVE Goal
  BY <1>4 DEF WorkerLinkLost, Ends, End
<1>5. ASSUME NEW r \in Requests, Handler(r) PROVE UNCHANGED <<step, msg>>
  BY <1>5 DEF Handler, IncrementMessageCounter, IncrementDisturbed, PublishMessage,
              PublishUnconfirmed, PublishFails, Answer, workerVars
<1>6. Environment \/ Aside => UNCHANGED <<step, msg>>
  BY DEF Environment, ChatPersisted, ApiLinkLost, ApiCrash, BrokerRestart, RedisSnapshot,
         RedisRestart, Aside, workerVars
<1> QED
  BY <1>1, <1>2, <1>3, <1>4, <1>5, <1>6 DEF Step

LEMMA AckJustifiedStep ==
  ASSUME StateOK, Step, Numbers, Origins, AckJustified
  PROVE  AckJustified'
<1> SUFFICES ASSUME ~Unless({"find_app", "redis_restart"})', NEW w \in Workers,
                    step'[w] \in {"incr", "publish", "ack"}
             PROVE  \/ chat'[msg'[w].request] \in Refused
                    \/ \E m \in messages' : /\ m.request = msg'[w].request
                                            /\ m.number = number'[msg'[w].request]
  BY DEF AckJustified, Stored, AsksFor, ChatOf
<1>1. msg'[w] = msg[w] /\ step[w] # "idle"
  BY BeforeAck
<1>2. /\ chat' = chat
      /\ msg[w].request \in Requests
      /\ number[msg[w].request] = msg[w].number /\ number'[msg[w].request] = msg[w].number
  BY <1>1, Stable DEF Origins, Sent, Gone, AsksFor, StateOK, Message
<1>3. CASE ChatOf(msg[w]) \in Refused
  BY <1>1, <1>2, <1>3 DEF ChatOf
<1>4. CASE Stored(msg[w].request)
  BY <1>1, <1>2, <1>4, Stable DEF Stored, AsksFor
<1>5. CASE Inserts(w)
  <2>1. RowOf(msg[w]) \in messages'
    BY <1>5 DEF Inserts
  <2>2. RowOf(msg[w]).request = msg[w].request /\ RowOf(msg[w]).number = msg[w].number
    BY DEF RowOf
  <2> QED
    BY <1>1, <1>2, <2>1, <2>2
<1>6. ~Unless({"find_app", "redis_restart"})
  BY UnlessStays
<1> QED
  BY <1>3, <1>4, <1>5, <1>6, BeforeAck DEF AckJustified

\* The kinds of failure that can lose a message after its 200.
Losses == {"find_app", "api_link", "broker", "redis_restart"}

\* The client of r has its 200, or is about to get it.
Awaits(r) == phase[r] \in {"queued", "accepted"}

Kept ==
  \/ Unless(Losses)
  \/ \A r \in Requests :
       Awaits(r) /\ chat[r] \notin Refused => Queued(r) \/ Unsettled(r) \/ Stored(r)

LEMMA KeptStep ==
  ASSUME StateOK, Step, Origins, AckJustified, Kept
  PROVE  Kept'
<1> SUFFICES ASSUME ~Unless(Losses)', NEW q \in Requests,
                    phase'[q] \in {"queued", "accepted"}, chat'[q] \notin Refused
             PROVE  Queued(q)' \/ Unsettled(q)' \/ Stored(q)'
  BY DEF Kept, Awaits
<1> USE DEF StateOK, Awaits
<1>0. ~Unless(Losses) /\ ~Unless({"find_app", "redis_restart"}) /\ chat' = chat
  BY Stable DEF Unless, Losses
<1>1. ASSUME Awaits(q)
      PROVE  Queued(q) \/ Unsettled(q) \/ Stored(q)
  BY <1>0, <1>1 DEF Kept, Awaits
<1>2. ASSUME Awaits(q)
      PROVE  number'[q] = number[q] /\ (Stored(q) => Stored(q)')
  BY <1>2, Stable, StoredStays DEF Gone
<1>3. ASSUME Awaits(q), UNCHANGED <<linked, step, msg>>,
             messagesQueue \subseteq messagesQueue'
      PROVE  Queued(q)' \/ Unsettled(q)' \/ Stored(q)'
  BY <1>1, <1>2, <1>3 DEF Queued, Unsettled, AsksFor
<1>4. ASSUME NEW r \in Requests, Handler(r)
      PROVE  Queued(q)' \/ Unsettled(q)' \/ Stored(q)'
  <2>1. UNCHANGED <<linked, step, msg>> /\ messagesQueue \subseteq messagesQueue'
    BY <1>4 DEF Handler, IncrementMessageCounter, IncrementDisturbed, PublishMessage,
                PublishUnconfirmed, PublishFails, Answer, workerVars, brokerVars
  <2>2. CASE ~Awaits(q)
    <3>1. ~PublishUnconfirmed(r)
      BY DEF PublishUnconfirmed, Fault, Unless, Losses
    <3>2. PublishMessage(q)
      BY <1>4, <2>2, <3>1 DEF Handler, IncrementMessageCounter, IncrementDisturbed,
                               PublishMessage, PublishFails, Answer
    <3> DEFINE m == [pos |-> published, request |-> q, number |-> number[q]]
    <3>3. m \in messagesQueue' /\ m.request = q /\ m.number = number'[q]
      BY <3>2 DEF PublishMessage
    <3> QED
      BY <3>3 DEF Queued, AsksFor
  <2> QED
    BY <1>3, <2>1, <2>2
<1>5. ASSUME NEW w \in Workers, MessageWorker(w) \/ HandlerFault(w)
      PROVE  Queued(q)' \/ Unsettled(q)' \/ Stored(q)'
  <2>1. UNCHANGED <<phase, number, linked>> /\ (Takes(w) \/ GoesOn(w) \/ Settles(w))
    BY <1>5, WorkerMoves
  <2>2. CASE Takes(w) \/ GoesOn(w)
    BY <1>1, <1>2, <2>1, <2>2 DEF Takes, GoesOn, Goto, Queued, Unsettled, AsksFor
  <2>3. CASE Settles(w)
    <3>1. ASSUME step[w] = "ack", AsksFor(msg[w], q) PROVE Stored(q)
      BY <1>0, <2>1, <3>1 DEF AckJustified, AsksFor, ChatOf
    <3> QED
      BY <1>1, <1>2, <2>1, <2>3, <3>1 DEF Settles, Goto, Queued, Unsettled, AsksFor
  <2> QED
    BY <2>1, <2>2, <2>3
<1>6. ASSUME NEW w \in Workers, WorkerLinkLost(w) \/ Ends(w)
      PROVE  Queued(q)' \/ Unsettled(q)' \/ Stored(q)'
  BY <1>1, <1>2, <1>6 DEF WorkerLinkLost, Ends, End, apiVars, Unacked, Queued, Unsettled, AsksFor
<1>7. CASE Environment
  <2>1. ~ApiLinkLost /\ ~BrokerRestart
    BY DEF ApiLinkLost, BrokerRestart, Fault, Unless, Losses
  <2> QED
    BY <1>3, <1>7, <2>1 DEF Environment, ChatPersisted, ApiCrash, RedisSnapshot, RedisRestart,
                            apiVars, brokerVars, workerVars
<1>8. CASE Aside
  BY <1>3, <1>8 DEF Aside, apiVars, brokerVars, workerVars
<1> QED
  BY <1>4, <1>5, <1>6, <1>7, <1>8 DEF Step

\* What holds of the numbers and the messages, whatever fails.
Provenance == Numbers /\ Origins

LEMMA ProvenanceHolds == Spec => [](StateOK /\ Provenance)
<1>1. Init => StateOK /\ Provenance
  BY StateInit DEF Init, Provenance, Numbers, Numbered, Gone, Origins
<1>2. StateOK /\ Provenance /\ [Next]_vars => (StateOK /\ Provenance)'
  BY StateStep, NumbersStep, OriginsStep, NextIsStep DEF Provenance
<1> QED
  BY <1>1, <1>2, PTL DEF Spec

\* A message that was answered 200 stays in the queue, with a worker that has
\* not settled it, or in MySQL, as long as no SELECT on applications fails,
\* go-chat keeps its channel and neither RabbitMQ nor Redis restarts: a chat
\* whose row is not there yet, the other SELECTs that fail, crashed workers,
\* lost worker channels, failed INSERTs and those that MySQL refuses lose
\* nothing (MessageWorker.HandleMessage).
THEOREM NothingAcceptedIsLost == Spec => []AcceptedNotLost
<1>1. Init => AckJustified /\ Kept
  BY DEF Init, AckJustified, Kept, Awaits
<1>2. StateOK /\ Provenance /\ AckJustified /\ Kept /\ [Next]_vars => (AckJustified /\ Kept)'
  BY NextIsStep, AckJustifiedStep, KeptStep DEF Provenance
<1>3. Kept => AcceptedNotLost
  BY DEF Kept, Awaits, Losses, AcceptedNotLost
<1> QED
  BY <1>1, <1>2, <1>3, ProvenanceHolds, PTL DEF Spec

-----------------------------------------------------------------------------
(***************************************************************************)
(* A number names one message.  A request's message is in one place        *)
(* (SingleCopy), so the insert of its number is the only one (InsertFresh). *)
(***************************************************************************)
Exceptions == {"find_message", "worker_link", "redis_restart"}

Holding(w) == step[w] # "idle"
Same(m, n) == m.request = n.request

SingleCopy ==
  \/ Unless(Exceptions)
  \/ /\ \A m, n \in messagesQueue : Same(m, n) => m = n
     /\ \A m \in messagesQueue, w \in Workers : Holding(w) => ~Same(m, msg[w])
     /\ \A v, w \in Workers : Holding(v) /\ Holding(w) /\ Same(msg[v], msg[w]) => v = w

\* The row that a worker is about to insert is not there.
InsertFresh ==
  \/ Unless(Exceptions)
  \/ \A w \in Workers : step[w] = "insert" => ~MessageExists(msg[w])

LEMMA SingleCopyStep ==
  ASSUME StateOK, Step, Origins, SingleCopy
  PROVE  SingleCopy'
<1> SUFFICES ASSUME ~Unless(Exceptions)' PROVE SingleCopy'
  BY DEF SingleCopy
<1> USE DEF StateOK
<1>0. /\ \A m, n \in messagesQueue : Same(m, n) => m = n
      /\ \A m \in messagesQueue, w \in Workers : step[w] # "idle" => ~Same(m, msg[w])
      /\ \A v, w \in Workers :
           step[v] # "idle" /\ step[w] # "idle" /\ Same(msg[v], msg[w]) => v = w
  BY UnlessStays DEF SingleCopy, Holding
<1>1. ASSUME messagesQueue' \subseteq messagesQueue,
             \A w \in Workers : step'[w] # "idle" => step[w] # "idle" /\ msg'[w] = msg[w]
      PROVE  SingleCopy'
  BY <1>0, <1>1 DEF SingleCopy, Same, Holding
<1>2. ASSUME NEW r \in Requests, Handler(r) PROVE SingleCopy'
  <2>1. CASE PublishMessage(r)
    <3> DEFINE new == [pos |-> published, request |-> r, number |-> number[r]]
    <3>1. ASSUME NEW m, Sent(m) PROVE ~Same(m, new) /\ ~Same(new, m)
      BY <2>1, <3>1 DEF PublishMessage, Sent, Gone, Same
    <3>2. messagesQueue' = messagesQueue \cup {new} /\ UNCHANGED <<step, msg>>
      BY <2>1 DEF PublishMessage, workerVars
    <3> HIDE DEF new
    <3> QED
      BY <1>0, <3>1, <3>2 DEF SingleCopy, Origins, Holding, Same
  <2> QED
    BY <1>1, <1>2, <2>1 DEF Handler, IncrementMessageCounter, IncrementDisturbed,
                            PublishUnconfirmed, PublishFails, Answer, workerVars, brokerVars
<1>3. ASSUME NEW w \in Workers, MessageWorker(w) \/ HandlerFault(w) PROVE SingleCopy'
  <2>1. CASE Takes(w)
    BY <1>0, <2>1 DEF Takes, Goto, SingleCopy, Same, Holding
  <2>2. CASE GoesOn(w)
    BY <1>1, <2>2 DEF GoesOn
  <2>3. CASE Settles(w)
    BY <1>0, <2>3 DEF Settles, Goto, SingleCopy, Same, Holding
  <2> QED
    BY <1>3, <2>1, <2>2, <2>3, WorkerMoves
<1>4. ASSUME NEW w \in Workers, WorkerLinkLost(w) \/ Ends(w) PROVE SingleCopy'
  <2>1. ~WorkerLinkLost(w)
    BY DEF WorkerLinkLost, Fault, Unless, Exceptions
  <2> QED
    BY <1>0, <1>4, <2>1 DEF Ends, End, Unacked, SingleCopy, Same, Holding
<1>5. CASE Environment \/ Aside
  BY <1>1, <1>5 DEF Environment, ChatPersisted, ApiLinkLost, ApiCrash, BrokerRestart, RedisSnapshot,
                    RedisRestart, Aside, brokerVars, workerVars
<1> QED
  BY <1>2, <1>3, <1>4, <1>5 DEF Step

\* A worker at the INSERT was there before the step, or has just found no row.
LEMMA BeforeInsert ==
  ASSUME StateOK, Step, ~Unless(Exceptions)', NEW w \in Workers, step'[w] = "insert"
  PROVE  /\ msg'[w] = msg[w]
         /\ \/ step[w] = "insert"
            \/ messages' = messages /\ ~MessageExists(msg[w])
<1> DEFINE Goal == /\ msg'[w] = msg[w]
                   /\ \/ step[w] = "insert"
                      \/ messages' = messages /\ ~MessageExists(msg[w])
<1> USE DEF StateOK
<1>1. ASSUME NEW v \in Workers, MessageWorker(v) PROVE Goal
  <2>1. CASE Deliver(v)
    BY <2>1 DEF Deliver, Goto
  <2>2. CASE FindApp(v) \/ FindChat(v)
    BY <2>2 DEF FindApp, FindChat, Goto
  <2>3. CASE FindMessage(v)
    BY <2>3 DEF FindMessage, Goto, storeVars
  <2>4. CASE CreateMessage(v) \/ IncrementCounter(v) \/ QueueForIndexing(v)
    BY <2>4 DEF CreateMessage, IncrementCounter, QueueForIndexing, Goto
  <2>5. CASE Ack(v) \/ Nack(v) \/ CreateMessageRefused(v)
    BY <2>5 DEF Ack, Nack, CreateMessageRefused, Goto
  <2> QED
    BY <1>1, <2>1, <2>2, <2>3, <2>4, <2>5 DEF MessageWorker
<1>2. ASSUME NEW v \in Workers, HandlerFault(v) \/ WorkerLinkLost(v) \/ Ends(v) PROVE Goal
  <2>1. ~FindMessageFails(v)
    BY DEF FindMessageFails, Fault, Unless, Exceptions
  <2> QED
    BY <1>2, <2>1 DEF HandlerFault, FindAppFails, FindChatFails, CreateMessageFails,
                      IncrementCounterDisturbed, WorkerLinkLost, Ends, End, Goto
<1>3. ASSUME NEW r \in Requests, Handler(r) PROVE UNCHANGED <<step, msg>>
  BY <1>3 DEF Handler, IncrementMessageCounter, IncrementDisturbed, PublishMessage,
              PublishUnconfirmed, PublishFails, Answer, workerVars
<1>4. Environment \/ Aside => UNCHANGED <<step, msg>>
  BY DEF Environment, ChatPersisted, ApiLinkLost, ApiCrash, BrokerRestart, RedisSnapshot,
         RedisRestart, Aside, workerVars
<1> QED
  BY <1>1, <1>2, <1>3, <1>4 DEF Step

LEMMA InsertFreshStep ==
  ASSUME StateOK, Step, Numbers, Origins, SingleCopy, InsertFresh
  PROVE  InsertFresh'
<1> SUFFICES ASSUME ~Unless(Exceptions)', NEW w \in Workers, step'[w] = "insert",
                    NEW s \in messages', chat'[s.request] = chat'[msg'[w].request],
                    s.number = msg'[w].number
             PROVE  FALSE
  BY DEF InsertFresh, MessageExists, IsMessageOf, ChatOf
<1> USE DEF StateOK
<1>0. ~Unless(Exceptions) /\ ~Unless({"redis_restart"}) /\ chat' = chat
  BY Stable DEF Unless, Exceptions
<1>1. IsMessageOf(s, msg[w]) /\ msg'[w] = msg[w]
  BY <1>0, BeforeInsert DEF IsMessageOf, ChatOf
<1>2. step[w] = "insert" /\ ~MessageExists(msg[w])
  BY <1>0, <1>1, BeforeInsert DEF InsertFresh, MessageExists
<1>3. PICK v \in Workers : Inserts(v) /\ s = RowOf(msg[v])
  BY <1>1, <1>2, RowsGrow DEF MessageExists, Inserts
<1>4. v # w /\ step[v] = "insert"
  BY <1>2, <1>3 DEF Inserts
<1>5. ChatOf(msg[v]) = ChatOf(msg[w]) /\ msg[v].number = msg[w].number
  BY <1>1, <1>3 DEF IsMessageOf, ChatOf, RowOf
<1>6. Sent(msg[v]) /\ Sent(msg[w]) /\ msg[v].request \in Requests /\ msg[w].request \in Requests
  BY <1>2, <1>4 DEF Origins, Message
<1>7. Same(msg[v], msg[w])
  BY <1>0, <1>5, <1>6 DEF Numbers, Numbered, Sent, Gone, AsksFor, ChatOf, Same
<1> QED
  BY <1>0, <1>2, <1>4, <1>7 DEF SingleCopy, Holding

LEMMA UniqueNumbersStep ==
  ASSUME StateOK, Step, InsertFresh, UniqueNumbers
  PROVE  UniqueNumbers'
<1> SUFFICES ASSUME UniqueIndex \/ ~Unless(Exceptions)', NEW m \in messages', NEW n \in messages',
                    ChatOf(m) = ChatOf(n), m.number = n.number
             PROVE  m = n
  BY Stable, MessageAssumption DEF UniqueNumbers, Exceptions, ChatOf
<1>1. UniqueIndex \/ ~Unless(Exceptions)
  BY UnlessStays
<1>2. m \in messages /\ n \in messages => m = n
  BY <1>1 DEF UniqueNumbers, Exceptions, ChatOf
<1>3. ASSUME NEW w \in Workers, Inserts(w) PROVE m = n
  <2>1. ~MessageExists(msg[w])
    BY <1>1, <1>3 DEF InsertFresh, Inserts, Duplicate
  <2>2. \A s \in messages : ~(ChatOf(s) = ChatOf(RowOf(msg[w])) /\ s.number = RowOf(msg[w]).number)
    BY <2>1 DEF MessageExists, IsMessageOf, ChatOf, RowOf
  <2> QED
    BY <1>2, <1>3, <2>2 DEF Inserts
<1> QED
  BY <1>2, <1>3, RowsGrow

\* Two rows of one chat never carry one number, while no SELECT on messages
\* fails, no worker loses its channel under a message and Redis keeps its
\* counters: requeueing for a missing chat, crashes, failed INSERTs that were
\* applied and restarts of RabbitMQ do not make the handler insert a number
\* twice (HandleMessage looks for the message and inserts it in two
\* statements).  With a unique index nothing makes it.
THEOREM NumbersNameOneMessage == Spec => []UniqueNumbers
<1> DEFINE UInv == SingleCopy /\ InsertFresh /\ UniqueNumbers
<1>1. Init => UInv
  BY DEF Init, SingleCopy, InsertFresh, UniqueNumbers, Holding
<1>2. StateOK /\ Provenance /\ UInv /\ [Next]_vars => UInv'
  BY NextIsStep, SingleCopyStep, InsertFreshStep, UniqueNumbersStep DEF Provenance
<1>3. UInv => UniqueNumbers
  OBVIOUS
<1> HIDE DEF UInv
<1> QED
  BY <1>1, <1>2, <1>3, ProvenanceHolds, PTL DEF Spec

-----------------------------------------------------------------------------
(***************************************************************************)
(* Counting.                                                               *)
(***************************************************************************)

\* Ids grow, so that an INSERT adds a row that is not there.
RowIds == \A m \in messages : m.id <= Cardinality(messages)

LEMMA RowOfIsNew ==
  ASSUME StateOK, RowIds, NEW m
  PROVE  RowOf(m) \notin messages
<1>1. Cardinality(messages) \in Nat
  BY FS_CardinalityType DEF StateOK
<1> QED
  BY <1>1 DEF RowIds, RowOf

LEMMA RowIdsStep ==
  ASSUME StateOK, Step, RowIds
  PROVE  RowIds'
<1>1. CASE messages' = messages
  BY <1>1 DEF RowIds
<1>2. ASSUME NEW w \in Workers, messages' = messages \cup {RowOf(msg[w])} PROVE RowIds'
  <2>1. Cardinality(messages) \in Nat /\ IsFiniteSet(messages)
    BY FS_CardinalityType DEF StateOK
  <2>2. Cardinality(messages') = Cardinality(messages) + 1
    BY <1>2, <2>1, RowOfIsNew, FS_AddElement
  <2>3. \A m \in messages : m.id \in Nat /\ m.id <= Cardinality(messages)
    BY DEF StateOK, MessageRow, RowIds
  <2>4. RowOf(msg[w]).id = Cardinality(messages) + 1
    BY DEF RowOf
  <2> QED
    BY <1>2, <2>1, <2>2, <2>3, <2>4 DEF RowIds
<1> QED
  BY <1>1, <1>2, RowsGrow DEF Inserts

\* What a step does to the count of chat c: nothing; a row and a worker that
\* has to count it; the worker counts it; or a crash or a failed INSERT leaves
\* a row that nobody will count.
LeavesAlone(c) == UNCHANGED <<delta[c], Uncounted(c), RowsOf(c)>>

Adds(c) ==
  /\ delta'[c] = delta[c]
  /\ \E w \in Workers \ Uncounted(c) : Uncounted(c)' = Uncounted(c) \cup {w}
  /\ \E m : m \notin RowsOf(c) /\ RowsOf(c)' = RowsOf(c) \cup {m}

Counts(c) ==
  /\ delta'[c] = delta[c] + 1
  /\ \E w \in Uncounted(c) : Uncounted(c)' = Uncounted(c) \ {w}
  /\ RowsOf(c)' = RowsOf(c)

Forgets(c) ==
  /\ delta'[c] = delta[c]
  /\ Uncounted(c)' \subseteq Uncounted(c)
  /\ RowsOf(c) \subseteq RowsOf(c)'
  /\ Unless({"crash", "db_write"})'

LEMMA CountStep ==
  ASSUME StateOK, [Next]_vars, RowIds, ~Unless({"redis", "redis_restart"})', NEW c \in Chats
  PROVE  LeavesAlone(c) \/ Adds(c) \/ Counts(c) \/ Forgets(c)
<1> USE DEF StateOK
<1>0. chat' = chat
  BY NextIsStep, Stable
<1>1. ASSUME UNCHANGED <<delta, messages, step, row>>
      PROVE  LeavesAlone(c)
  BY <1>0, <1>1 DEF LeavesAlone, Uncounted, RowsOf, ChatOf
<1>2. ASSUME NEW r \in Requests, Handler(r) PROVE LeavesAlone(c)
  <2>1. UNCHANGED <<delta, messages, step, row>>
    BY <1>2 DEF Handler, IncrementMessageCounter, IncrementDisturbed, PublishMessage,
                PublishUnconfirmed, PublishFails, Answer, redisVars, workerVars, storeVars
  <2> QED
    BY <1>1, <2>1
<1>3. ASSUME NEW w \in Workers, UNCHANGED <<delta, messages>>,
             step[w] # "incr", step'[w] # "incr",
             \A v \in Workers : v # w => step'[v] = step[v] /\ row'[v] = row[v]
      PROVE  LeavesAlone(c)
  BY <1>0, <1>3 DEF LeavesAlone, Uncounted, RowsOf, ChatOf
<1>4. ASSUME NEW w \in Workers, MessageWorker(w)
      PROVE  LeavesAlone(c) \/ Adds(c) \/ Counts(c)
  <2>1. CASE Deliver(w) \/ FindApp(w) \/ FindChat(w) \/ FindMessage(w)
             \/ CreateMessageRefused(w) \/ QueueForIndexing(w) \/ Ack(w) \/ Nack(w)
    BY <1>3, <2>1 DEF Deliver, FindApp, FindChat, FindMessage, CreateMessageRefused,
                      QueueForIndexing, Ack, Nack, Goto, redisVars, storeVars
  <2>2. CASE CreateMessage(w) /\ ~Duplicate(msg[w])
    <3>1. /\ delta' = delta /\ messages' = messages \cup {RowOf(msg[w])}
          /\ row'[w] = RowOf(msg[w]) /\ step[w] = "insert" /\ step'[w] = "incr"
          /\ \A v \in Workers : v # w => step'[v] = step[v] /\ row'[v] = row[v]
      BY <2>2 DEF CreateMessage, Inserted, Goto, redisVars
    <3>2. ChatOf(RowOf(msg[w])) = chat[msg[w].request] /\ RowOf(msg[w]).request = msg[w].request
      BY DEF ChatOf, RowOf
    <3>3. CASE chat[msg[w].request] = c
      <4>1. Uncounted(c)' = Uncounted(c) \cup {w} /\ w \notin Uncounted(c)
        BY <1>0, <3>1, <3>2, <3>3 DEF Uncounted, ChatOf
      <4>2. RowsOf(c)' = RowsOf(c) \cup {RowOf(msg[w])} /\ RowOf(msg[w]) \notin RowsOf(c)
        BY <1>0, <3>1, <3>2, <3>3, RowOfIsNew DEF RowsOf
      <4> QED
        BY <3>1, <4>1, <4>2 DEF Adds
    <3>4. CASE chat[msg[w].request] # c
      <4>1. Uncounted(c)' = Uncounted(c)
        BY <1>0, <3>1, <3>2, <3>4 DEF Uncounted, ChatOf
      <4>2. RowsOf(c)' = RowsOf(c)
        BY <1>0, <3>1, <3>2, <3>4 DEF RowsOf
      <4> QED
        BY <3>1, <4>1, <4>2 DEF LeavesAlone
    <3> QED
      BY <3>3, <3>4
  <2>3. CASE IncrementCounter(w)
    <3>1. /\ delta' = [delta EXCEPT ![ChatOf(row[w])] = @ + 1]
          /\ messages' = messages /\ row' = row
          /\ step[w] = "incr" /\ step' = [step EXCEPT ![w] = "publish"]
      BY <2>3 DEF IncrementCounter, Goto, storeVars
    <3>2. RowsOf(c)' = RowsOf(c)
      BY <1>0, <3>1 DEF RowsOf
    <3>3. CASE ChatOf(row[w]) = c
      <4>1. Uncounted(c)' = Uncounted(c) \ {w} /\ w \in Uncounted(c)
        BY <1>0, <3>1, <3>3 DEF Uncounted, ChatOf
      <4>2. delta'[c] = delta[c] + 1
        BY <3>1, <3>3
      <4> QED
        BY <3>2, <4>1, <4>2 DEF Counts
    <3>4. CASE ChatOf(row[w]) # c
      <4>1. Uncounted(c)' = Uncounted(c)
        BY <1>0, <3>1, <3>4 DEF Uncounted, ChatOf
      <4>2. delta'[c] = delta[c]
        BY <3>1, <3>4
      <4> QED
        BY <3>2, <4>1, <4>2 DEF LeavesAlone
    <3> QED
      BY <3>3, <3>4
  <2>4. CASE CreateMessage(w) /\ Duplicate(msg[w])
    BY <1>3, <2>4 DEF CreateMessage, Inserted, Goto, redisVars
  <2> QED
    BY <1>4, <2>1, <2>2, <2>3, <2>4 DEF MessageWorker
<1>5. ASSUME NEW w \in Workers, HandlerFault(w) \/ ProcessFault(w)
      PROVE  LeavesAlone(c) \/ Forgets(c)
  <2>1. CASE FindAppFails(w) \/ FindChatFails(w) \/ FindMessageFails(w)
    BY <1>3, <2>1 DEF FindAppFails, FindChatFails, FindMessageFails, Goto, redisVars, storeVars
  <2>2. CASE CreateMessageFails(w)
    <3>1. "db_write" \in happened' /\ messages \subseteq messages' /\ delta' = delta
      BY <2>2 DEF CreateMessageFails, Inserted, Fault, redisVars
    <3>2. Uncounted(c)' = Uncounted(c)
      BY <1>0, <2>2 DEF CreateMessageFails, Goto, Uncounted, ChatOf
    <3> QED
      BY <1>0, <3>1, <3>2 DEF Forgets, RowsOf, Unless
  <2>3. CASE WorkerLinkLost(w)
    BY <1>1, <2>3 DEF WorkerLinkLost, redisVars, storeVars
  <2>4. CASE CrashAndRestart(w)
    <3>1. "crash" \in happened' /\ messages' = messages /\ delta' = delta
      BY <2>4 DEF CrashAndRestart, End, Fault, redisVars, storeVars
    <3>2. Uncounted(c)' \subseteq Uncounted(c)
      BY <1>0, <2>4 DEF CrashAndRestart, End, Uncounted, ChatOf
    <3> QED
      BY <1>0, <3>1, <3>2 DEF Forgets, RowsOf, Unless
  <2>5. ~IncrementCounterDisturbed(w)
    BY DEF IncrementCounterDisturbed, Fault, Unless
  <2> QED
    BY <1>5, <2>1, <2>2, <2>3, <2>4, <2>5 DEF HandlerFault, ProcessFault
<1>6. CASE Environment
  <2>1. ~RedisRestart
    BY DEF RedisRestart, Fault, Unless
  <2> QED
    BY <1>1, <1>6, <2>1 DEF Environment, ChatPersisted, ApiLinkLost, ApiCrash, BrokerRestart,
                            RedisSnapshot, redisVars, workerVars, storeVars
<1>7. CASE UNCHANGED vars
  BY <1>1, <1>7 DEF vars, redisVars, workerVars, storeVars
<1> QED
  BY <1>2, <1>4, <1>5, <1>6, <1>7 DEF Next

\* The sizes that CountsExact compares.
LEMMA Sizes ==
  ASSUME StateOK, NEW c \in Chats
  PROVE  /\ IsFiniteSet(Uncounted(c)) /\ Cardinality(Uncounted(c)) \in Nat
         /\ IsFiniteSet(RowsOf(c)) /\ Cardinality(RowsOf(c)) \in Nat
         /\ delta[c] \in Nat
<1>1. IsFiniteSet(Uncounted(c))
  BY MessageAssumption, FS_Subset DEF Uncounted
<1>2. IsFiniteSet(RowsOf(c))
  BY FS_Subset DEF RowsOf, StateOK
<1> QED
  BY <1>1, <1>2, FS_CardinalityType DEF StateOK

LEMMA CountingStep ==
  ASSUME StateOK, StateOK', [Next]_vars, RowIds, ~Unless({"redis", "redis_restart"})',
         NEW c \in Chats
  PROVE  /\ delta[c] + Cardinality(Uncounted(c)) <= Cardinality(RowsOf(c))
              => (delta[c] + Cardinality(Uncounted(c)) <= Cardinality(RowsOf(c)))'
         /\ ~Unless({"crash", "db_write"})'
            /\ delta[c] + Cardinality(Uncounted(c)) = Cardinality(RowsOf(c))
              => (delta[c] + Cardinality(Uncounted(c)) = Cardinality(RowsOf(c)))'
<1>1. CASE LeavesAlone(c)
  BY <1>1 DEF LeavesAlone
<1>2. CASE Adds(c)
  <2>1. Cardinality(Uncounted(c)') = Cardinality(Uncounted(c)) + 1
    BY <1>2, Sizes, FS_AddElement DEF Adds
  <2>2. Cardinality(RowsOf(c)') = Cardinality(RowsOf(c)) + 1
    BY <1>2, Sizes, FS_AddElement DEF Adds
  <2> QED
    BY <1>2, <2>1, <2>2, Sizes DEF Adds
<1>3. CASE Counts(c)
  <2>1. Cardinality(Uncounted(c)') = Cardinality(Uncounted(c)) - 1
    BY <1>3, Sizes, FS_RemoveElement DEF Counts
  <2> QED
    BY <1>3, <2>1, Sizes DEF Counts
<1>4. CASE Forgets(c)
  <2>1. Cardinality(Uncounted(c)') <= Cardinality(Uncounted(c))
    BY <1>4, Sizes, FS_Subset DEF Forgets
  <2>2. IsFiniteSet(RowsOf(c)') /\ Cardinality(RowsOf(c)') \in Nat
    BY FS_Subset, FS_CardinalityType DEF RowsOf, StateOK
  <2>3. Cardinality(RowsOf(c)) <= Cardinality(RowsOf(c)')
    BY <1>4, <2>2, FS_Subset DEF Forgets
  <2>4. Cardinality(Uncounted(c)') \in Nat
    BY <1>4, Sizes, FS_Subset, FS_CardinalityType DEF Forgets
  <2> QED
    BY <1>4, <2>1, <2>2, <2>3, <2>4, Sizes DEF Forgets
<1> QED
  BY <1>1, <1>2, <1>3, <1>4, CountStep

LEMMA CountsExactStep ==
  ASSUME StateOK, [Next]_vars, RowIds, CountsExact
  PROVE  CountsExact'
<1>1. StateOK'
  BY StateStep, NextIsStep
<1>2. ASSUME NEW kinds, Unless(kinds) PROVE Unless(kinds)'
  BY <1>2, UnlessStays, NextIsStep
<1> SUFFICES ASSUME ~Unless({"redis", "redis_restart"})', NEW c \in Chats
             PROVE  /\ (delta[c] + Cardinality(Uncounted(c)) <= Cardinality(RowsOf(c)))'
                    /\ \/ (delta[c] + Cardinality(Uncounted(c)) = Cardinality(RowsOf(c)))'
                       \/ Unless({"crash", "db_write"})'
  BY DEF CountsExact
<1>3. /\ delta[c] + Cardinality(Uncounted(c)) <= Cardinality(RowsOf(c))
      /\ \/ delta[c] + Cardinality(Uncounted(c)) = Cardinality(RowsOf(c))
         \/ Unless({"crash", "db_write"})
  BY <1>2 DEF CountsExact
<1> QED
  BY <1>1, <1>2, <1>3, CountingStep

\* The delta of a chat is the number of its rows but for those that a worker is
\* about to count, as long as Redis carries out and keeps what it is told; a
\* crash between INSERT and INCR, or an INSERT that was applied and failed,
\* only lets it miss a row, and no redelivery counts one twice
\* (HandleMessage, incrementCounter).
THEOREM RowsCountedExactly == Spec => []CountsExact
<1>1. Init => RowIds /\ CountsExact
  <2>1. ASSUME Init, NEW c \in Chats
        PROVE  delta[c] = 0 /\ Uncounted(c) = {} /\ RowsOf(c) = {}
    BY <2>1 DEF Init, Uncounted, RowsOf
  <2>2. Cardinality({}) = 0
    BY FS_EmptySet
  <2>3. Init => messages = {}
    BY DEF Init
  <2>4. Init => CountsExact
    BY <2>1, <2>2 DEF CountsExact
  <2> QED
    BY <2>3, <2>4 DEF RowIds
<1>2. StateOK /\ RowIds /\ CountsExact /\ [Next]_vars => (RowIds /\ CountsExact)'
  BY CountsExactStep, RowIdsStep, NextIsStep
<1> QED
  BY <1>1, <1>2, ProvenanceHolds, PTL DEF Spec

-----------------------------------------------------------------------------
(***************************************************************************)
(* Rows go to indexing_queue.                                              *)
(***************************************************************************)

\* A worker has a row only between the INSERT and the publication.
RowsHeld == \A w \in Workers : row[w] # Nothing => step[w] \in {"incr", "publish"}

LEMMA RowsHeldStep ==
  ASSUME StateOK, Step, RowsHeld
  PROVE  RowsHeld'
<1> USE DEF StateOK, RowsHeld
<1>1. ASSUME NEW r \in Requests, Handler(r) PROVE RowsHeld'
  BY <1>1 DEF Handler, IncrementMessageCounter, IncrementDisturbed, PublishMessage,
              PublishUnconfirmed, PublishFails, Answer, workerVars
<1>2. ASSUME NEW w \in Workers, MessageWorker(w) PROVE RowsHeld'
  BY <1>2 DEF MessageWorker, Deliver, FindApp, FindChat, FindMessage, CreateMessage,
              CreateMessageRefused, IncrementCounter, QueueForIndexing, Ack, Nack, Goto
<1>3. ASSUME NEW w \in Workers, HandlerFault(w) PROVE RowsHeld'
  BY <1>3 DEF HandlerFault, FindAppFails, FindChatFails, FindMessageFails, CreateMessageFails,
              IncrementCounterDisturbed, Goto
<1>4. ASSUME NEW w \in Workers, WorkerLinkLost(w) \/ Ends(w) PROVE RowsHeld'
  BY <1>4 DEF WorkerLinkLost, Ends, End
<1>5. CASE Environment \/ Aside
  BY <1>5 DEF Environment, ChatPersisted, ApiLinkLost, ApiCrash, BrokerRestart, RedisSnapshot,
              RedisRestart, Aside, workerVars
<1> QED
  BY <1>1, <1>2, <1>3, <1>4, <1>5 DEF Step

\* The steps that neither end a process nor close a go-worker's channel.
Quiet ==
  \/ \E r \in Requests : Handler(r)
  \/ \E w \in Workers : MessageWorker(w) \/ HandlerFault(w)
  \/ \E c \in Created : ChatPersisted(c)
  \/ ApiLinkLost \/ ApiCrash \/ RedisSnapshot \/ RedisRestart
  \/ Aside

AllLinked     == \A w \in Workers : linked[w]
RowsPublished == \A m \in messages : m \in indexing \/ \E w \in Workers : row[w] = m

LEMMA RowsPublishedStep ==
  ASSUME StateOK, Quiet, RowsHeld, AllLinked, RowsPublished, ~Unless({"db_write"})'
  PROVE  AllLinked' /\ RowsPublished'
<1> USE DEF StateOK, RowsPublished, AllLinked
<1>0. linked' = linked
  BY WorkerMoves DEF Quiet, Handler, IncrementMessageCounter, IncrementDisturbed, PublishMessage,
     PublishUnconfirmed, PublishFails, Answer, ChatPersisted, ApiLinkLost, ApiCrash, RedisSnapshot, RedisRestart,
     Aside, workerVars
<1>1. ASSUME UNCHANGED <<messages, indexing, row>> PROVE RowsPublished'
  BY <1>1
<1>2. ASSUME NEW r \in Requests, Handler(r) PROVE UNCHANGED <<messages, indexing, row>>
  BY <1>2 DEF Handler, IncrementMessageCounter, IncrementDisturbed, PublishMessage,
              PublishUnconfirmed, PublishFails, Answer, workerVars, storeVars
<1>3. ASSUME NEW w \in Workers, MessageWorker(w) PROVE RowsPublished'
  <2>1. CASE CreateMessage(w)
    <3>1. row[w] = Nothing
      BY <2>1 DEF CreateMessage, Goto, RowsHeld
    <3>2. \A m \in messages : m # Nothing
      BY MessageAssumption DEF MessageRow
    <3> QED
      BY <2>1, <3>1, <3>2 DEF CreateMessage, Inserted
  <2>2. CASE QueueForIndexing(w)
    BY <2>2 DEF QueueForIndexing
  <2>3. CASE ~(CreateMessage(w) \/ QueueForIndexing(w))
    BY <1>1, <1>3, <2>3 DEF MessageWorker, Deliver, FindApp, FindChat, FindMessage,
                            CreateMessageRefused, IncrementCounter, Ack, Nack, storeVars
  <2> QED
    BY <2>1, <2>2, <2>3
<1>4. ASSUME NEW w \in Workers, HandlerFault(w) PROVE UNCHANGED <<messages, indexing, row>>
  <2>1. ~CreateMessageFails(w)
    BY DEF CreateMessageFails, Fault, Unless
  <2> QED
    BY <1>4, <2>1 DEF HandlerFault, FindAppFails, FindChatFails, FindMessageFails,
                      IncrementCounterDisturbed, storeVars
<1>5. (\E c \in Created : ChatPersisted(c)) \/ ApiLinkLost \/ ApiCrash \/ RedisSnapshot \/ RedisRestart
        \/ Aside
        => UNCHANGED <<messages, indexing, row>>
  BY DEF ChatPersisted, ApiLinkLost, ApiCrash, RedisSnapshot, RedisRestart, Aside, workerVars, storeVars
<1> QED
  BY <1>0, <1>1, <1>2, <1>3, <1>4, <1>5 DEF Quiet

\* Every row is published to indexing_queue or is in the hands of the worker
\* that will, unless a process dies, an INSERT fails, or a channel closes:
\* lost counts, failed SELECTs and redeliveries leave none behind
\* (HandleMessage, queueForIndexing).
THEOREM RowsArePublished == Spec => []RowsReachIndexing
<1> DEFINE Enders == {"crash", "db_write", "worker_link", "broker"}
           RInv == RowsHeld /\ (Unless(Enders) \/ (AllLinked /\ RowsPublished))
<1>1. Init => RInv
  BY DEF Init, RowsHeld, AllLinked, RowsPublished
<1>2. StateOK /\ RInv /\ [Next]_vars => RInv'
  <2> SUFFICES ASSUME StateOK, RInv, [Next]_vars, ~Unless(Enders)'
               PROVE  AllLinked' /\ RowsPublished'
    BY RowsHeldStep, NextIsStep
  <2>1. ~Unless(Enders)
    BY UnlessStays, NextIsStep
  <2>2. Quiet
    BY NextIsStep DEF Next, vars, faultVars, Aside, Environment, ProcessFault, WorkerLinkLost,
                      CrashAndRestart, BrokerRestart, Fault, Unless, Quiet
  <2> QED
    BY <2>1, <2>2, RowsPublishedStep DEF Unless
<1>3. RInv => RowsReachIndexing
  BY DEF RowsReachIndexing, RowsPublished
<1> HIDE DEF RInv
<1> QED
  BY <1>1, <1>2, <1>3, ProvenanceHolds, PTL DEF Spec

===============================================================================
