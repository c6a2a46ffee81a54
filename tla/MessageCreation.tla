---------------------------- MODULE MessageCreation ----------------------------
(***************************************************************************)
(* How a message comes into being.  A go-chat request handler draws the    *)
(* message's number from a Redis counter of its chat, publishes it to      *)
(* messages_queue and answers 200; a go-worker process consumes it, waits  *)
(* for the chat's row by requeueing it, inserts the message's row, counts  *)
(* it in a Redis delta and publishes it to indexing_queue.                 *)
(*                                                                         *)
(* One action is one call to Redis, RabbitMQ or MySQL.                     *)
(***************************************************************************)
EXTENDS Naturals, FiniteSets, BrokerQueue, Failures

CONSTANTS
  Chats,      \* the pairs of a token and a chat number in requests' URLs
  Refused,    \* those that name no application, or the chat number 0
  Created,    \* those whose row the chat workers insert sooner or later
  Contents,   \* what requests carry: content that "fits" MySQL's TEXT, or a
              \*   "too_long" one; nothing limits it but that it is not empty
  Requests,   \* the POST .../messages requests of a run
  Workers,    \* go-worker processes
  UniqueIndex, \* whether MySQL rejects a second message (chat_id, number)
  Sends,      \* how often go-redis sends a command whose reply is lost
  Nothing     \* a worker's message or row when it has none

FaultKinds ==
  { "redis",          \* the reply to a Redis command is lost
    "redis_restart",  \* Redis comes back with the data of its last snapshot
    "find_app",       \* the SELECT on applications returns an error,
    "find_chat",      \*   the one on chats does,
    "find_message",   \*   or the one on messages, other than "no rows"
    "db_write",       \* an INSERT returns an error, applied or not
    "worker_link",    \* a go-worker process loses its AMQP channel
    "api_link",       \* go-chat loses its AMQP channel
    "api_crash",      \* go-chat dies, and somebody starts it again
    "crash",          \* a go-worker process dies and is restarted
    "broker" }        \* RabbitMQ restarts

ASSUME MessageAssumption ==
  /\ Refused \subseteq Chats
  /\ Created \subseteq Chats \ Refused
  /\ Contents \subseteq {"fits", "too_long"}
  /\ IsFiniteSet(Workers)
  /\ UniqueIndex \in BOOLEAN
  /\ Sends \in Nat \ {0}
  /\ MaxFaults \in Nat
  /\ Nothing \notin [pos : Nat, request : Requests, number : Nat]
  /\ Nothing \notin [id : Nat, request : Requests, number : Nat]

VARIABLES
  phase,         \* phase[r]: how far the handler of request r is
  chat,          \* chat[r]: the chat that r's URL names
  content,       \* content[r]: what r's body has for content
  number,        \* number[r]: the message number drawn for r, 0 before
  apiLinked,     \* go-chat's AMQP channel is open
  counter,       \* Redis app:<token>:chat:<number>:messages_count
  delta,         \* Redis delta:chat:<id>:messages
  saved,         \* the last Redis snapshot: [counter, delta]
  messagesQueue, \* ready messages of messages_queue
  published,     \* how many messages were published to it
  chatRows,      \* the chats that have their row in MySQL
  linked,        \* linked[w]: the AMQP channel of process w is open
  step,          \* step[w]: where the message consumer of process w is
  msg,           \* msg[w]: the delivery that it handles
  row,           \* row[w]: the row that it inserted
  messages,      \* rows of MySQL's messages
  indexing       \* the rows that were published to indexing_queue

apiVars    == <<phase, chat, content, number, apiLinked>>
redisVars  == <<counter, delta, saved>>
brokerVars == <<messagesQueue, published>>
workerVars == <<linked, step, msg, row>>
storeVars  == <<chatRows, messages, indexing>>
vars == <<apiVars, redisVars, brokerVars, workerVars, storeVars, faultVars>>

Phases == {"new", "numbered", "queued", "accepted", "failed", "cut"}
Steps  == { "idle", "findApp", "findChat", "findMessage", "insert", "incr",
            "publish", "ack", "nack" }

\* What request r asks for is its message; the rest of the payload follows.
Message    == [pos : Nat, request : Requests, number : Nat]
MessageRow == [id : Nat, request : Requests, number : Nat]

StateOK ==
  /\ phase \in [Requests -> Phases]
  /\ chat \in [Requests -> Chats]
  /\ content \in [Requests -> Contents]
  /\ number \in [Requests -> Nat]
  /\ apiLinked \in BOOLEAN
  /\ counter \in [Chats -> Nat]
  /\ delta \in [Chats -> Nat]
  /\ saved \in [counter : [Chats -> Nat], delta : [Chats -> Nat]]
  /\ messagesQueue \subseteq Message
  /\ published \in Nat
  /\ chatRows \subseteq Created
  /\ linked \in [Workers -> BOOLEAN]
  /\ step \in [Workers -> Steps]
  /\ msg \in [Workers -> Message \cup {Nothing}]
  /\ row \in [Workers -> MessageRow \cup {Nothing}]
  /\ \A w \in Workers :
       /\ step[w] # "idle" => msg[w] \in Message
       /\ step[w] \in {"findMessage", "insert"} => chat[msg[w].request] \in chatRows
       /\ step[w] \in {"incr", "publish"} => row[w] \in messages
  /\ messages \subseteq MessageRow
  /\ IsFiniteSet(messages)
  /\ \A m \in messages : chat[m.request] \in chatRows
  /\ indexing \subseteq messages

TypeOK == StateOK /\ FaultsOK(FaultKinds)

Init ==
  /\ phase = [r \in Requests |-> "new"]
  /\ chat \in [Requests -> Chats]
  /\ content \in [Requests -> Contents]
  /\ number = [r \in Requests |-> 0]
  /\ apiLinked = TRUE
  /\ counter = [c \in Chats |-> 0]
  /\ delta = [c \in Chats |-> 0]
  /\ saved = [counter |-> counter, delta |-> delta]
  /\ messagesQueue = {}
  /\ published = 0
  /\ chatRows = {}
  /\ linked = [w \in Workers |-> TRUE]
  /\ step = [w \in Workers |-> "idle"]
  /\ msg = [w \in Workers |-> Nothing]
  /\ row = [w \in Workers |-> Nothing]
  /\ messages = {}
  /\ indexing = {}
  /\ happened = {}
  /\ failures = 0

-----------------------------------------------------------------------------
(***************************************************************************)
(* go-chat: CreateMessageHandler.  Nothing checks that the chat exists.    *)
(***************************************************************************)

\* INCR app:<token>:chat:<number>:messages_count.
IncrementMessageCounter(r) ==
  /\ phase[r] = "new"
  /\ counter' = [counter EXCEPT ![chat[r]] = @ + 1]
  /\ number' = [number EXCEPT ![r] = counter[chat[r]] + 1]
  /\ phase' = [phase EXCEPT ![r] = "numbered"]
  /\ NoFault
  /\ UNCHANGED <<chat, content, apiLinked, delta, saved, brokerVars, workerVars, storeVars>>

\* Replies to INCR are lost: it was carried out k times, and either the last
\* reply arrives or the client gets a 500.
IncrementDisturbed(r) ==
  /\ phase[r] = "new"
  /\ Fault("redis")
  /\ \E k \in 0..Sends :
       /\ counter' = [counter EXCEPT ![chat[r]] = @ + k]
       /\ \/ /\ k > 0
             /\ number' = [number EXCEPT ![r] = counter[chat[r]] + k]
             /\ phase' = [phase EXCEPT ![r] = "numbered"]
          \/ /\ phase' = [phase EXCEPT ![r] = "failed"]
             /\ UNCHANGED number
  /\ UNCHANGED <<chat, content, apiLinked, delta, saved, brokerVars, workerVars, storeVars>>

\* Mutant: the handler gives up waiting for a confirm, and answers 500 to a
\* message that is in the queue.
PublishGivesUp(r) ==
  /\ phase[r] = "numbered"
  /\ apiLinked
  /\ messagesQueue' = messagesQueue \cup
       {[pos |-> published, request |-> r, number |-> number[r]]}
  /\ published' = published + 1
  /\ \E p \in {"queued", "failed"} : phase' = [phase EXCEPT ![r] = p]
  /\ NoFault
  /\ UNCHANGED <<chat, content, number, apiLinked, redisVars, workerVars, storeVars>>

\* The payload goes to messages_queue.
PublishMessage(r) ==
  /\ phase[r] = "numbered"
  /\ apiLinked
  /\ messagesQueue' = messagesQueue \cup
       {[pos |-> published, request |-> r, number |-> number[r]]}
  /\ published' = published + 1
  /\ phase' = [phase EXCEPT ![r] = "queued"]
  /\ NoFault
  /\ UNCHANGED <<chat, content, number, apiLinked, redisVars, workerVars, storeVars>>

\* A payload written to a connection that is breaking is lost.
PublishUnconfirmed(r) ==
  /\ phase[r] = "numbered"
  /\ apiLinked
  /\ Fault("api_link")
  /\ apiLinked' = FALSE
  /\ phase' = [phase EXCEPT ![r] = "queued"]
  /\ UNCHANGED <<chat, content, number, redisVars, brokerVars, workerVars, storeVars>>

\* Publishing on a closed channel fails: 500.
PublishFails(r) ==
  /\ phase[r] = "numbered"
  /\ ~apiLinked
  /\ phase' = [phase EXCEPT ![r] = "failed"]
  /\ NoFault
  /\ UNCHANGED <<chat, content, number, apiLinked, redisVars, brokerVars, workerVars, storeVars>>

\* The client gets a 200: by then a worker may have stored the message.
Answer(r) ==
  /\ phase[r] = "queued"
  /\ phase' = [phase EXCEPT ![r] = "accepted"]
  /\ NoFault
  /\ UNCHANGED <<chat, content, number, apiLinked, redisVars, brokerVars, workerVars, storeVars>>

-----------------------------------------------------------------------------
(***************************************************************************)
(* go-worker: the consumer of messages_queue, MessageWorker.HandleMessage. *)
(***************************************************************************)
Goto(w, here, there) ==
  /\ step[w] = here
  /\ step' = [step EXCEPT ![w] = there]

ChatOf(m) == chat[m.request]

\* Row s is what FindMessageByChatAndNumber finds for message m.
IsMessageOf(s, m) == ChatOf(s) = ChatOf(m) /\ s.number = m.number

MessageExists(m) == \E s \in messages : IsMessageOf(s, m)

Deliver(w) ==
  /\ linked[w]
  /\ Goto(w, "idle", "findApp")
  /\ \E m \in messagesQueue :
       /\ AtFront(m, messagesQueue)
       /\ messagesQueue' = messagesQueue \ {m}
       /\ msg' = [msg EXCEPT ![w] = m]
  /\ NoFault
  /\ UNCHANGED <<apiVars, redisVars, published, linked, row, storeVars>>

\* A message without a chat number or an application ends the handler with nil.
FindApp(w) ==
  /\ Goto(w, "findApp", IF ChatOf(msg[w]) \in Refused THEN "ack" ELSE "findChat")
  /\ NoFault
  /\ UNCHANGED <<apiVars, redisVars, brokerVars, linked, msg, row, storeVars>>

\* Any error of the query ends it the same way.
FindAppFails(w) ==
  /\ Goto(w, "findApp", "ack")
  /\ Fault("find_app")
  /\ UNCHANGED <<apiVars, redisVars, brokerVars, linked, msg, row, storeVars>>

\* Mutant: a message without a chat is acknowledged, like one without an
\* application.
FindChatDrops(w) ==
  /\ Goto(w, "findChat", IF ChatOf(msg[w]) \in chatRows THEN "findMessage" ELSE "ack")
  /\ NoFault
  /\ UNCHANGED <<apiVars, redisVars, brokerVars, linked, msg, row, storeVars>>

\* Mutant: the chat is not looked at before its id is used.
FindChatUnchecked(w) ==
  /\ Goto(w, "findChat", "findMessage")
  /\ NoFault
  /\ UNCHANGED <<apiVars, redisVars, brokerVars, linked, msg, row, storeVars>>

\* A chat without a row may still be on its way: the message is requeued.
FindChat(w) ==
  /\ Goto(w, "findChat", IF ChatOf(msg[w]) \in chatRows THEN "findMessage" ELSE "nack")
  /\ NoFault
  /\ UNCHANGED <<apiVars, redisVars, brokerVars, linked, msg, row, storeVars>>

\* An error of the query is taken for a chat without a row.
FindChatFails(w) ==
  /\ Goto(w, "findChat", "nack")
  /\ Fault("find_chat")
  /\ UNCHANGED <<apiVars, redisVars, brokerVars, linked, msg, row, storeVars>>

\* Mutant: the look before the insert is dropped.
FindMessageUnchecked(w) ==
  /\ Goto(w, "findMessage", "insert")
  /\ NoFault
  /\ UNCHANGED <<apiVars, redisVars, brokerVars, linked, msg, row, storeVars>>

\* A message that is already there ends the handler with nil.
FindMessage(w) ==
  /\ Goto(w, "findMessage", IF MessageExists(msg[w]) THEN "ack" ELSE "insert")
  /\ NoFault
  /\ UNCHANGED <<apiVars, redisVars, brokerVars, linked, msg, row, storeVars>>

\* An error of the query is taken for "no such message".
FindMessageFails(w) ==
  /\ Goto(w, "findMessage", "insert")
  /\ Fault("find_message")
  /\ UNCHANGED <<apiVars, redisVars, brokerVars, linked, msg, row, storeVars>>

RowOf(m) ==
  [id |-> Cardinality(messages) + 1, request |-> m.request, number |-> m.number]

Fits(m)      == content[m.request] = "fits"
Duplicate(m) == UniqueIndex /\ MessageExists(m)
Inserted(m)  == IF Fits(m) /\ ~Duplicate(m) THEN messages \cup {RowOf(m)} ELSE messages

\* Mutant: the handler does not count the row.
CreateMessageUncounted(w) ==
  /\ Goto(w, "insert", IF Duplicate(msg[w]) THEN "ack" ELSE "publish")
  /\ Fits(msg[w])
  /\ messages' = Inserted(msg[w])
  /\ row' = IF Duplicate(msg[w]) THEN row ELSE [row EXCEPT ![w] = RowOf(msg[w])]
  /\ NoFault
  /\ UNCHANGED <<apiVars, redisVars, brokerVars, linked, msg, chatRows, indexing>>

\* A duplicate-key error ends the handler with nil; the schema has no unique
\* index, and every INSERT of what fits adds a row.
CreateMessage(w) ==
  /\ Goto(w, "insert", IF Duplicate(msg[w]) THEN "ack" ELSE "incr")
  /\ Fits(msg[w])
  /\ messages' = Inserted(msg[w])
  /\ row' = IF Duplicate(msg[w]) THEN row ELSE [row EXCEPT ![w] = RowOf(msg[w])]
  /\ NoFault
  /\ UNCHANGED <<apiVars, redisVars, brokerVars, linked, msg, chatRows, indexing>>

\* MySQL refuses what is too long for the column, on every try.
CreateMessageRefused(w) ==
  /\ Goto(w, "insert", "nack")
  /\ ~Fits(msg[w])
  /\ NoFault
  /\ UNCHANGED <<apiVars, redisVars, brokerVars, linked, msg, row, storeVars>>

\* Mutant: the handler goes on after an error of the INSERT.
CreateMessageFailsGoesOn(w) ==
  /\ Goto(w, "insert", "incr")
  /\ row' = [row EXCEPT ![w] = RowOf(msg[w])]
  /\ Fault("db_write")
  /\ UNCHANGED <<apiVars, redisVars, brokerVars, linked, msg, storeVars>>

\* Mutant: an error of the INSERT ends the handler with nil.
CreateMessageSwallowed(w) ==
  /\ Goto(w, "insert", "ack")
  /\ messages' \in {messages, Inserted(msg[w])}
  /\ Fault("db_write")
  /\ UNCHANGED <<apiVars, redisVars, brokerVars, linked, msg, row, chatRows, indexing>>

\* Exec returns another error; the row may have been stored all the same.
CreateMessageFails(w) ==
  /\ Goto(w, "insert", "nack")
  /\ messages' \in {messages, Inserted(msg[w])}
  /\ Fault("db_write")
  /\ UNCHANGED <<apiVars, redisVars, brokerVars, linked, msg, row, chatRows, indexing>>

\* INCR delta:chat:<id>:messages.
IncrementCounter(w) ==
  /\ Goto(w, "incr", "publish")
  /\ delta' = [delta EXCEPT ![ChatOf(row[w])] = @ + 1]
  /\ NoFault
  /\ UNCHANGED <<apiVars, counter, saved, brokerVars, linked, msg, row, storeVars>>

\* Mutant: an error of that INCR ends the handler, before the publication.
IncrementCounterReturns(w) ==
  /\ Goto(w, "incr", "ack")
  /\ Fault("redis")
  /\ \E k \in 0..Sends : delta' = [delta EXCEPT ![ChatOf(row[w])] = @ + k]
  /\ row' = [row EXCEPT ![w] = Nothing]
  /\ UNCHANGED <<apiVars, counter, saved, brokerVars, linked, msg, storeVars>>

\* Replies to that INCR are lost; an error is only logged.
IncrementCounterDisturbed(w) ==
  /\ Goto(w, "incr", "publish")
  /\ Fault("redis")
  /\ \E k \in 0..Sends : delta' = [delta EXCEPT ![ChatOf(row[w])] = @ + k]
  /\ UNCHANGED <<apiVars, counter, saved, brokerVars, linked, msg, row, storeVars>>

\* The row goes to indexing_queue; on a closed channel that fails, and the
\* error is only logged.  Publishing while the channel breaks comes to the
\* same as losing it just before.
QueueForIndexing(w) ==
  /\ Goto(w, "publish", "ack")
  /\ indexing' = IF linked[w] THEN indexing \cup {row[w]} ELSE indexing
  /\ row' = [row EXCEPT ![w] = Nothing]
  /\ NoFault
  /\ UNCHANGED <<apiVars, redisVars, brokerVars, linked, msg, chatRows, messages>>

\* On a closed channel Ack and Nack do nothing.
Ack(w) ==
  /\ Goto(w, "ack", "idle")
  /\ msg' = [msg EXCEPT ![w] = Nothing]
  /\ NoFault
  /\ UNCHANGED <<apiVars, redisVars, brokerVars, linked, row, storeVars>>

\* Mutant: Nack(false, false) drops the message.
NackDropped(w) ==
  /\ Goto(w, "nack", "idle")
  /\ msg' = [msg EXCEPT ![w] = Nothing]
  /\ NoFault
  /\ UNCHANGED <<apiVars, redisVars, brokerVars, linked, row, storeVars>>

\* The message goes back to its place at the head of the queue.
Nack(w) ==
  /\ Goto(w, "nack", "idle")
  /\ messagesQueue' = IF linked[w] THEN messagesQueue \cup {msg[w]} ELSE messagesQueue
  /\ msg' = [msg EXCEPT ![w] = Nothing]
  /\ NoFault
  /\ UNCHANGED <<apiVars, redisVars, published, linked, row, storeVars>>

-----------------------------------------------------------------------------
(***************************************************************************)
(* The environment.                                                        *)
(***************************************************************************)

\* The chat workers insert the row of chat c.
ChatPersisted(c) ==
  /\ c \in Created \ chatRows
  /\ chatRows' = chatRows \cup {c}
  /\ NoFault
  /\ UNCHANGED <<apiVars, redisVars, brokerVars, workerVars, messages, indexing>>

\* What the broker does with w's delivery when w's channel closes.
Unacked(w) == IF linked[w] /\ step[w] # "idle" THEN {msg[w]} ELSE {}

\* w's channel closes: its delivery is requeued while the handler goes on,
\* without a channel to publish to.  Nothing reconnects.
WorkerLinkLost(w) ==
  /\ linked[w]
  /\ Fault("worker_link")
  /\ linked' = [linked EXCEPT ![w] = FALSE]
  /\ messagesQueue' = messagesQueue \cup Unacked(w)
  /\ UNCHANGED <<apiVars, redisVars, published, step, msg, row, storeVars>>

\* The process of w ends; with again, its container starts it once more, with a
\* new connection.
End(w, again) ==
  /\ linked' = [linked EXCEPT ![w] = again]
  /\ step' = [step EXCEPT ![w] = "idle"]
  /\ msg' = [msg EXCEPT ![w] = Nothing]
  /\ row' = [row EXCEPT ![w] = Nothing]
  /\ messagesQueue' = messagesQueue \cup Unacked(w)
  /\ UNCHANGED <<apiVars, redisVars, published, storeVars>>

CrashAndRestart(w) ==
  /\ Fault("crash")
  /\ End(w, TRUE)

ApiLinkLost ==
  /\ apiLinked
  /\ Fault("api_link")
  /\ apiLinked' = FALSE
  /\ UNCHANGED <<phase, chat, content, number, redisVars, brokerVars, workerVars, storeVars>>

\* Clients whose request go-chat was handling get no answer.  Compose does not
\* start it again, somebody may; then it has a new connection.
ApiCrash ==
  /\ Fault("api_crash")
  /\ phase' = [r \in Requests |-> IF phase[r] \in {"numbered", "queued"} THEN "cut" ELSE phase[r]]
  /\ apiLinked' = TRUE
  /\ UNCHANGED <<chat, content, number, redisVars, brokerVars, workerVars, storeVars>>

\* What go-chat published does not survive; what go-worker published to
\* indexing_queue is persistent and does.
BrokerRestart ==
  /\ Fault("broker")
  /\ messagesQueue' = {}
  /\ linked' = [w \in Workers |-> FALSE]
  /\ apiLinked' = FALSE
  /\ UNCHANGED <<phase, chat, content, number, redisVars, published, step, msg, row, storeVars>>

\* Redis keeps periodic snapshots only (the image's default).  Those that no
\* restart can use are left out.
RedisSnapshot ==
  /\ "redis_restart" \in Faults
  /\ failures < MaxFaults
  /\ saved' = [counter |-> counter, delta |-> delta]
  /\ NoFault
  /\ UNCHANGED <<apiVars, counter, delta, brokerVars, workerVars, storeVars>>

RedisRestart ==
  /\ Fault("redis_restart")
  /\ counter' = saved.counter
  /\ delta' = saved.delta
  /\ UNCHANGED <<apiVars, saved, brokerVars, workerVars, storeVars>>

-----------------------------------------------------------------------------
Handler(r) ==
  \/ IncrementMessageCounter(r)
  \/ IncrementDisturbed(r)
  \/ PublishMessage(r)
  \/ PublishUnconfirmed(r)
  \/ PublishFails(r)
  \/ Answer(r)

MessageWorker(w) ==
  \/ Deliver(w)
  \/ FindApp(w)
  \/ FindChat(w)
  \/ FindMessage(w)
  \/ CreateMessage(w)
  \/ CreateMessageRefused(w)
  \/ IncrementCounter(w)
  \/ QueueForIndexing(w)
  \/ Ack(w)
  \/ Nack(w)

HandlerFault(w) ==
  \/ FindAppFails(w)
  \/ FindChatFails(w)
  \/ FindMessageFails(w)
  \/ CreateMessageFails(w)
  \/ IncrementCounterDisturbed(w)

ProcessFault(w) ==
  \/ WorkerLinkLost(w)
  \/ CrashAndRestart(w)

Environment ==
  \/ \E c \in Created : ChatPersisted(c)
  \/ ApiLinkLost
  \/ ApiCrash
  \/ BrokerRestart
  \/ RedisSnapshot
  \/ RedisRestart

Next ==
  \/ \E r \in Requests : Handler(r)
  \/ \E w \in Workers : MessageWorker(w) \/ HandlerFault(w) \/ ProcessFault(w)
  \/ Environment

Spec == Init /\ [][Next]_vars

\* The Go runtime keeps running a consumer goroutine that has a message or a
\* delivery waiting, and the chat workers insert a chat of Created some day:
\* that is ChatCreation's EventuallyPersisted.
FairSpec ==
  /\ Spec
  /\ \A w \in Workers : WF_vars(MessageWorker(w))
  /\ \A c \in Created : WF_vars(ChatPersisted(c))

-----------------------------------------------------------------------------
(***************************************************************************)
(* Properties.                                                             *)
(***************************************************************************)
AsksFor(m, r) == m.request = r /\ m.number = number[r]

Queued(r)    == \E m \in messagesQueue : AsksFor(m, r)
Unsettled(r) == \E w \in Workers :
                  linked[w] /\ step[w] # "idle" /\ AsksFor(msg[w], r)
Stored(r)    == \E m \in messages : AsksFor(m, r)

\* A number names one message of a chat, although two statements look for it
\* and insert it and the schema has no unique index: requeueing, crashes and
\* failed INSERTs do not add a second row (MessageWorker.HandleMessage).
UniqueNumbers ==
  \/ ~UniqueIndex /\ Unless({"find_message", "worker_link", "redis_restart"})
  \/ \A m, n \in messages :
       chat[m.request] = chat[n.request] /\ m.number = n.number => m = n

\* A message that was answered 200 is queued, in the hands of a worker whose
\* delivery is not settled, or in MySQL under its own content, unless its URL
\* names no application.  A chat that is not there yet does not lose it, nor
\* does a failing SELECT on chats or on messages, nor content that MySQL
\* refuses.  After a restart of Redis its number may be another message's, and
\* it is then taken for that one.
AcceptedNotLost ==
  \/ Unless({"find_app", "api_link", "broker", "redis_restart"})
  \/ \A r \in Requests :
       phase[r] = "accepted" /\ chat[r] \notin Refused =>
         Queued(r) \/ Unsettled(r) \/ Stored(r)

RowsOf(c)    == {m \in messages : chat[m.request] = c}
Uncounted(c) == {w \in Workers : step[w] = "incr" /\ ChatOf(row[w]) = c}

\* The delta of a chat never counts a row twice, and it misses none, except a
\* row whose handler died between the INSERT and the INCR, or whose INSERT was
\* answered with an error: the redelivery finds the row and returns.
CountsExact ==
  \/ Unless({"redis", "redis_restart"})
  \/ \A c \in Chats :
       LET counted == delta[c] + Cardinality(Uncounted(c))
           rows    == Cardinality(RowsOf(c))
       IN  /\ counted <= rows
           /\ counted = rows \/ Unless({"crash", "db_write"})

\* Every row of messages is published to indexing_queue, or about to be: a
\* failing counter does not keep a message from the search, nor do redeliveries
\* that end early.  The exceptions end the handler, or its channel, between
\* the INSERT and the publication; nothing tries again.
RowsReachIndexing ==
  \/ Unless({"crash", "db_write", "worker_link", "broker"})
  \/ \A m \in messages :
       m \in indexing \/ \E w \in Workers : row[w] = m

\* A message that no try can store: its chat never comes, or MySQL refuses it.
Hopeless(m) == ChatOf(m) \notin Refused /\ (ChatOf(m) \notin Created \/ ~Fits(m))

\* A message answered 200 reaches MySQL although its chat's row may come after
\* it: it is requeued until the chat is there.  It takes a consumer that keeps
\* its channel, content that MySQL takes, and a queue without a message that
\* comes back for ever.
EventuallyStored ==
  \A r \in Requests :
    phase[r] = "accepted" /\ chat[r] \in Created /\ content[r] = "fits" ~>
      \/ Stored(r)
      \/ Unless({"find_app", "api_link", "broker", "redis_restart"})
      \/ \A w \in Workers : ~linked[w]
      \/ \E m \in messagesQueue : Hopeless(m)

\* What the README says of the queues, "guaranteed delivery" (README.md:463),
\* and the comment at message_worker.go:64, that a chat without a row "might be
\* processing": a message of a chat that exists, with content that fits, reaches
\* MySQL, without any failure, whatever else is in the queue.
GuaranteedDelivery ==
  \A r \in Requests :
    phase[r] = "accepted" /\ chat[r] \in Created /\ content[r] = "fits" ~> Stored(r)

=============================================================================
