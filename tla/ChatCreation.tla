----------------------------- MODULE ChatCreation -----------------------------
(***************************************************************************)
(* How a chat comes into being.  A go-chat request handler draws the       *)
(* chat's number from a Redis counter, publishes it to chats_queue and     *)
(* answers 201; a go-worker process consumes the message, inserts the row  *)
(* into MySQL and counts it in a Redis delta that the reconciliation       *)
(* worker later moves to applications.chats_count.                         *)
(*                                                                         *)
(* One action is one call to Redis, RabbitMQ or MySQL, so that handlers    *)
(* and workers interleave at every point where the code waits.             *)
(***************************************************************************)
EXTENDS Naturals, FiniteSets, BrokerQueue, Failures

CONSTANTS
  Tokens,       \* what requests write in their URL for :token
  Apps,         \* the rows of MySQL's applications
  NoApp,        \* what AppOf gives for a token of no row
  AppOf,        \* AppOf[t]: the row whose token MySQL finds equal to t
  Requests,     \* the POST /applications/:token/chats requests of a run
  Workers,      \* go-worker processes
  UniqueIndex,  \* whether MySQL rejects a second chat (application_id, number)
  Sends,        \* how often go-redis sends a command whose reply is lost
  NoMessage     \* a worker's message when it has none

FaultKinds ==
  { "redis",          \* the reply to a Redis command is lost
    "redis_restart",  \* Redis comes back with the data of its last snapshot
    "db_read",        \* a SELECT returns an error other than "no rows"
    "db_write",       \* an INSERT returns an error, applied or not
    "worker_link",    \* a go-worker process loses its AMQP channel
    "api_link",       \* go-chat loses its AMQP channel
    "crash",          \* a go-worker process dies and is restarted
    "broker" }        \* RabbitMQ restarts

ASSUME ChatAssumption ==
  /\ AppOf \in [Tokens -> Apps \cup {NoApp}]
  /\ NoApp \notin Apps
  /\ IsFiniteSet(Workers)
  /\ UniqueIndex \in BOOLEAN
  /\ Sends \in Nat \ {0}
  /\ Faults \subseteq FaultKinds
  /\ MaxFaults \in Nat
  /\ NoMessage \notin [pos : Nat, token : Tokens, number : Nat]

VARIABLES
  phase,        \* phase[r]: how far the handler of request r is
  token,        \* token[r]: the :token of r's URL
  number,       \* number[r]: the chat number drawn for r, 0 before
  apiLinked,    \* go-chat's AMQP channel is open
  chatCounter,  \* Redis app:<token>:chats_count
  deltaChats,   \* Redis delta:app:<id>:chats
  saved,        \* the last Redis snapshot: [counter, delta]
  chatsQueue,   \* ready messages of chats_queue
  published,    \* how many messages were published to it
  linked,       \* linked[w]: the AMQP channel of process w is open
  step,         \* step[w]: where the chat consumer of process w is
  msg,          \* msg[w]: the delivery that it handles
  chats         \* rows of MySQL's chats

apiVars    == <<phase, token, number, apiLinked>>
redisVars  == <<chatCounter, deltaChats, saved>>
brokerVars == <<chatsQueue, published>>
workerVars == <<linked, step, msg>>
vars == <<apiVars, redisVars, brokerVars, workerVars, chats, faultVars>>

Phases == {"new", "numbered", "accepted", "failed"}
Steps  == {"idle", "findApp", "findChat", "insert", "incr", "ack", "nack"}

ChatMessage == [pos : Nat, token : Tokens, number : Nat]
ChatRow     == [id : Nat, app : Apps, number : Nat]

TypeOK ==
  /\ phase \in [Requests -> Phases]
  /\ token \in [Requests -> Tokens]
  /\ number \in [Requests -> Nat]
  /\ apiLinked \in BOOLEAN
  /\ chatCounter \in [Tokens -> Nat]
  /\ deltaChats \in [Apps -> Nat]
  /\ saved \in [counter : [Tokens -> Nat], delta : [Apps -> Nat]]
  /\ chatsQueue \subseteq ChatMessage
  /\ published \in Nat
  /\ linked \in [Workers -> BOOLEAN]
  /\ step \in [Workers -> Steps]
  /\ msg \in [Workers -> ChatMessage \cup {NoMessage}]
  /\ \A w \in Workers :
       /\ step[w] # "idle" => msg[w] \in ChatMessage
       /\ step[w] \in {"findChat", "insert", "incr", "nack"} =>
            AppOf[msg[w].token] \in Apps
  /\ chats \subseteq ChatRow
  /\ IsFiniteSet(chats)
  /\ happened \subseteq FaultKinds
  /\ failures \in Nat

Init ==
  /\ phase = [r \in Requests |-> "new"]
  /\ token \in [Requests -> Tokens]
  /\ number = [r \in Requests |-> 0]
  /\ apiLinked = TRUE
  /\ chatCounter = [t \in Tokens |-> 0]
  /\ deltaChats = [a \in Apps |-> 0]
  /\ saved = [counter |-> chatCounter, delta |-> deltaChats]
  /\ chatsQueue = {}
  /\ published = 0
  /\ linked = [w \in Workers |-> TRUE]
  /\ step = [w \in Workers |-> "idle"]
  /\ msg = [w \in Workers |-> NoMessage]
  /\ chats = {}
  /\ happened = {}
  /\ failures = 0

-----------------------------------------------------------------------------
(***************************************************************************)
(* go-chat: CreateChatHandler.                                             *)
(***************************************************************************)

\* INCR app:<token>:chats_count.  Nothing checks that the token exists.
IncrementChatCounter(r) ==
  /\ phase[r] = "new"
  /\ chatCounter' = [chatCounter EXCEPT ![token[r]] = @ + 1]
  /\ number' = [number EXCEPT ![r] = chatCounter[token[r]] + 1]
  /\ phase' = [phase EXCEPT ![r] = "numbered"]
  /\ NoFault
  /\ UNCHANGED <<token, apiLinked, deltaChats, saved, brokerVars, workerVars, chats>>

\* Replies to INCR are lost.  go-redis sends the command again, up to Sends
\* times in all; k of them were carried out, and either the last one is
\* answered or the client gets a 500.
IncrementDisturbed(r) ==
  /\ phase[r] = "new"
  /\ Fault("redis")
  /\ \E k \in 0..Sends :
       /\ chatCounter' = [chatCounter EXCEPT ![token[r]] = @ + k]
       /\ \/ /\ k > 0
             /\ number' = [number EXCEPT ![r] = chatCounter[token[r]] + k]
             /\ phase' = [phase EXCEPT ![r] = "numbered"]
          \/ /\ phase' = [phase EXCEPT ![r] = "failed"]
             /\ UNCHANGED number
  /\ UNCHANGED <<token, apiLinked, deltaChats, saved, brokerVars, workerVars, chats>>

\* The payload goes to chats_queue and the client gets a 201.
PublishChat(r) ==
  /\ phase[r] = "numbered"
  /\ apiLinked
  /\ chatsQueue' = chatsQueue \cup
       {[pos |-> published, token |-> token[r], number |-> number[r]]}
  /\ published' = published + 1
  /\ phase' = [phase EXCEPT ![r] = "accepted"]
  /\ NoFault
  /\ UNCHANGED <<token, number, apiLinked, redisVars, workerVars, chats>>

\* There are no publisher confirms: a payload written to a connection that is
\* breaking is lost, and the client gets its 201.
PublishUnconfirmed(r) ==
  /\ phase[r] = "numbered"
  /\ apiLinked
  /\ Fault("api_link")
  /\ apiLinked' = FALSE
  /\ phase' = [phase EXCEPT ![r] = "accepted"]
  /\ UNCHANGED <<token, number, redisVars, brokerVars, workerVars, chats>>

\* Publishing on a closed channel fails: 500, and the number stays unused.
PublishFails(r) ==
  /\ phase[r] = "numbered"
  /\ ~apiLinked
  /\ phase' = [phase EXCEPT ![r] = "failed"]
  /\ NoFault
  /\ UNCHANGED <<token, number, apiLinked, redisVars, brokerVars, workerVars, chats>>

-----------------------------------------------------------------------------
(***************************************************************************)
(* go-worker: the consumer of chats_queue and ChatWorker.HandleMessage.    *)
(***************************************************************************)
Goto(w, here, there) ==
  /\ step[w] = here
  /\ step' = [step EXCEPT ![w] = there]

\* Row c is the chat that message m asks for.
IsChatOf(c, m) == c.app = AppOf[m.token] /\ c.number = m.number

ChatExists(m) == \E c \in chats : IsChatOf(c, m)

\* Prefetch is 1: the broker hands out the next message when w has none.
Deliver(w) ==
  /\ linked[w]
  /\ Goto(w, "idle", "findApp")
  /\ \E m \in chatsQueue :
       /\ AtFront(m, chatsQueue)
       /\ chatsQueue' = chatsQueue \ {m}
       /\ msg' = [msg EXCEPT ![w] = m]
  /\ NoFault
  /\ UNCHANGED <<apiVars, redisVars, published, linked, chats>>

\* Mutant: the application is not looked at before its id is used.
FindAppUnchecked(w) ==
  /\ Goto(w, "findApp", "findChat")
  /\ NoFault
  /\ UNCHANGED <<apiVars, redisVars, brokerVars, linked, msg, chats>>

\* A token without a row in applications ends the handler with nil.
FindApp(w) ==
  /\ Goto(w, "findApp", IF AppOf[msg[w].token] = NoApp THEN "ack" ELSE "findChat")
  /\ NoFault
  /\ UNCHANGED <<apiVars, redisVars, brokerVars, linked, msg, chats>>

\* Any other error of the query ends it the same way.
FindAppFails(w) ==
  /\ Goto(w, "findApp", "ack")
  /\ Fault("db_read")
  /\ UNCHANGED <<apiVars, redisVars, brokerVars, linked, msg, chats>>

\* Mutant: the look before the insert is dropped.
FindChatUnchecked(w) ==
  /\ Goto(w, "findChat", "insert")
  /\ NoFault
  /\ UNCHANGED <<apiVars, redisVars, brokerVars, linked, msg, chats>>

\* Mutant: a chat that is already there is counted again.
FindChatCounted(w) ==
  /\ Goto(w, "findChat", IF ChatExists(msg[w]) THEN "incr" ELSE "insert")
  /\ NoFault
  /\ UNCHANGED <<apiVars, redisVars, brokerVars, linked, msg, chats>>

\* A chat that is already there ends the handler with nil.
FindChat(w) ==
  /\ Goto(w, "findChat", IF ChatExists(msg[w]) THEN "ack" ELSE "insert")
  /\ NoFault
  /\ UNCHANGED <<apiVars, redisVars, brokerVars, linked, msg, chats>>

\* An error of the query is taken for "no such chat".
FindChatFails(w) ==
  /\ Goto(w, "findChat", "insert")
  /\ Fault("db_read")
  /\ UNCHANGED <<apiVars, redisVars, brokerVars, linked, msg, chats>>

RowOf(m) ==
  [id |-> Cardinality(chats) + 1, app |-> AppOf[m.token], number |-> m.number]
Duplicate(m) == UniqueIndex /\ ChatExists(m)
Inserted(m) == IF Duplicate(m) THEN chats ELSE chats \cup {RowOf(m)}

\* Mutant: the handler returns without counting the row.
CreateChatUncounted(w) ==
  /\ Goto(w, "insert", "ack")
  /\ chats' = Inserted(msg[w])
  /\ NoFault
  /\ UNCHANGED <<apiVars, redisVars, brokerVars, linked, msg>>

\* A duplicate-key error ends the handler with nil.
CreateChat(w) ==
  /\ Goto(w, "insert", IF Duplicate(msg[w]) THEN "ack" ELSE "incr")
  /\ chats' = Inserted(msg[w])
  /\ NoFault
  /\ UNCHANGED <<apiVars, redisVars, brokerVars, linked, msg>>

\* Mutant: the error is swallowed, and the message acknowledged.
CreateChatSwallowed(w) ==
  /\ Goto(w, "insert", "ack")
  /\ chats' \in {chats, Inserted(msg[w])}
  /\ Fault("db_write")
  /\ UNCHANGED <<apiVars, redisVars, brokerVars, linked, msg>>

\* Exec returns another error; the row may have been stored all the same.
CreateChatFails(w) ==
  /\ Goto(w, "insert", "nack")
  /\ chats' \in {chats, Inserted(msg[w])}
  /\ Fault("db_write")
  /\ UNCHANGED <<apiVars, redisVars, brokerVars, linked, msg>>

\* INCR delta:app:<id>:chats.
IncrementCounter(w) ==
  /\ Goto(w, "incr", "ack")
  /\ deltaChats' = [deltaChats EXCEPT ![AppOf[msg[w].token]] = @ + 1]
  /\ NoFault
  /\ UNCHANGED <<apiVars, chatCounter, saved, brokerVars, linked, msg, chats>>

\* Replies to that INCR are lost: it is carried out k times, and an error is
\* only logged.
IncrementCounterDisturbed(w) ==
  /\ Goto(w, "incr", "ack")
  /\ Fault("redis")
  /\ \E k \in 0..Sends :
       deltaChats' = [deltaChats EXCEPT ![AppOf[msg[w].token]] = @ + k]
  /\ UNCHANGED <<apiVars, chatCounter, saved, brokerVars, linked, msg, chats>>

\* On a closed channel Ack and Nack do nothing, and the loop over the
\* deliveries has ended: the consumer stays idle for good.
Ack(w) ==
  /\ Goto(w, "ack", "idle")
  /\ msg' = [msg EXCEPT ![w] = NoMessage]
  /\ NoFault
  /\ UNCHANGED <<apiVars, redisVars, brokerVars, linked, chats>>

\* Mutant: Nack(false, false) drops the message.
NackDropped(w) ==
  /\ Goto(w, "nack", "idle")
  /\ msg' = [msg EXCEPT ![w] = NoMessage]
  /\ NoFault
  /\ UNCHANGED <<apiVars, redisVars, brokerVars, linked, chats>>

Nack(w) ==
  /\ Goto(w, "nack", "idle")
  /\ chatsQueue' = IF linked[w] THEN chatsQueue \cup {msg[w]} ELSE chatsQueue
  /\ msg' = [msg EXCEPT ![w] = NoMessage]
  /\ NoFault
  /\ UNCHANGED <<apiVars, redisVars, published, linked, chats>>

-----------------------------------------------------------------------------
(***************************************************************************)
(* The environment.                                                        *)
(***************************************************************************)

\* What the broker does with w's delivery when w's channel closes.
Unacked(w) == IF linked[w] /\ step[w] # "idle" THEN {msg[w]} ELSE {}

\* w's channel closes: its delivery is requeued while the handler goes on.
\* Nothing reconnects.
WorkerLinkLost(w) ==
  /\ linked[w]
  /\ Fault("worker_link")
  /\ linked' = [linked EXCEPT ![w] = FALSE]
  /\ chatsQueue' = chatsQueue \cup Unacked(w)
  /\ UNCHANGED <<apiVars, redisVars, published, step, msg, chats>>

\* w dies and its container is started again with a new connection.
CrashAndRestart(w) ==
  /\ Fault("crash")
  /\ linked' = [linked EXCEPT ![w] = TRUE]
  /\ step' = [step EXCEPT ![w] = "idle"]
  /\ msg' = [msg EXCEPT ![w] = NoMessage]
  /\ chatsQueue' = chatsQueue \cup Unacked(w)
  /\ UNCHANGED <<apiVars, redisVars, published, chats>>

ApiLinkLost ==
  /\ apiLinked
  /\ Fault("api_link")
  /\ apiLinked' = FALSE
  /\ UNCHANGED <<phase, token, number, redisVars, brokerVars, workerVars, chats>>

\* go-chat publishes without DeliveryMode Persistent: although the queue is
\* durable, its messages, ready or unacknowledged, do not survive.
BrokerRestart ==
  /\ Fault("broker")
  /\ chatsQueue' = {}
  /\ linked' = [w \in Workers |-> FALSE]
  /\ apiLinked' = FALSE
  /\ UNCHANGED <<phase, token, number, redisVars, published, step, msg, chats>>

\* Redis keeps periodic snapshots only (the image's default).
RedisSnapshot ==
  /\ "redis_restart" \in Faults
  /\ saved' = [counter |-> chatCounter, delta |-> deltaChats]
  /\ NoFault
  /\ UNCHANGED <<apiVars, chatCounter, deltaChats, brokerVars, workerVars, chats>>

RedisRestart ==
  /\ Fault("redis_restart")
  /\ chatCounter' = saved.counter
  /\ deltaChats' = saved.delta
  /\ UNCHANGED <<apiVars, saved, brokerVars, workerVars, chats>>

-----------------------------------------------------------------------------
Handler(r) ==
  \/ IncrementChatCounter(r)
  \/ IncrementDisturbed(r)
  \/ PublishChat(r)
  \/ PublishUnconfirmed(r)
  \/ PublishFails(r)

ChatWorker(w) ==
  \/ Deliver(w)
  \/ FindApp(w)
  \/ FindChat(w)
  \/ CreateChat(w)
  \/ IncrementCounter(w)
  \/ Ack(w)
  \/ Nack(w)

WorkerFault(w) ==
  \/ FindAppFails(w)
  \/ FindChatFails(w)
  \/ CreateChatFails(w)
  \/ IncrementCounterDisturbed(w)
  \/ WorkerLinkLost(w)
  \/ CrashAndRestart(w)

Environment ==
  \/ ApiLinkLost
  \/ BrokerRestart
  \/ RedisSnapshot
  \/ RedisRestart

Next ==
  \/ \E r \in Requests : Handler(r)
  \/ \E w \in Workers : ChatWorker(w) \/ WorkerFault(w)
  \/ Environment

Spec == Init /\ [][Next]_vars

\* The Go runtime keeps running a consumer goroutine that has a message or a
\* delivery waiting.  Clients may stop at any point and failures need not happen.
FairSpec == Spec /\ \A w \in Workers : WF_vars(ChatWorker(w))

-----------------------------------------------------------------------------
(***************************************************************************)
(* Properties.                                                             *)
(***************************************************************************)
\* The message that request r leads to, wherever it is.
AsksFor(m, r) == m.token = token[r] /\ m.number = number[r]

Queued(r)    == \E m \in chatsQueue : AsksFor(m, r)
Unsettled(r) == \E w \in Workers :
                  linked[w] /\ step[w] # "idle" /\ AsksFor(msg[w], r)
Persisted(r) == \E c \in chats :
                  c.app = AppOf[token[r]] /\ c.number = number[r]

\* No two requests reach application a by different spellings of its token.
OneSpelling(a) ==
  \A r, s \in Requests :
    AppOf[token[r]] = a /\ AppOf[token[s]] = a => token[r] = token[s]

\* A number names one chat of an application, although the worker only looks
\* before it inserts and the schema has no unique index: crashes, failed
\* inserts and redeliveries do not add a second row (ChatWorker.HandleMessage).
\* With a unique index nothing does.
UniqueNumbers ==
  \A c, d \in chats :
    c.app = d.app /\ c.number = d.number =>
      \/ c = d
      \/ /\ ~UniqueIndex
         /\ Unless({"db_read", "worker_link", "redis_restart"}) \/ ~OneSpelling(c.app)

\* A chat that was answered 201 is in chats_queue, in the hands of a worker
\* whose delivery is not settled, or in MySQL (PublishMessage, ConsumeQueue).
AcceptedNotLost ==
  \/ Unless({"db_read", "api_link", "broker"})
  \/ \A r \in Requests :
       phase[r] = "accepted" /\ AppOf[token[r]] # NoApp =>
         Queued(r) \/ Unsettled(r) \/ Persisted(r)

RowsOf(a)     == {c \in chats : c.app = a}
Uncounted(a)  == {w \in Workers : step[w] = "incr" /\ AppOf[msg[w].token] = a}

\* The delta never counts a row twice: redelivered messages find their row
\* and leave the counter alone (ChatWorker.HandleMessage).
NeverOvercounts ==
  \/ Unless({"redis", "redis_restart"})
  \/ \A a \in Apps :
       deltaChats[a] + Cardinality(Uncounted(a)) <= Cardinality(RowsOf(a))

\* Every row is counted, or about to be: a lost channel or a failed SELECT
\* does not part a row from its count, even when it adds a row.
CountsExact ==
  \/ Unless({"redis", "redis_restart", "crash", "db_write"})
  \/ \A a \in Apps :
       deltaChats[a] + Cardinality(Uncounted(a)) = Cardinality(RowsOf(a))

\* A chat answered 201 reaches MySQL as long as one consumer keeps its
\* channel: nacked and redelivered messages are handled again.
EventuallyPersisted ==
  \A r \in Requests :
    phase[r] = "accepted" /\ AppOf[token[r]] # NoApp ~>
      \/ Persisted(r)
      \/ Unless({"db_read", "api_link", "broker"})
      \/ \A w \in Workers : ~linked[w]

\* What the README says of the workers, without exceptions: they are
\* idempotent (README.md:554).
IdempotentWorkers ==
  \A c, d \in chats : c.app = d.app /\ c.number = d.number => c = d

=============================================================================
