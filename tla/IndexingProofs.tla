---------------------------- MODULE IndexingProofs ----------------------------
(***************************************************************************)
(* Proofs about Indexing, for every value of its constants.                *)
(***************************************************************************)
EXTENDS Indexing, TLAPS

-----------------------------------------------------------------------------
(***************************************************************************)
(* The steps that the proofs are about: those of Next, and those that      *)
(* others take beside them when the component is part of a larger system.  *)
(***************************************************************************)
Aside ==
  /\ UNCHANGED <<published, queue, linked, msg, batch, pc, held, docs>>
  /\ happened \subseteq happened'

Step == Next \/ Aside

LEMMA NextIsStep == [Next]_vars => Step
BY DEF vars, faultVars, Aside, Step

-----------------------------------------------------------------------------
(***************************************************************************)
(* The messages of a sequence.                                             *)
(***************************************************************************)
LEMMA ElementsAppend ==
  ASSUME NEW S, NEW s \in Seq(S), NEW m \in S
  PROVE  Elements(Append(s, m)) = Elements(s) \cup {m}
<1>1. Len(Append(s, m)) = Len(s) + 1 /\ Append(s, m)[Len(s) + 1] = m
  OBVIOUS
<1>2. \A i \in 1..Len(s) : Append(s, m)[i] = s[i]
  OBVIOUS
<1>3. Len(s) \in Nat
  OBVIOUS
<1> QED
  BY <1>1, <1>2, <1>3 DEF Elements

LEMMA ElementsConcat ==
  ASSUME NEW S, NEW s \in Seq(S), NEW u \in Seq(S)
  PROVE  Elements(s \o u) = Elements(s) \cup Elements(u)
<1>1. Len(s \o u) = Len(s) + Len(u) /\ Len(s) \in Nat /\ Len(u) \in Nat
  OBVIOUS
<1>2. \A i \in 1..Len(s) : (s \o u)[i] = s[i]
  OBVIOUS
<1>3. \A i \in 1..Len(u) : (s \o u)[Len(s) + i] = u[i]
  OBVIOUS
<1>4. Elements(s) \cup Elements(u) \subseteq Elements(s \o u)
  BY <1>1, <1>2, <1>3 DEF Elements
<1>5. Elements(s \o u) \subseteq Elements(s) \cup Elements(u)
  <2>1. SUFFICES ASSUME NEW i \in 1..Len(s \o u)
                 PROVE  (s \o u)[i] \in Elements(s) \cup Elements(u)
    BY DEF Elements
  <2>2. CASE i <= Len(s)
    BY <1>1, <1>2, <2>2 DEF Elements
  <2>3. CASE i > Len(s)
    <3>1. i - Len(s) \in 1..Len(u) /\ Len(s) + (i - Len(s)) = i
      BY <1>1, <2>1, <2>3
    <3> QED
      BY <1>3, <3>1 DEF Elements
  <2> QED
    BY <1>1, <2>2, <2>3
<1> QED
  BY <1>4, <1>5

LEMMA ElementsEmpty == Elements(<<>>) = {}
BY DEF Elements

-----------------------------------------------------------------------------
(***************************************************************************)
(* Typing.                                                                 *)
(***************************************************************************)
LEMMA ThreadsOf ==
  /\ \A w \in Workers : \A k \in {"consumer", "ticker", "stop"} : <<w, k>> \in Threads
  /\ \A t \in Threads :
       t[1] \in Workers /\ t[2] \in {"consumer", "ticker", "stop"} /\ t = <<t[1], t[2]>>
BY DEF Threads

LEMMA GotoIs ==
  ASSUME StateOK, NEW t \in Threads, NEW here, NEW there \in Points, Goto(t, here, there)
  PROVE  /\ pc' \in [Threads -> Points]
         /\ pc[t] = here
         /\ pc'[t] = there
         /\ \A u \in Threads : u # t => pc'[u] = pc[u]
BY DEF StateOK, Goto

\* Where a flush leaves its thread.
LEMMA FlushEnds ==
  ASSUME NEW t \in Threads
  PROVE  /\ Returned(t) \in {"ack", "idle", "exit"}
         /\ Failed(t) \in {"nack", "idle", "exit"}
         /\ t[2] = "consumer" => Returned(t) = "ack" /\ Failed(t) = "nack"
<1>1. CASE t[2] = "consumer"
  BY <1>1 DEF Returned, Failed
<1>2. CASE t[2] = "ticker"
  BY <1>2 DEF Returned, Failed
<1>3. CASE t[2] = "stop"
  BY <1>3 DEF Returned, Failed
<1> QED
  BY <1>1, <1>2, <1>3, ThreadsOf

\* The end of a process leaves threads that hold nothing.
LEMMA EndType ==
  ASSUME StateOK, NEW w \in Workers, Exit(w) \/ Crash(w)
  PROVE  /\ queue' \subseteq Message
         /\ linked' \in [Workers -> BOOLEAN]
         /\ msg' = [msg EXCEPT ![w] = NoMessage]
         /\ batch' = [batch EXCEPT ![w] = <<>>]
         /\ pc' \in [Threads -> Points]
         /\ held' \in [Threads -> Seq(Message)]
         /\ \A t \in Threads : t[1] = w =>
              pc'[t] \in {"off", "idle", "exit"} /\ held'[t] = <<>>
         /\ pc'[<<w, "consumer">>] \in {"idle", "exit"}
         /\ \A t \in Threads : t[1] # w => pc'[t] = pc[t] /\ held'[t] = held[t]
         /\ UNCHANGED <<published, docs>>
<1>0. PICK again \in BOOLEAN : End(w, again)
  BY DEF Exit, Crash
<1> USE <1>0, ThreadsOf DEF StateOK, End
<1>1. linked' \in [Workers -> BOOLEAN]
  BY Zenon
<1>2. queue' \subseteq Message
  BY DEF Unacked
<1>3. held' \in [Threads -> Seq(Message)]
  OBVIOUS
<1>4. pc' \in [Threads -> Points]
  BY DEF Points
<1> HIDE DEF Threads
<1> QED
  BY <1>1, <1>2, <1>3, <1>4

\* What links a consumer to its delivery, and a flush to its messages.
Linking(w) == msg[w] = NoMessage <=> pc[<<w, "consumer">>] \in {"idle", "exit"}
Holding(t) == held[t] # <<>> <=> pc[t] \in {"bulk", "restore"}

\* A step of the consumer of w that neither takes up nor ends a flush.
LEMMA ConsumerLinks ==
  ASSUME StateOK, NEW w \in Workers, NEW here, NEW there \in Points,
         Goto(<<w, "consumer">>, here, there),
         here \notin {"bulk", "restore"}, there \notin {"bulk", "restore"},
         held' = held,
         \A v \in Workers : v # w => msg'[v] = msg[v],
         msg'[w] = NoMessage <=> there \in {"idle", "exit"}
  PROVE  /\ pc' \in [Threads -> Points]
         /\ \A v \in Workers : Linking(v)'
         /\ \A t \in Threads : Holding(t)'
<1> DEFINE c(v) == <<v, "consumer">>
<1>1. \A v \in Workers : c(v) \in Threads /\ (c(v) = c(w) => v = w)
  BY ThreadsOf
<1>2. /\ pc' \in [Threads -> Points]
      /\ pc[c(w)] = here /\ pc'[c(w)] = there
      /\ \A u \in Threads : u # c(w) => pc'[u] = pc[u]
  BY <1>1, GotoIs
<1>3. /\ \A v \in Workers : msg[v] = NoMessage <=> pc[c(v)] \in {"idle", "exit"}
      /\ \A t \in Threads : held[t] # <<>> <=> pc[t] \in {"bulk", "restore"}
  BY DEF StateOK
<1> HIDE DEF c
<1>4. \A v \in Workers : msg'[v] = NoMessage <=> pc'[c(v)] \in {"idle", "exit"}
  BY <1>1, <1>2, <1>3
<1>5. \A t \in Threads : held'[t] # <<>> <=> pc'[t] \in {"bulk", "restore"}
  BY <1>1, <1>2, <1>3
<1> USE DEF c
<1> QED
  BY <1>2, <1>4, <1>5 DEF Linking, Holding

\* A step of any thread that leaves the deliveries alone.
LEMMA ThreadLinks ==
  ASSUME StateOK, NEW t \in Threads, NEW here, NEW there \in Points,
         Goto(t, here, there),
         msg' = msg,
         t[2] = "consumer" => here \notin {"idle", "exit"} /\ there \notin {"idle", "exit"},
         \A u \in Threads : u # t => held'[u] = held[u],
         held'[t] # <<>> <=> there \in {"bulk", "restore"}
  PROVE  /\ pc' \in [Threads -> Points]
         /\ \A v \in Workers : Linking(v)'
         /\ \A u \in Threads : Holding(u)'
<1> DEFINE c(v) == <<v, "consumer">>
<1>1. \A v \in Workers : c(v) \in Threads /\ (c(v) = t => t[2] = "consumer")
  BY ThreadsOf
<1>2. /\ pc' \in [Threads -> Points]
      /\ pc[t] = here /\ pc'[t] = there
      /\ \A u \in Threads : u # t => pc'[u] = pc[u]
  BY GotoIs
<1>3. /\ \A v \in Workers : msg[v] = NoMessage <=> pc[c(v)] \in {"idle", "exit"}
      /\ \A u \in Threads : held[u] # <<>> <=> pc[u] \in {"bulk", "restore"}
  BY DEF StateOK
<1> HIDE DEF c
<1>4. \A v \in Workers : msg'[v] = NoMessage <=> pc'[c(v)] \in {"idle", "exit"}
  BY <1>1, <1>2, <1>3
<1>5. \A u \in Threads : held'[u] # <<>> <=> pc'[u] \in {"bulk", "restore"}
  BY <1>2, <1>3
<1> USE DEF c
<1> QED
  BY <1>2, <1>4, <1>5 DEF Linking, Holding

\* StateOK, put together.
LEMMA TypeParts ==
  ASSUME published' \in Nat, queue' \subseteq Message, docs' \subseteq Message,
         linked' \in [Workers -> BOOLEAN],
         msg' \in [Workers -> Message \cup {NoMessage}],
         batch' \in [Workers -> Seq(Message)],
         held' \in [Threads -> Seq(Message)],
         pc' \in [Threads -> Points],
         \A w \in Workers : Linking(w)',
         \A t \in Threads : Holding(t)'
  PROVE  StateOK'
BY DEF StateOK, Linking, Holding

LEMMA ConsumerType == ASSUME StateOK, NEW w \in Workers, Consumer(w) PROVE StateOK'
<1> DEFINE c == <<w, "consumer">>
<1> USE DEF Points
<1>1. c \in Threads
  BY ThreadsOf
<1>2. msg[w] = NoMessage <=> pc[c] \in {"idle", "exit"}
  BY DEF StateOK
<1>3. CASE Deliver(w)
  <2>1. PICK m \in queue : queue' = queue \ {m} /\ msg' = [msg EXCEPT ![w] = m]
    BY <1>3 DEF Deliver
  <2>2. m \in Message /\ m # NoMessage
    BY IndexingAssumption DEF StateOK, Message
  <2>3. /\ pc' \in [Threads -> Points]
        /\ \A v \in Workers : Linking(v)'
        /\ \A t \in Threads : Holding(t)'
    <3>1. Goto(c, "idle", "append") /\ held' = held
      BY <1>3 DEF Deliver
    <3>2. msg'[w] # NoMessage /\ \A v \in Workers : v # w => msg'[v] = msg[v]
      BY <2>1, <2>2 DEF StateOK
    <3> QED
      BY <3>1, <3>2, ConsumerLinks
  <2>4. queue' \subseteq Message /\ msg' \in [Workers -> Message \cup {NoMessage}]
    BY <2>1, <2>2 DEF StateOK
  <2> QED
    BY <1>3, <2>3, <2>4, TypeParts DEF Deliver, StateOK
<1>4. CASE AppendToBatch(w)
  <2>1. PICK there \in {"take", "ack"} : Goto(c, "append", there)
    BY <1>4 DEF AppendToBatch
  <2>2. msg' = msg /\ held' = held
    BY <1>4 DEF AppendToBatch
  <2>3. pc[c] = "append"
    BY <2>1 DEF Goto
  <2>4. /\ pc' \in [Threads -> Points]
        /\ \A v \in Workers : Linking(v)'
        /\ \A t \in Threads : Holding(t)'
    BY <1>1, <1>2, <2>1, <2>2, <2>3, ConsumerLinks
  <2>5. batch' \in [Workers -> Seq(Message)]
    BY <1>2, <1>4, <2>3 DEF AppendToBatch, StateOK
  <2> QED
    BY <1>4, <2>4, <2>5, TypeParts DEF AppendToBatch, StateOK
<1>5. CASE Ack(w) \/ Nack(w)
  <2>1. PICK here \in {"ack", "nack"} : Goto(c, here, "idle")
    BY <1>5 DEF Ack, Nack
  <2>2. /\ msg' = [msg EXCEPT ![w] = NoMessage]
        /\ UNCHANGED <<published, linked, batch, held, docs>>
    BY <1>5 DEF Ack, Nack
  <2>3. msg'[w] = NoMessage /\ \A v \in Workers : v # w => msg'[v] = msg[v]
    BY <2>2 DEF StateOK
  <2>4. /\ pc' \in [Threads -> Points]
        /\ \A v \in Workers : Linking(v)'
        /\ \A t \in Threads : Holding(t)'
    BY <2>1, <2>2, <2>3, ConsumerLinks
  <2>5. msg' \in [Workers -> Message \cup {NoMessage}]
    BY <2>2 DEF StateOK
  <2>6. pc[c] = here
    BY <2>1 DEF Goto
  <2>7. msg[w] \in Message
    BY <1>2, <2>6 DEF StateOK
  <2>8. queue' \subseteq Message
    BY <1>5, <2>7 DEF Ack, Nack, StateOK
  <2> QED
    BY <2>2, <2>4, <2>5, <2>8, TypeParts DEF StateOK
<1> QED
  BY <1>3, <1>4, <1>5 DEF Consumer

LEMMA FlushType ==
  ASSUME StateOK, NEW t \in Threads, Flush(t) \/ FlushFault(t)
  PROVE  StateOK'
<1> DEFINE Linked == /\ pc' \in [Threads -> Points]
                     /\ \A v \in Workers : Linking(v)'
                     /\ \A u \in Threads : Holding(u)'
<1>1. t[1] \in Workers /\ held[t] \in Seq(Message) /\ batch[t[1]] \in Seq(Message)
  BY ThreadsOf DEF StateOK
<1>2. CASE TakeBatch(t)
  <2>1. PICK there \in {"bulk", Returned(t)} :
          /\ Goto(t, "take", there)
          /\ there = "bulk" <=> batch[t[1]] # <<>>
    BY <1>2, FlushEnds DEF TakeBatch
  <2>2. there \in Points /\ there # "restore" /\ (t[2] = "consumer" => there \notin {"idle", "exit"})
    BY <2>1, FlushEnds DEF Points
  <2>3. msg' = msg /\ held'[t] = batch[t[1]] /\ \A u \in Threads : u # t => held'[u] = held[u]
    BY <1>2 DEF TakeBatch, StateOK
  <2>4. Linked
    BY <2>1, <2>2, <2>3, ThreadLinks
  <2>5. held' \in [Threads -> Seq(Message)] /\ batch' \in [Workers -> Seq(Message)]
    BY <1>1, <1>2 DEF TakeBatch, StateOK
  <2> QED
    BY <1>2, <2>4, <2>5, TypeParts DEF TakeBatch, StateOK
<1>3. CASE BulkIndex(t) \/ BulkIndexPartial(t)
  <2>1. Goto(t, "bulk", Returned(t)) /\ msg' = msg /\ held' = [held EXCEPT ![t] = <<>>]
    BY <1>3 DEF BulkIndex, BulkIndexPartial
  <2>2. held'[t] = <<>> /\ \A u \in Threads : u # t => held'[u] = held[u]
    BY <2>1 DEF StateOK
  <2>3. /\ Returned(t) \in Points
        /\ Returned(t) \notin {"bulk", "restore"}
        /\ t[2] = "consumer" => Returned(t) \notin {"idle", "exit"}
    BY FlushEnds DEF Points
  <2>4. Linked
    BY <2>1, <2>2, <2>3, ThreadLinks
  <2>5. held' \in [Threads -> Seq(Message)]
    BY <2>1 DEF StateOK
  <2>6. docs' \subseteq Message
    BY <1>1, <1>3 DEF BulkIndex, BulkIndexPartial, Elements, StateOK
  <2> QED
    BY <1>3, <2>4, <2>5, <2>6, TypeParts DEF BulkIndex, BulkIndexPartial, StateOK
<1>4. CASE BulkIndexFails(t)
  <2>1. Goto(t, "bulk", "restore") /\ msg' = msg /\ held' = held /\ pc[t] = "bulk"
    BY <1>4 DEF BulkIndexFails, Goto
  <2>2. held[t] # <<>>
    BY <2>1 DEF StateOK
  <2>3. Linked
    BY <2>1, <2>2, ThreadLinks DEF Points
  <2>4. docs' \subseteq Message
    BY <1>1, <1>4 DEF BulkIndexFails, Elements, StateOK
  <2> QED
    BY <1>4, <2>3, <2>4, TypeParts DEF BulkIndexFails, StateOK
<1>5. CASE RestoreBatch(t)
  <2>1. Goto(t, "restore", Failed(t)) /\ msg' = msg /\ held' = [held EXCEPT ![t] = <<>>]
    BY <1>5 DEF RestoreBatch
  <2>2. held'[t] = <<>> /\ \A u \in Threads : u # t => held'[u] = held[u]
    BY <2>1 DEF StateOK
  <2>3. /\ Failed(t) \in Points
        /\ Failed(t) \notin {"bulk", "restore"}
        /\ t[2] = "consumer" => Failed(t) \notin {"idle", "exit"}
    BY FlushEnds DEF Points
  <2>4. Linked
    BY <2>1, <2>2, <2>3, ThreadLinks
  <2>5. held' \in [Threads -> Seq(Message)]
    BY <2>1 DEF StateOK
  <2>6. batch' \in [Workers -> Seq(Message)]
    BY <1>1, <1>5 DEF RestoreBatch, StateOK
  <2> QED
    BY <1>5, <2>4, <2>5, <2>6, TypeParts DEF RestoreBatch, StateOK
<1> QED
  BY <1>2, <1>3, <1>4, <1>5 DEF Flush, FlushFault

\* Starting, stopping and ending a process.
LEMMA ProcessType ==
  ASSUME StateOK, NEW w \in Workers, Tick(w) \/ Stop(w) \/ ProcessFault(w)
  PROVE  StateOK'
<1>1. CASE Tick(w) \/ TickerReturns(w) \/ Terminate(w)
  <2>1. PICK k \in {"ticker", "stop"}, here \in {"idle", "off"}, there \in {"take", "exit"} :
          Goto(<<w, k>>, here, there)
    BY <1>1 DEF Tick, TickerReturns, Terminate
  <2>2. <<w, k>> \in Threads /\ <<w, k>>[2] # "consumer"
    BY ThreadsOf
  <2>3. UNCHANGED <<published, queue, linked, msg, batch, held, docs>>
    BY <1>1 DEF Tick, TickerReturns, Terminate
  <2>4. pc[<<w, k>>] = here
    BY <2>1 DEF Goto
  <2>5. held[<<w, k>>] = <<>>
    BY <2>2, <2>4 DEF StateOK
  <2>6. /\ pc' \in [Threads -> Points]
        /\ \A v \in Workers : Linking(v)'
        /\ \A u \in Threads : Holding(u)'
    BY <2>1, <2>2, <2>3, <2>5, ThreadLinks DEF Points
  <2> QED
    BY <2>3, <2>6, TypeParts DEF StateOK
<1>2. CASE LinkLost(w)
  <2>1. linked' \in [Workers -> BOOLEAN]
    BY <1>2, Zenon DEF LinkLost, StateOK
  <2>2. queue' \subseteq Message
    BY <1>2 DEF LinkLost, Unacked, StateOK
  <2> QED
    BY <1>2, <2>1, <2>2 DEF LinkLost, StateOK
<1>3. CASE Exit(w) \/ Crash(w)
  <2>2. \A v \in Workers : Linking(v)'
    <3>1. ASSUME NEW v \in Workers, v # w PROVE Linking(v)'
      <4>1. <<v, "consumer">> \in Threads /\ <<v, "consumer">>[1] # w
        BY <3>1, ThreadsOf
      <4>2. pc'[<<v, "consumer">>] = pc[<<v, "consumer">>]
        BY <1>3, <4>1, EndType
      <4>3. msg' = [msg EXCEPT ![w] = NoMessage]
        BY <1>3, EndType
      <4>4. msg'[v] = msg[v]
        BY <3>1, <4>3 DEF StateOK
      <4> QED
        BY <4>2, <4>4 DEF Linking, StateOK
    <3>2. Linking(w)'
      BY <1>3, EndType DEF Linking, StateOK
    <3> QED
      BY <3>1, <3>2
  <2>3. \A t \in Threads : Holding(t)'
    BY <1>3, EndType DEF Holding, StateOK
  <2>5. msg' \in [Workers -> Message \cup {NoMessage}] /\ batch' \in [Workers -> Seq(Message)]
    <3>1. msg' = [msg EXCEPT ![w] = NoMessage] /\ batch' = [batch EXCEPT ![w] = <<>>]
      BY <1>3, EndType
    <3>2. <<>> \in Seq(Message)
      OBVIOUS
    <3> QED
      BY <3>1, <3>2 DEF StateOK
  <2>6. published' \in Nat /\ docs' \subseteq Message
    BY <1>3, EndType DEF StateOK
  <2> QED
    BY <1>3, <2>2, <2>3, <2>5, <2>6, EndType, TypeParts DEF StateOK
<1> QED
  BY <1>1, <1>2, <1>3 DEF Stop, ProcessFault

LEMMA StateStep == StateOK /\ Step => StateOK'
<1> SUFFICES ASSUME StateOK, Step PROVE StateOK'
  OBVIOUS
<1>1. CASE Aside
  BY <1>1 DEF Aside, StateOK
<1>2. CASE Publish
  <2>1. [pos |-> published] \in Message
    BY DEF Message, StateOK
  <2> QED
    BY <1>2, <2>1 DEF Publish, StateOK
<1> QED
  BY <1>1, <1>2, ConsumerType, FlushType, ProcessType DEF Next, Step

LEMMA StateInit == Init => StateOK
<1> SUFFICES ASSUME Init PROVE StateOK
  OBVIOUS
<1>1. pc \in [Threads -> Points] /\ held \in [Threads -> Seq(Message)]
  BY DEF Init, Points
<1>2. \A w \in Workers : Linking(w)
  BY ThreadsOf DEF Init, Linking
<1>3. \A t \in Threads : Holding(t)
  BY DEF Init, Holding
<1> QED
  BY <1>1, <1>2, <1>3 DEF Init, StateOK, Linking, Holding

\* A step adds no failure that is not one of FaultKinds.
LEMMA FaultsStep == FaultsOK(FaultKinds) /\ [Next]_vars => FaultsOK(FaultKinds)'
<1> SUFFICES ASSUME FaultsOK(FaultKinds), [Next]_vars,
                    ~ \E kind \in FaultKinds : Fault(kind)
             PROVE  NoFault
  BY DEF FaultsOK, Fault, NoFault, faultVars
<1> QED
  BY DEF Next, vars, Publish, Consumer, Deliver, AppendToBatch, Ack, Nack, Flush, TakeBatch,
    BulkIndex, RestoreBatch, FlushFault, BulkIndexPartial, BulkIndexFails, Tick, Stop,
    TickerReturns, Exit, ProcessFault, Terminate, LinkLost, Crash, NoFault, FaultKinds

\* The variables stay within their types; a consumer at work has a delivery,
\* and only a thread in the middle of a bulk request holds messages.
THEOREM TypeCorrect == Spec => []TypeOK
<1>1. Init => TypeOK
  BY StateInit DEF Init, TypeOK, FaultsOK
<1>2. TypeOK /\ [Next]_vars => TypeOK'
  BY StateStep, FaultsStep, NextIsStep DEF TypeOK
<1> QED
  BY <1>1, <1>2, PTL DEF Spec

-----------------------------------------------------------------------------
(***************************************************************************)
(* The bound of a batch.                                                   *)
(***************************************************************************)
LEMMA UnlessStays ==
  ASSUME Step, NEW kinds, Unless(kinds)
  PROVE  Unless(kinds)'
<1>1. happened \subseteq happened'
  BY DEF Step, Aside, Next, Publish, Consumer, Deliver, AppendToBatch, Ack, Nack, Flush,
    TakeBatch, BulkIndex, RestoreBatch, FlushFault, BulkIndexPartial, BulkIndexFails, Tick, Stop,
    TickerReturns, Exit, ProcessFault, Terminate, LinkLost, Crash, Fault, NoFault, faultVars
<1> QED
  BY <1>1 DEF Unless

LEMMA FaultExcuses ==
  ASSUME StateOK, NEW kind, Fault(kind), NEW kinds, kind \in kinds
  PROVE  Unless(kinds)'
BY DEF Fault, Unless

LEMMA StateHolds == Spec => []StateOK
BY TypeCorrect, PTL DEF TypeOK

\* A batch has its size only while its consumer is about to flush it; and it
\* is a failed request that puts messages back.
Room ==
  \/ Unless({"bulk_error"})
  \/ /\ \A t \in Threads : pc[t] # "restore"
     /\ \A w \in Workers : Len(batch[w]) >= BatchSize => pc[<<w, "consumer">>] = "take"

LEMMA RoomStep == StateOK /\ Room /\ Step => Room'
<1> SUFFICES ASSUME StateOK, Room, Step, ~Unless({"bulk_error"})'
             PROVE  /\ \A t \in Threads : pc'[t] # "restore"
                    /\ \A w \in Workers :
                         Len(batch'[w]) >= BatchSize => pc'[<<w, "consumer">>] = "take"
  BY DEF Room
<1> DEFINE c(w) == <<w, "consumer">>
           Body == /\ \A t \in Threads : pc'[t] # "restore"
                   /\ \A w \in Workers :
                        Len(batch'[w]) >= BatchSize => pc'[c(w)] = "take"
<1>1. /\ \A t \in Threads : pc[t] # "restore"
      /\ \A w \in Workers : Len(batch[w]) >= BatchSize => pc[c(w)] = "take"
  BY UnlessStays DEF Room
<1>2. \A w, v \in Workers : c(w) \in Threads /\ c(w)[1] = w /\ (c(w) = c(v) => w = v)
  BY ThreadsOf
<1>3. \A w \in Workers : \A k \in {"ticker", "stop"} :
        <<w, k>> \in Threads /\ \A v \in Workers : c(v) # <<w, k>>
  BY ThreadsOf
<1>4. \A t \in Threads : t[1] \in Workers /\ (t[2] = "consumer" => t = c(t[1]))
  BY ThreadsOf
<1>5. \A w \in Workers : Len(batch[w]) \in Nat
  BY DEF StateOK
<1>6. pc \in [Threads -> Points] /\ batch \in [Workers -> Seq(Message)]
  BY DEF StateOK
<1> HIDE DEF c
<1> USE <1>1, <1>2, <1>3, <1>4, <1>5, <1>6, IndexingAssumption
<1>7. ASSUME Aside \/ Publish PROVE Body
  <2>1. pc' = pc /\ batch' = batch
    BY <1>7 DEF Aside, Publish
  <2> QED
    BY <2>1
<1>8. ASSUME NEW w \in Workers, Consumer(w) PROVE Body
  <2>1. CASE AppendToBatch(w)
    <3>1. /\ pc' = [pc EXCEPT ![c(w)] = IF Len(batch[w]) + 1 >= BatchSize THEN "take" ELSE "ack"]
          /\ batch' = [batch EXCEPT ![w] = Append(@, msg[w])]
      BY <2>1 DEF AppendToBatch, Goto, c
    <3>2. Len(batch'[w]) = Len(batch[w]) + 1
      BY <3>1
    <3>3. pc'[c(w)] = IF Len(batch[w]) + 1 >= BatchSize THEN "take" ELSE "ack"
      BY <3>1
    <3> QED
      BY <3>1, <3>2, <3>3
  <2>2. CASE Deliver(w) \/ Ack(w) \/ Nack(w)
    <3>1. PICK here \in {"idle", "ack", "nack"}, there \in {"append", "idle"} :
            pc[c(w)] = here /\ pc' = [pc EXCEPT ![c(w)] = there]
      BY <2>2 DEF Deliver, Ack, Nack, Goto, c
    <3>2. batch' = batch
      BY <2>2 DEF Deliver, Ack, Nack
    <3> QED
      BY <3>1, <3>2
  <2> QED
    BY <1>8, <2>1, <2>2 DEF Consumer
<1>9. ASSUME NEW t \in Threads, Flush(t) PROVE Body
  <2>1. CASE TakeBatch(t)
    <3>1. PICK there \in Points : there # "restore" /\ pc' = [pc EXCEPT ![t] = there]
      BY <2>1, FlushEnds DEF TakeBatch, Goto, Points
    <3>2. batch' = [batch EXCEPT ![t[1]] = <<>>]
      BY <2>1 DEF TakeBatch
    <3>3. \A w \in Workers : w # t[1] => c(w) # t
      OBVIOUS
    <3> QED
      BY <3>1, <3>2, <3>3
  <2>2. CASE BulkIndex(t)
    <3>1. PICK there \in Points :
            there # "restore" /\ pc[t] = "bulk" /\ pc' = [pc EXCEPT ![t] = there]
      BY <2>2, FlushEnds DEF BulkIndex, Goto, Points
    <3>2. batch' = batch
      BY <2>2 DEF BulkIndex
    <3> QED
      BY <3>1, <3>2
  <2>3. CASE RestoreBatch(t)
    BY <2>3 DEF RestoreBatch, Goto
  <2> QED
    BY <1>9, <2>1, <2>2, <2>3 DEF Flush
<1>10. ASSUME NEW t \in Threads, FlushFault(t) PROVE Body
  <2>1. CASE BulkIndexPartial(t)
    <3>1. PICK there \in Points :
            there # "restore" /\ pc[t] = "bulk" /\ pc' = [pc EXCEPT ![t] = there]
      BY <2>1, FlushEnds DEF BulkIndexPartial, Goto, Points
    <3>2. batch' = batch
      BY <2>1 DEF BulkIndexPartial
    <3> QED
      BY <3>1, <3>2
  <2>2. CASE BulkIndexFails(t)
    BY <2>2, FaultExcuses DEF BulkIndexFails
  <2> QED
    BY <1>10, <2>1, <2>2 DEF FlushFault
<1>11. ASSUME NEW w \in Workers, Tick(w) \/ TickerReturns(w) \/ Terminate(w) PROVE Body
  <2>1. PICK k \in {"ticker", "stop"}, there \in {"take", "exit"} :
          pc' = [pc EXCEPT ![<<w, k>>] = there]
    BY <1>11 DEF Tick, TickerReturns, Terminate, Goto
  <2>2. batch' = batch
    BY <1>11 DEF Tick, TickerReturns, Terminate
  <2>3. <<w, k>> \in Threads /\ \A v \in Workers : c(v) # <<w, k>>
    OBVIOUS
  <2>4. \A t \in Threads : pc'[t] \in {pc[t], there}
    BY <2>1
  <2>5. \A v \in Workers : pc'[c(v)] = pc[c(v)]
    BY <2>1, <2>3
  <2> QED
    BY <2>2, <2>4, <2>5
<1>12. ASSUME NEW w \in Workers, LinkLost(w) PROVE Body
  BY <1>12 DEF LinkLost
<1>13. ASSUME NEW w \in Workers, Exit(w) \/ Crash(w) PROVE Body
  <2>1. batch' = [batch EXCEPT ![w] = <<>>]
    BY <1>13, EndType
  <2>2. \A t \in Threads : t[1] = w => pc'[t] \in {"off", "idle", "exit"}
    BY <1>13, EndType
  <2>3. \A t \in Threads : t[1] # w => pc'[t] = pc[t]
    BY ONLY <1>13, EndType, StateOK
  <2>4. \A t \in Threads : pc'[t] # "restore"
    BY <2>2, <2>3
  <2>5. ASSUME NEW v \in Workers, Len(batch'[v]) >= BatchSize
        PROVE  pc'[c(v)] = "take"
    <3>1. batch'[w] = <<>> /\ Len(batch'[w]) = 0
      BY <2>1
    <3>2. v # w
      BY <2>5, <3>1
    <3> QED
      BY <2>1, <2>3, <2>5, <3>2
  <2> QED
    BY <2>4, <2>5
<1> QED
  BY <1>7, <1>8, <1>9, <1>10, <1>11, <1>12, <1>13 DEF Step, Next, Stop, ProcessFault, c

\* A consumer that waits has room in its batch, as long as no bulk request has
\* failed: the delivery that fills a batch flushes it, whatever the ticker's
\* goroutine and Stop do meanwhile (HandleMessage).
THEOREM BatchesAreBounded == Spec => []RoomInBatch
<1>1. Init => Room
  BY IndexingAssumption, ThreadsOf DEF Init, Room
<1>2. Room => RoomInBatch
  BY DEF Room, RoomInBatch
<1> QED
  BY StateHolds, RoomStep, NextIsStep, <1>1, <1>2, PTL DEF Spec

-----------------------------------------------------------------------------
(***************************************************************************)
(* Where the messages are.                                                 *)
(***************************************************************************)

\* Messages that have left the hands of a consumer.
Collected == Batched \cup Flushing \cup docs

LEMMA CollectedIs ==
  \A m : m \in Collected <=>
    \/ \E w \in Workers : m \in Elements(batch[w])
    \/ \E t \in Threads : m \in Elements(held[t])
    \/ m \in docs
BY DEF Collected, Batched, Flushing

LEMMA CollectedNext ==
  \A m : m \in Collected' <=>
    \/ \E w \in Workers : m \in Elements(batch'[w])
    \/ \E t \in Threads : m \in Elements(held'[t])
    \/ m \in docs'
BY DEF Collected, Batched, Flushing, Elements

\* No flush loses a message that was collected: it passes from the batch to the
\* thread, and from there to the index, or back to the front of the batch.
LEMMA FlushKeeps ==
  ASSUME StateOK, NEW t \in Threads, Flush(t) \/ BulkIndexFails(t)
  PROVE  Collected \subseteq Collected'
<1>1. t[1] \in Workers /\ held[t] \in Seq(Message) /\ batch[t[1]] \in Seq(Message)
  BY ThreadsOf DEF StateOK
<1> SUFFICES ASSUME NEW m \in Collected
             PROVE  \/ \E w \in Workers : m \in Elements(batch'[w])
                    \/ \E u \in Threads : m \in Elements(held'[u])
                    \/ m \in docs'
  BY CollectedNext
<1>2. \/ \E w \in Workers : m \in Elements(batch[w])
      \/ \E u \in Threads : m \in Elements(held[u])
      \/ m \in docs
  BY CollectedIs
<1>3. CASE TakeBatch(t)
  <2>1. /\ \A w \in Workers : w # t[1] => batch'[w] = batch[w]
        /\ \A u \in Threads : u # t => held'[u] = held[u]
        /\ held'[t] = batch[t[1]] /\ docs' = docs /\ pc[t] = "take"
    BY <1>1, <1>3 DEF TakeBatch, Goto, StateOK
  <2>2. held[t] = <<>>
    BY <2>1 DEF StateOK
  <2> QED
    BY <1>2, <2>1, <2>2, ElementsEmpty
<1>4. CASE BulkIndex(t)
  <2>1. /\ batch' = batch
        /\ \A u \in Threads : u # t => held'[u] = held[u]
        /\ docs' = docs \cup Elements(held[t])
    BY <1>4 DEF BulkIndex, StateOK
  <2> QED
    BY <1>2, <2>1
<1>5. CASE RestoreBatch(t)
  <2>1. /\ \A w \in Workers : w # t[1] => batch'[w] = batch[w]
        /\ \A u \in Threads : u # t => held'[u] = held[u]
        /\ batch'[t[1]] = held[t] \o batch[t[1]] /\ docs' = docs
    BY <1>1, <1>5 DEF RestoreBatch, StateOK
  <2>2. Elements(batch'[t[1]]) = Elements(held[t]) \cup Elements(batch[t[1]])
    BY <1>1, <2>1, ElementsConcat
  <2> QED
    BY <1>1, <1>2, <2>1, <2>2
<1>6. CASE BulkIndexFails(t)
  BY <1>2, <1>6 DEF BulkIndexFails
<1> QED
  BY <1>3, <1>4, <1>5, <1>6 DEF Flush

LEMMA AppendKeeps ==
  ASSUME StateOK, NEW w \in Workers, AppendToBatch(w)
  PROVE  Collected \cup {msg[w]} \subseteq Collected'
<1>1. pc[<<w, "consumer">>] = "append" /\ held' = held /\ docs' = docs
  BY DEF AppendToBatch, Goto
<1>2. msg[w] \in Message
  <2>1. msg[w] # NoMessage
    BY <1>1 DEF StateOK
  <2> QED
    BY <2>1 DEF StateOK
<1>3. /\ batch'[w] = Append(batch[w], msg[w])
      /\ \A v \in Workers : v # w => batch'[v] = batch[v]
  BY DEF AppendToBatch, StateOK
<1>4. Elements(batch'[w]) = Elements(batch[w]) \cup {msg[w]}
  BY <1>2, <1>3, ElementsAppend DEF StateOK
<1> QED
  BY <1>1, <1>3, <1>4, CollectedIs, CollectedNext

\* Deliveries that are in hands: from Deliver to Ack or Nack.
LEMMA UnsettledIs ==
  \A m : m \in Unsettled <=> \E w \in Workers : linked[w] /\ msg[w] # NoMessage /\ m = msg[w]
BY DEF Unsettled, Unacked

LEMMA UnsettledNext ==
  \A m : m \in Unsettled' <=>
    \E w \in Workers : linked'[w] /\ msg'[w] # NoMessage /\ m = msg'[w]
BY DEF Unsettled, Unacked

Excused == Unless({"bulk_partial", "crash", "sigterm"})

\* A delivery that is about to be acknowledged is collected; and no process has
\* been told to stop.
AckJustified ==
  \A w \in Workers :
    /\ pc[<<w, "stop">>] = "off"
    /\ pc[<<w, "consumer">>] \in {"idle", "append", "exit"} \/ msg[w] \in Collected

Everywhere == Published \subseteq queue \cup Unsettled \cup Collected

Kept == Excused \/ (AckJustified /\ Everywhere)

\* What a step that keeps the collected messages has to show besides.
LEMMA KeptNext ==
  ASSUME Everywhere,
         \A w \in Workers : pc'[<<w, "stop">>] = "off",
         \A w \in Workers :
           pc'[<<w, "consumer">>] \in {"idle", "append", "exit"} \/ msg'[w] \in Collected',
         Published' \subseteq Published \cup queue',
         queue \subseteq queue' \cup Unsettled',
         Unsettled \subseteq queue' \cup Unsettled' \cup Collected',
         Collected \subseteq Collected'
  PROVE  AckJustified' /\ Everywhere'
BY DEF AckJustified, Everywhere

\* A step that leaves the collected messages where they are.
LEMMA CollectedStays ==
  ASSUME batch' = batch, held' = held, docs' = docs
  PROVE  Collected' = Collected
BY CollectedIs, CollectedNext

\* The two threads of a process that a step may leave alone.
LEMMA OthersStay ==
  ASSUME StateOK, NEW t \in Threads, NEW here, NEW there \in Points, Goto(t, here, there)
  PROVE  /\ \A w \in Workers : t # <<w, "stop">> => pc'[<<w, "stop">>] = pc[<<w, "stop">>]
         /\ \A w \in Workers :
              t # <<w, "consumer">> => pc'[<<w, "consumer">>] = pc[<<w, "consumer">>]
BY ThreadsOf, GotoIs

LEMMA ConsumerKept ==
  ASSUME StateOK, AckJustified, Everywhere, NEW w \in Workers, Consumer(w)
  PROVE  AckJustified' /\ Everywhere'
<1> DEFINE c(v) == <<v, "consumer">>
           s(v) == <<v, "stop">>
<1>1. /\ \A v \in Workers : c(v) \in Threads /\ c(v) # s(v) /\ c(w) # s(v)
      /\ \A v \in Workers : c(v) = c(w) => v = w
  BY ThreadsOf
<1>2. \A v \in Workers :
        /\ pc[s(v)] = "off"
        /\ pc[c(v)] \in {"idle", "append", "exit"} \/ msg[v] \in Collected
  BY DEF AckJustified
<1>3. PICK here \in {"idle", "append", "ack", "nack"}, there \in {"append", "take", "ack", "idle"} :
        /\ Goto(c(w), here, there)
        /\ here = "idle" <=> Deliver(w)
        /\ here = "append" <=> AppendToBatch(w)
  BY DEF Consumer, Deliver, AppendToBatch, Ack, Nack, Goto
<1>4. \A v \in Workers : pc'[s(v)] = "off" /\ (v # w => pc'[c(v)] = pc[c(v)])
  BY <1>1, <1>2, <1>3, OthersStay DEF Points
<1>5. pc[c(w)] = here /\ pc'[c(w)] = there
  BY <1>1, <1>3, GotoIs DEF Points
<1>6. Published' = Published
  BY DEF Consumer, Deliver, AppendToBatch, Ack, Nack, Published
<1>7. msg[w] = NoMessage <=> here = "idle"
  BY <1>3, <1>5 DEF StateOK
<1> HIDE DEF c, s
<1>8. CASE Deliver(w)
  <2>1. PICK m \in queue : queue' = queue \ {m} /\ msg' = [msg EXCEPT ![w] = m]
    BY <1>8 DEF Deliver
  <2>2. m # NoMessage
    BY <2>1, IndexingAssumption DEF StateOK, Message
  <2>3. msg'[w] = m /\ (\A v \in Workers : v # w => msg'[v] = msg[v]) /\ linked' = linked /\ linked[w]
    BY <1>8, <2>1 DEF Deliver, StateOK
  <2>4. Collected' = Collected
    BY <1>8, CollectedStays DEF Deliver
  <2>5. m \in Unsettled'
    BY <2>2, <2>3, UnsettledNext
  <2>6. Unsettled \subseteq Unsettled'
    BY <1>3, <1>7, <1>8, <2>3, UnsettledIs, UnsettledNext
  <2>7. there = "append"
    BY <1>5, <1>8, GotoIs, <1>1 DEF Deliver, Points, c
  <2>8. \A v \in Workers : pc'[c(v)] \in {"idle", "append", "exit"} \/ msg'[v] \in Collected'
    BY <1>2, <1>4, <1>5, <2>3, <2>4, <2>7
  <2>9. queue \subseteq queue' \cup Unsettled'
    BY <2>1, <2>5
  <2> QED
    BY <1>4, <1>6, <2>4, <2>6, <2>8, <2>9, KeptNext DEF c, s
<1>9. CASE AppendToBatch(w)
  <2>1. msg' = msg /\ linked' = linked /\ queue' = queue
    BY <1>9 DEF AppendToBatch
  <2>2. Collected \cup {msg[w]} \subseteq Collected'
    BY <1>9, AppendKeeps
  <2>3. Unsettled' = Unsettled
    BY <2>1, UnsettledIs, UnsettledNext
  <2>4. \A v \in Workers : pc'[c(v)] \in {"idle", "append", "exit"} \/ msg'[v] \in Collected'
    BY <1>2, <1>4, <2>1, <2>2
  <2> QED
    BY <1>4, <1>6, <2>1, <2>2, <2>3, <2>4, KeptNext DEF c, s
<1>10. CASE Ack(w) \/ Nack(w)
  <2>1. /\ \A v \in Workers : v # w => msg'[v] = msg[v]
        /\ linked' = linked /\ queue \subseteq queue'
    BY <1>10 DEF Ack, Nack, StateOK
  <2>2. here \in {"ack", "nack"} /\ there = "idle"
    BY <1>1, <1>5, <1>10, GotoIs DEF Ack, Nack, Points, c
  <2>3. Collected' = Collected
    BY <1>10, CollectedStays DEF Ack, Nack
  <2>4. msg[w] \in Collected
    BY <1>2, <1>5, <2>2
  <2>5. Unsettled \subseteq Unsettled' \cup Collected'
    BY <2>1, <2>3, <2>4, UnsettledIs, UnsettledNext
  <2>6. \A v \in Workers : pc'[c(v)] \in {"idle", "append", "exit"} \/ msg'[v] \in Collected'
    BY <1>2, <1>4, <1>5, <2>1, <2>2, <2>3
  <2> QED
    BY <1>4, <1>6, <2>1, <2>3, <2>5, <2>6, KeptNext DEF c, s
<1> QED
  BY <1>8, <1>9, <1>10 DEF Consumer

\* A flush leaves every delivery with its consumer, and the consumer at work.
LEMMA FlushKept ==
  ASSUME StateOK, AckJustified, Everywhere,
         NEW t \in Threads, Flush(t) \/ BulkIndexFails(t)
  PROVE  AckJustified' /\ Everywhere'
<1> DEFINE c(v) == <<v, "consumer">>
           s(v) == <<v, "stop">>
<1>1. \A v \in Workers :
        /\ pc[s(v)] = "off"
        /\ pc[c(v)] \in {"idle", "append", "exit"} \/ msg[v] \in Collected
  BY DEF AckJustified
<1>2. PICK here \in {"take", "bulk", "restore"}, there \in Points : Goto(t, here, there)
  BY FlushEnds DEF Flush, TakeBatch, BulkIndex, RestoreBatch, BulkIndexFails, Points
<1>3. pc[t] = here
  BY <1>2 DEF Goto
<1>4. \A v \in Workers :
        pc'[s(v)] = "off" /\ (pc'[c(v)] = pc[c(v)] \/ pc[c(v)] \in {"take", "bulk", "restore"})
  BY <1>1, <1>2, <1>3, OthersStay
<1>5. /\ published' = published /\ queue' = queue
      /\ msg' = msg /\ linked' = linked
  BY DEF Flush, TakeBatch, BulkIndex, RestoreBatch, BulkIndexFails
<1>6. Published' = Published
  BY <1>5 DEF Published
<1>7. Collected \subseteq Collected'
  BY FlushKeeps
<1>8. Unsettled' = Unsettled
  BY <1>5, UnsettledIs, UnsettledNext
<1> HIDE DEF c, s
<1>9. \A v \in Workers : pc'[c(v)] \in {"idle", "append", "exit"} \/ msg'[v] \in Collected'
  BY <1>1, <1>4, <1>5, <1>7
<1> QED
  BY <1>4, <1>5, <1>6, <1>7, <1>8, <1>9, KeptNext DEF c, s

\* Steps of the broker and of the ticker that leave what was collected alone.
LEMMA RestKept ==
  ASSUME StateOK, AckJustified, Everywhere,
         Aside \/ Publish \/ \E w \in Workers : LinkLost(w) \/ Tick(w)
  PROVE  AckJustified' /\ Everywhere'
<1> DEFINE c(v) == <<v, "consumer">>
           s(v) == <<v, "stop">>
<1>1. \A v \in Workers :
        /\ pc[s(v)] = "off"
        /\ pc[c(v)] \in {"idle", "append", "exit"} \/ msg[v] \in Collected
  BY DEF AckJustified
<1>2. batch' = batch /\ held' = held /\ docs' = docs /\ msg' = msg
  BY DEF Aside, Publish, LinkLost, Tick
<1>3. Collected' = Collected
  BY <1>2, CollectedStays
<1>4. \A v \in Workers : pc'[s(v)] = pc[s(v)] /\ pc'[c(v)] = pc[c(v)]
  <2>1. CASE \E w \in Workers : Tick(w)
    <3>1. PICK w \in Workers : Goto(<<w, "ticker">>, "idle", "take")
      BY <2>1 DEF Tick
    <3>2. <<w, "ticker">> \in Threads /\ \A v \in Workers : <<w, "ticker">> # s(v) /\ <<w, "ticker">> # c(v)
      BY ThreadsOf
    <3> QED
      BY <3>1, <3>2, OthersStay DEF Points
  <2>2. CASE Aside \/ Publish \/ \E w \in Workers : LinkLost(w)
    BY <2>2 DEF Aside, Publish, LinkLost
  <2> QED
    BY <2>1, <2>2
<1>5. queue \subseteq queue'
  BY DEF Aside, Publish, LinkLost, Tick
<1>6. Published' \subseteq Published \cup queue'
  <2>1. CASE Publish
    <3>1. [pos |-> published] \in queue' /\ published' = published + 1 /\ published \in Nat
      BY <2>1 DEF Publish, StateOK
    <3>2. \A n \in 0..(published' - 1) : n \in 0..(published - 1) \/ n = published
      BY <3>1
    <3> QED
      BY <3>1, <3>2 DEF Published
  <2>2. CASE ~Publish
    BY <2>2 DEF Aside, LinkLost, Tick, Published
  <2> QED
    BY <2>1, <2>2
<1>7. Unsettled \subseteq queue' \cup Unsettled'
  <2>1. CASE \E w \in Workers : LinkLost(w)
    <3>1. PICK w \in Workers : /\ linked' = [linked EXCEPT ![w] = FALSE]
                               /\ queue' = queue \cup Unacked(w)
      BY <2>1 DEF LinkLost
    <3>2. \A v \in Workers : v # w => (linked'[v] <=> linked[v])
      BY <3>1, Zenon DEF StateOK
    <3>3. linked[w] /\ msg[w] # NoMessage => msg[w] \in queue'
      BY <3>1 DEF Unacked
    <3> QED
      BY <1>2, <3>2, <3>3, UnsettledIs, UnsettledNext
  <2>2. CASE ~\E w \in Workers : LinkLost(w)
    <3>1. linked' = linked
      BY <2>2 DEF Aside, Publish, Tick
    <3> QED
      BY <1>2, <3>1, UnsettledIs, UnsettledNext
  <2> QED
    BY <2>1, <2>2
<1> HIDE DEF c, s
<1>8. \A v \in Workers : pc'[c(v)] \in {"idle", "append", "exit"} \/ msg'[v] \in Collected'
  BY <1>1, <1>2, <1>3, <1>4
<1> QED
  BY <1>1, <1>3, <1>4, <1>5, <1>6, <1>7, <1>8, KeptNext DEF c, s

LEMMA KeptStep == StateOK /\ Kept /\ Step => Kept'
<1> SUFFICES ASSUME StateOK, Kept, Step, ~Excused' PROVE AckJustified' /\ Everywhere'
  BY DEF Kept
<1>1. AckJustified /\ Everywhere
  BY UnlessStays DEF Kept, Excused
<1>2. /\ \A t \in Threads : ~BulkIndexPartial(t)
      /\ \A w \in Workers : ~Terminate(w) /\ ~Crash(w)
  BY FaultExcuses DEF BulkIndexPartial, Terminate, Crash, Excused
<1>3. \A w \in Workers : ~Stop(w)
  BY <1>1 DEF AckJustified, Stop, TickerReturns, Exit
<1>4. CASE \E w \in Workers : Consumer(w)
  BY <1>1, <1>4, ConsumerKept
<1>5. CASE \E t \in Threads : Flush(t) \/ BulkIndexFails(t)
  BY <1>1, <1>5, FlushKept
<1>6. CASE Aside \/ Publish \/ \E w \in Workers : LinkLost(w) \/ Tick(w)
  BY <1>1, <1>6, RestKept
<1> QED
  BY <1>2, <1>3, <1>4, <1>5, <1>6 DEF Step, Next, FlushFault, ProcessFault

\* A published message is in the queue, with a consumer, in a batch, in a flush
\* or in Elasticsearch, as long as no document is rejected and no process dies
\* or is stopped: flushes that overlap or fail, and channels that close, lose
\* nothing (flush, HandleMessage).
THEOREM NothingIsLost == Spec => []NothingLost
<1>1. Init => Kept
  <2>1. SUFFICES ASSUME Init PROVE AckJustified /\ Everywhere
    BY DEF Kept
  <2>2. Published = {}
    BY <2>1 DEF Init, Published
  <2>3. \A w \in Workers : pc[<<w, "stop">>] = "off" /\ pc[<<w, "consumer">>] = "idle"
    BY <2>1, ThreadsOf DEF Init
  <2> QED
    BY <2>2, <2>3 DEF AckJustified, Everywhere
<1>2. Kept => NothingLost
  BY DEF Kept, Excused, Everywhere, Collected, NothingLost
<1> QED
  BY StateHolds, KeptStep, NextIsStep, <1>1, <1>2, PTL DEF Spec

-----------------------------------------------------------------------------
(***************************************************************************)
(* Where the messages come from.                                           *)
(***************************************************************************)
Somewhere(m) ==
  \/ m \in queue
  \/ \E w \in Workers : msg[w] # NoMessage /\ m = msg[w]
  \/ m \in Collected

\* Nothing is anywhere that was not published.
Known == \A m : Somewhere(m) => m \in Published

LEMMA SomewhereIs ==
  \A m : Somewhere(m) <=>
    \/ m \in queue
    \/ \E w \in Workers : msg[w] # NoMessage /\ m = msg[w]
    \/ \E w \in Workers : m \in Elements(batch[w])
    \/ \E t \in Threads : m \in Elements(held[t])
    \/ m \in docs
BY CollectedIs DEF Somewhere

LEMMA SomewhereNext ==
  \A m : Somewhere(m)' <=>
    \/ m \in queue'
    \/ \E w \in Workers : msg'[w] # NoMessage /\ m = msg'[w]
    \/ \E w \in Workers : m \in Elements(batch'[w])
    \/ \E t \in Threads : m \in Elements(held'[t])
    \/ m \in docs'
BY CollectedNext DEF Somewhere

\* Only Publish brings a message into the world.
LEMMA NothingAppears ==
  ASSUME StateOK, Step, ~Publish, NEW m, Somewhere(m)'
  PROVE  Somewhere(m)
<1>0. \/ m \in queue'
      \/ \E w \in Workers : msg'[w] # NoMessage /\ m = msg'[w]
      \/ \E w \in Workers : m \in Elements(batch'[w])
      \/ \E t \in Threads : m \in Elements(held'[t])
      \/ m \in docs'
  BY SomewhereNext
<1> DEFINE Now == \/ m \in queue
                  \/ \E w \in Workers : msg[w] # NoMessage /\ m = msg[w]
                  \/ \E w \in Workers : m \in Elements(batch[w])
                  \/ \E t \in Threads : m \in Elements(held[t])
                  \/ m \in docs
<1> SUFFICES Now
  BY SomewhereIs
<1>1. CASE Aside
  BY <1>0, <1>1 DEF Aside
<1>2. ASSUME NEW w \in Workers, AppendToBatch(w) PROVE Now
  <2>1. /\ batch'[w] = Append(batch[w], msg[w])
        /\ \A v \in Workers : v # w => batch'[v] = batch[v]
        /\ UNCHANGED <<queue, msg, held, docs>>
        /\ pc[<<w, "consumer">>] = "append"
    BY <1>2 DEF AppendToBatch, Goto, StateOK
  <2>2. msg[w] # NoMessage /\ msg[w] \in Message
    <3>1. msg[w] # NoMessage
      BY <2>1 DEF StateOK
    <3> QED
      BY <3>1 DEF StateOK
  <2>3. Elements(batch'[w]) = Elements(batch[w]) \cup {msg[w]}
    BY <2>1, <2>2, ElementsAppend DEF StateOK
  <2> QED
    BY <1>0, <2>1, <2>2, <2>3
<1>3. ASSUME NEW w \in Workers, Deliver(w) \/ Ack(w) \/ Nack(w) PROVE Now
  <2>1. UNCHANGED <<batch, held, docs>>
    BY <1>3 DEF Deliver, Ack, Nack
  <2>2. \A v \in Workers : msg'[v] \in {msg[v], NoMessage} \cup queue
    BY <1>3 DEF Deliver, Ack, Nack, StateOK
  <2>3. pc[<<w, "consumer">>] \notin {"idle", "exit"} => msg[w] # NoMessage
    BY DEF StateOK
  <2>4. queue' \subseteq queue \/ (queue' = queue \cup {msg[w]} /\ msg[w] # NoMessage)
    BY <1>3, <2>3 DEF Deliver, Ack, Nack, Goto
  <2> QED
    BY <1>0, <2>1, <2>2, <2>4
<1>4. ASSUME NEW t \in Threads, Flush(t) \/ FlushFault(t) PROVE Now
  <2>1. t[1] \in Workers /\ held[t] \in Seq(Message) /\ batch[t[1]] \in Seq(Message)
    BY ThreadsOf DEF StateOK
  <2>2. UNCHANGED <<queue, msg>>
    BY <1>4 DEF Flush, TakeBatch, BulkIndex, RestoreBatch, FlushFault, BulkIndexPartial,
                BulkIndexFails
  <2>3. CASE TakeBatch(t)
    <3>1. /\ \A u \in Threads : u # t => held'[u] = held[u]
          /\ held'[t] = batch[t[1]] /\ docs' = docs
          /\ \A w \in Workers : batch'[w] \in {batch[w], <<>>}
      BY <2>1, <2>3 DEF TakeBatch, StateOK
    <3> QED
      BY <1>0, <2>1, <2>2, <3>1, ElementsEmpty
  <2>4. CASE BulkIndex(t) \/ BulkIndexPartial(t) \/ BulkIndexFails(t)
    <3>1. /\ \A u \in Threads : held'[u] \in {held[u], <<>>}
          /\ batch' = batch /\ docs' \subseteq docs \cup Elements(held[t])
      BY <2>4 DEF BulkIndex, BulkIndexPartial, BulkIndexFails, StateOK
    <3> QED
      BY <1>0, <2>2, <3>1, ElementsEmpty
  <2>5. CASE RestoreBatch(t)
    <3>1. /\ \A u \in Threads : held'[u] \in {held[u], <<>>}
          /\ \A w \in Workers : w # t[1] => batch'[w] = batch[w]
          /\ batch'[t[1]] = held[t] \o batch[t[1]] /\ docs' = docs
      BY <2>1, <2>5 DEF RestoreBatch, StateOK
    <3>2. Elements(batch'[t[1]]) = Elements(held[t]) \cup Elements(batch[t[1]])
      BY <2>1, <3>1, ElementsConcat
    <3> QED
      BY <1>0, <2>1, <2>2, <3>1, <3>2, ElementsEmpty
  <2> QED
    BY <1>4, <2>3, <2>4, <2>5 DEF Flush, FlushFault
<1>5. ASSUME NEW w \in Workers, Tick(w) \/ TickerReturns(w) \/ Terminate(w) PROVE Now
  BY <1>0, <1>5 DEF Tick, TickerReturns, Terminate
<1>6. ASSUME NEW w \in Workers, LinkLost(w) PROVE Now
  BY <1>0, <1>6 DEF LinkLost, Unacked
<1>7. ASSUME NEW w \in Workers, Exit(w) \/ Crash(w) PROVE Now
  <2>1. /\ \A v \in Workers : msg'[v] \in {msg[v], NoMessage} /\ batch'[v] \in {batch[v], <<>>}
        /\ \A t \in Threads : held'[t] \in {held[t], <<>>}
        /\ docs' = docs
    <3>1. msg' = [msg EXCEPT ![w] = NoMessage] /\ batch' = [batch EXCEPT ![w] = <<>>]
      BY <1>7, EndType
    <3>2. docs' = docs /\ \A t \in Threads : held'[t] \in {held[t], <<>>}
      BY <1>7, EndType
    <3> QED
      BY <3>1, <3>2 DEF StateOK
  <2>2. queue' = queue \cup Unacked(w)
    BY <1>7 DEF Exit, Crash, End
  <2> QED
    BY <1>0, <2>1, <2>2, ElementsEmpty DEF Unacked
<1> QED
  BY <1>1, <1>2, <1>3, <1>4, <1>5, <1>6, <1>7
  DEF Step, Next, Consumer, Stop, ProcessFault

LEMMA KnownStep ==
  ASSUME StateOK, Step, Known
  PROVE  Known'
<1>1. Published \subseteq Published'
  <2>1. published' = published \/ published' = published + 1
    BY DEF Step, Aside, Next, Publish, Consumer, Deliver, AppendToBatch, Ack, Nack, Flush,
      TakeBatch, BulkIndex, RestoreBatch, FlushFault, BulkIndexPartial, BulkIndexFails, Tick,
      Stop, TickerReturns, Exit, End, ProcessFault, Terminate, LinkLost, Crash
  <2>2. \A n \in 0..(published - 1) : n \in 0..(published' - 1)
    BY <2>1 DEF StateOK
  <2> QED
    BY <2>2 DEF Published
<1>2. CASE ~Publish
  BY <1>1, <1>2, NothingAppears DEF Known
<1>3. CASE Publish
  <2>1. queue' = queue \cup {[pos |-> published]} /\ UNCHANGED <<msg, batch, held, docs>>
    BY <1>3 DEF Publish
  <2>2. [pos |-> published] \in Published'
    BY <1>3 DEF Publish, Published, StateOK
  <2>3. \A m : Somewhere(m)' => Somewhere(m) \/ m = [pos |-> published]
    BY <2>1, SomewhereIs, SomewhereNext
  <2> QED
    BY <1>1, <2>2, <2>3 DEF Known
<1> QED
  BY <1>2, <1>3

LEMMA KnownInit == Init => Known
<1> SUFFICES ASSUME Init, NEW m, Somewhere(m) PROVE FALSE
  BY DEF Known
<1> QED
  BY SomewhereIs, ElementsEmpty DEF Init

-----------------------------------------------------------------------------
(***************************************************************************)
(* Nothing is sent twice.  A message is in one place at a time: the queue, *)
(* a process (the delivery that it is about to collect, or its batch), a   *)
(* flush, or the index.                                                    *)
(***************************************************************************)
Repeats == {"bulk_error", "worker_link", "crash", "sigterm"}

Once(s) == \A i, j \in 1..Len(s) : s[i] = s[j] => i = j

Appending(w) == pc[<<w, "consumer">>] = "append"

Mine(w) == Elements(batch[w]) \cup (IF Appending(w) THEN {msg[w]} ELSE {})

\* No two places share a message.
Apart ==
  /\ \A m \in queue : m \notin docs
  /\ \A w \in Workers : \A m \in Mine(w) : m \notin queue \cup docs
  /\ \A t \in Threads : \A m \in Elements(held[t]) : m \notin queue \cup docs
  /\ \A v, w \in Workers : v # w => \A m \in Mine(v) : m \notin Mine(w)
  /\ \A t, u \in Threads : t # u => \A m \in Elements(held[t]) : m \notin Elements(held[u])
  /\ \A w \in Workers, t \in Threads : \A m \in Mine(w) : m \notin Elements(held[t])

\* Nor does a place have it twice.
Distinct ==
  /\ \A w \in Workers : Once(batch[w])
  /\ \A w \in Workers : Appending(w) => msg[w] \notin Elements(batch[w])
  /\ \A t \in Threads : Once(held[t])

\* No bulk request has failed, and nobody was told to stop.
Undisturbed ==
  /\ \A t \in Threads : pc[t] \notin {"restore", "nack"}
  /\ \A w \in Workers : pc[<<w, "stop">>] = "off"

Single == Unless(Repeats) \/ (Apart /\ Distinct /\ Undisturbed)

LEMMA OnceAppend ==
  ASSUME NEW S, NEW s \in Seq(S), NEW m \in S, Once(s), m \notin Elements(s)
  PROVE  Once(Append(s, m))
<1>1. Len(Append(s, m)) = Len(s) + 1 /\ Append(s, m)[Len(s) + 1] = m /\ Len(s) \in Nat
  OBVIOUS
<1>2. \A i \in 1..Len(s) : Append(s, m)[i] = s[i] /\ s[i] # m
  BY DEF Elements
<1> QED
  BY <1>1, <1>2 DEF Once

LEMMA OnceEmpty == Once(<<>>)
BY DEF Once

\* A step in which messages at most leave their places.
LEMMA PlacesShrink ==
  ASSUME Apart,
         queue' \subseteq queue, docs' \subseteq docs,
         \A w \in Workers : Mine(w)' \subseteq Mine(w),
         \A t \in Threads : Elements(held[t])' \subseteq Elements(held[t])
  PROVE  Apart'
BY DEF Apart

\* What a step of thread t does to the places of the consumers' deliveries.
LEMMA MineStays ==
  ASSUME NEW w \in Workers, UNCHANGED <<batch, msg>>,
         pc'[<<w, "consumer">>] = "append" => pc[<<w, "consumer">>] = "append"
  PROVE  Mine(w)' \subseteq Mine(w) /\ (Appending(w)' => Appending(w))
BY DEF Mine, Appending, Elements

LEMMA ConsumerOnce ==
  ASSUME StateOK, Apart, Distinct, Undisturbed, NEW w \in Workers, Consumer(w)
  PROVE  Apart' /\ Distinct' /\ Undisturbed'
<1> DEFINE c(v) == <<v, "consumer">>
<1>1. /\ \A v \in Workers : c(v) \in Threads /\ (c(v) = c(w) => v = w)
      /\ \A v \in Workers : <<v, "stop">> \in Threads /\ <<v, "stop">> # c(w)
  BY ThreadsOf
<1>2. PICK here \in {"idle", "append", "ack"}, there \in {"append", "take", "ack", "idle"} :
        /\ Goto(c(w), here, there)
        /\ here = "idle" <=> Deliver(w)
        /\ here = "append" <=> AppendToBatch(w)
        /\ there = "append" <=> Deliver(w)
  <2>1. ~Nack(w)
    BY <1>1 DEF Nack, Goto, Undisturbed
  <2> QED
    BY <2>1 DEF Consumer, Deliver, AppendToBatch, Ack, Goto
<1>3. /\ pc[c(w)] = here /\ pc'[c(w)] = there
      /\ \A u \in Threads : u # c(w) => pc'[u] = pc[u]
  BY <1>1, <1>2, GotoIs DEF Points
<1>4. Undisturbed'
  BY <1>1, <1>3 DEF Undisturbed
<1>5. \A v \in Workers : Appending(v) <=> pc[c(v)] = "append"
  BY DEF Appending
<1>6. \A v \in Workers : Appending(v)' <=> pc'[c(v)] = "append"
  BY DEF Appending
<1>7. \A v \in Workers : v # w => (Appending(v)' <=> Appending(v))
  BY <1>1, <1>3, <1>5, <1>6
<1>8. \A v \in Workers : Mine(v) = Elements(batch[v]) \cup (IF Appending(v) THEN {msg[v]} ELSE {})
  BY DEF Mine
<1>9. \A v \in Workers :
        Mine(v)' = Elements(batch'[v]) \cup (IF Appending(v)' THEN {msg'[v]} ELSE {})
  BY DEF Mine, Elements
<1>10. held' = held /\ docs' = docs
  BY DEF Consumer, Deliver, AppendToBatch, Ack, Nack
<1>11. \A t \in Threads : Elements(held[t])' = Elements(held[t])
  BY <1>10 DEF Elements
<1> HIDE DEF c
<1>12. CASE Deliver(w)
  <2>1. PICK m \in queue : queue' = queue \ {m} /\ msg' = [msg EXCEPT ![w] = m]
    BY <1>12 DEF Deliver
  <2>2. /\ msg'[w] = m /\ \A v \in Workers : v # w => msg'[v] = msg[v]
        /\ batch' = batch
    BY <1>12, <2>1 DEF Deliver, StateOK
  <2>3. ~Appending(w) /\ Appending(w)'
    BY <1>2, <1>3, <1>5, <1>6, <1>12
  <2>4. \A v \in Workers : v # w => Mine(v)' = Mine(v)
    BY <1>7, <1>8, <1>9, <2>2
  <2>5. Mine(w)' = Mine(w) \cup {m}
    BY <1>8, <1>9, <2>2, <2>3
  <2>6. Apart'
    BY <1>10, <1>11, <2>1, <2>4, <2>5 DEF Apart
  <2>7. m \notin Elements(batch[w])
    BY <1>8, <2>1 DEF Apart
  <2>8. Distinct'
    BY <1>7, <1>10, <2>2, <2>7 DEF Distinct, Once, Elements
  <2> QED
    BY <1>4, <2>6, <2>8
<1>13. CASE AppendToBatch(w)
  <2>1. /\ batch'[w] = Append(batch[w], msg[w]) /\ msg' = msg /\ queue' = queue
        /\ \A v \in Workers : v # w => batch'[v] = batch[v]
    BY <1>13 DEF AppendToBatch, StateOK
  <2>2. Appending(w) /\ ~Appending(w)'
    BY <1>2, <1>3, <1>5, <1>6, <1>13
  <2>3. msg[w] \in Message
    <3>1. msg[w] # NoMessage
      BY <2>2 DEF StateOK, Appending
    <3> QED
      BY <3>1 DEF StateOK
  <2>4. Elements(batch'[w]) = Elements(batch[w]) \cup {msg[w]} /\ Once(batch'[w])
    BY <2>1, <2>2, <2>3, ElementsAppend, OnceAppend DEF StateOK, Distinct
  <2>5. \A v \in Workers : Mine(v)' = Mine(v)
    BY <1>7, <1>8, <1>9, <2>1, <2>2, <2>4
  <2>6. Apart'
    BY <1>10, <1>11, <2>1, <2>5, PlacesShrink
  <2>7. \A v \in Workers : Once(batch[v])' /\ (Appending(v)' => msg'[v] \notin Elements(batch'[v]))
    BY <1>7, <2>1, <2>2, <2>4 DEF Distinct, Once
  <2>8. \A t \in Threads : Once(held[t])'
    BY <1>10 DEF Distinct, Once
  <2> QED
    BY <1>4, <2>6, <2>7, <2>8 DEF Distinct, Elements
<1>14. CASE Ack(w)
  <2>1. UNCHANGED <<queue, batch>> /\ \A v \in Workers : v # w => msg'[v] = msg[v]
    BY <1>14 DEF Ack, StateOK
  <2>2. ~Appending(w) /\ ~Appending(w)'
    BY <1>3, <1>5, <1>6, <1>14 DEF Ack, Goto, c
  <2>3. \A v \in Workers : Mine(v)' = Mine(v)
    BY <1>7, <1>8, <1>9, <2>1, <2>2
  <2>4. Apart'
    BY <1>10, <1>11, <2>1, <2>3, PlacesShrink
  <2>5. Distinct'
    BY <1>7, <1>10, <2>1, <2>2 DEF Distinct, Once, Elements
  <2> QED
    BY <1>4, <2>4, <2>5
<1>15. ~Nack(w)
  BY <1>3 DEF Nack, Goto, c
<1> QED
  BY <1>12, <1>13, <1>14, <1>15 DEF Consumer

LEMMA FlushOnce ==
  ASSUME StateOK, Apart, Distinct, Undisturbed, NEW t \in Threads,
         Flush(t) \/ BulkIndexPartial(t)
  PROVE  Apart' /\ Distinct' /\ Undisturbed'
<1> DEFINE H(u) == Elements(held[u])
<1>1. t[1] \in Workers /\ held[t] \in Seq(Message) /\ batch[t[1]] \in Seq(Message)
  BY ThreadsOf DEF StateOK
<1>2. PICK here \in {"take", "bulk"}, there \in {"bulk", "ack", "idle", "exit"} :
        Goto(t, here, there) /\ (here = "take" <=> TakeBatch(t))
  <2>1. ~RestoreBatch(t)
    BY DEF RestoreBatch, Goto, Undisturbed
  <2> QED
    BY <2>1, FlushEnds DEF Flush, TakeBatch, BulkIndex, BulkIndexPartial, Goto
<1>3. /\ pc[t] = here /\ pc'[t] = there
      /\ \A u \in Threads : u # t => pc'[u] = pc[u]
  BY <1>2, GotoIs DEF Points
<1>4. \A v \in Workers : <<v, "stop">> \in Threads /\ <<v, "consumer">> \in Threads
  BY ThreadsOf
<1>5. Undisturbed'
  BY <1>3, <1>4 DEF Undisturbed
<1>6. \A v \in Workers : Appending(v)' <=> Appending(v)
  BY <1>3, <1>4 DEF Appending
<1>7. msg' = msg /\ queue' = queue
  BY DEF Flush, TakeBatch, BulkIndex, RestoreBatch, BulkIndexPartial
<1>8. \A v \in Workers : Mine(v) = Elements(batch[v]) \cup (IF Appending(v) THEN {msg[v]} ELSE {})
  BY DEF Mine
<1>9. \A v \in Workers :
        Mine(v)' = Elements(batch'[v]) \cup (IF Appending(v)' THEN {msg'[v]} ELSE {})
  BY DEF Mine, Elements
<1>10. \A u \in Threads : H(u)' = Elements(held'[u])
  BY DEF Elements
<1>11. CASE TakeBatch(t)
  <2>1. /\ batch'[t[1]] = <<>> /\ \A v \in Workers : v # t[1] => batch'[v] = batch[v]
        /\ held'[t] = batch[t[1]] /\ \A u \in Threads : u # t => held'[u] = held[u]
        /\ docs' = docs
    BY <1>1, <1>11 DEF TakeBatch, StateOK
  <2>2. H(t)' = Elements(batch[t[1]]) /\ \A u \in Threads : u # t => H(u)' = H(u)
    BY <1>10, <2>1
  <2>3. /\ \A m \in Mine(t[1])' : Appending(t[1]) /\ m = msg[t[1]]
        /\ \A v \in Workers : v # t[1] => Mine(v)' = Mine(v)
    <3>1. Mine(t[1])' = Elements(batch'[t[1]])
                           \cup (IF Appending(t[1]) THEN {msg[t[1]]} ELSE {})
      BY <1>1, <1>6, <1>7, <1>9
    <3>2. Elements(batch'[t[1]]) = {}
      BY <2>1, ElementsEmpty
    <3>3. ASSUME NEW v \in Workers, v # t[1] PROVE Mine(v)' = Mine(v)
      <4>1. batch'[v] = batch[v] /\ msg'[v] = msg[v] /\ (Appending(v)' <=> Appending(v))
        BY <1>6, <1>7, <2>1, <3>3
      <4> QED
        BY <4>1, <1>8, <1>9
    <3> QED
      BY <3>1, <3>2, <3>3
  <2>4. /\ Elements(batch[t[1]]) \subseteq Mine(t[1])
        /\ Mine(t[1])' \subseteq Mine(t[1])
        /\ \A m \in Mine(t[1])' : m \notin Elements(batch[t[1]])
    BY <1>1, <1>8, <2>3 DEF Distinct
  <2> HIDE DEF H
  <2>5. /\ \A m \in queue : m \notin docs
        /\ \A w \in Workers : \A m \in Mine(w) : m \notin queue \cup docs
        /\ \A u \in Threads : \A m \in H(u) : m \notin queue \cup docs
        /\ \A v, w \in Workers : v # w => \A m \in Mine(v) : m \notin Mine(w)
        /\ \A s, u \in Threads : s # u => \A m \in H(s) : m \notin H(u)
        /\ \A w \in Workers, u \in Threads : \A m \in Mine(w) : m \notin H(u)
    BY DEF Apart, H
  <2>6. /\ \A w \in Workers : \A m \in Mine(w)' : m \notin queue \cup docs
        /\ \A u \in Threads : \A m \in H(u)' : m \notin queue \cup docs
        /\ \A v, w \in Workers : v # w => \A m \in Mine(v)' : m \notin Mine(w)'
    BY <1>1, <2>2, <2>3, <2>4, <2>5
  <2>7. \A s, u \in Threads : s # u => \A m \in H(s)' : m \notin H(u)'
    BY <1>1, <2>2, <2>4, <2>5
  <2>8. \A w \in Workers, u \in Threads : \A m \in Mine(w)' : m \notin H(u)'
    BY <1>1, <2>2, <2>3, <2>4, <2>5
  <2>9. Apart'
    BY <1>7, <2>1, <2>5, <2>6, <2>7, <2>8 DEF Apart, H
  <2>10. Distinct'
    <3>1. \A v \in Workers : Once(batch'[v]) /\ (Appending(v)' => msg'[v] \notin Elements(batch'[v]))
      BY <1>6, <1>7, <2>1, OnceEmpty, ElementsEmpty DEF Distinct
    <3>2. \A u \in Threads : Once(held'[u])
      BY <1>1, <2>1 DEF Distinct
    <3> QED
      BY <3>1, <3>2 DEF Distinct, Once, Elements
  <2> QED
    BY <1>5, <2>9, <2>10
<1>12. CASE BulkIndex(t) \/ BulkIndexPartial(t)
  <2>1. /\ batch' = batch
        /\ held'[t] = <<>> /\ \A u \in Threads : u # t => held'[u] = held[u]
        /\ docs \subseteq docs' /\ docs' \subseteq docs \cup Elements(held[t])
    BY <1>12 DEF BulkIndex, BulkIndexPartial, StateOK
  <2>2. \A v \in Workers : Mine(v)' = Mine(v)
    BY <1>6, <1>7, <1>8, <1>9, <2>1
  <2>3. H(t)' = {} /\ \A u \in Threads : u # t => H(u)' = H(u)
    BY <1>10, <2>1, ElementsEmpty
  <2>4. docs' \subseteq docs \cup H(t)
    BY <2>1
  <2> HIDE DEF H
  <2>5. /\ \A m \in queue : m \notin docs
        /\ \A w \in Workers : \A m \in Mine(w) : m \notin queue \cup docs
        /\ \A u \in Threads : \A m \in H(u) : m \notin queue \cup docs
        /\ \A v, w \in Workers : v # w => \A m \in Mine(v) : m \notin Mine(w)
        /\ \A s, u \in Threads : s # u => \A m \in H(s) : m \notin H(u)
        /\ \A w \in Workers, u \in Threads : \A m \in Mine(w) : m \notin H(u)
    BY DEF Apart, H
  <2>6. Apart'
    <3>1. \A u \in Threads : \A m \in H(u)' : m \notin queue \cup docs'
      BY <2>3, <2>4, <2>5
    <3>2. /\ \A m \in queue : m \notin docs'
          /\ \A w \in Workers : \A m \in Mine(w)' : m \notin queue \cup docs'
      BY <2>2, <2>4, <2>5
    <3>3. /\ \A v, w \in Workers : v # w => \A m \in Mine(v)' : m \notin Mine(w)'
          /\ \A s, u \in Threads : s # u => \A m \in H(s)' : m \notin H(u)'
          /\ \A w \in Workers, u \in Threads : \A m \in Mine(w)' : m \notin H(u)'
      BY <2>2, <2>3, <2>5
    <3> QED
      BY <1>7, <3>1, <3>2, <3>3 DEF Apart, H
  <2>7. Distinct'
    <3>1. \A u \in Threads : Once(held'[u])
      BY <2>1, OnceEmpty DEF Distinct
    <3> QED
      BY <1>6, <1>7, <2>1, <3>1 DEF Distinct, Once, Elements
  <2> QED
    BY <1>5, <2>6, <2>7
<1>13. ~RestoreBatch(t)
  BY <1>3 DEF RestoreBatch, Goto
<1> QED
  BY <1>11, <1>12, <1>13 DEF Flush

\* Publish brings a message that is in no place yet; ticks and what others do
\* move nothing.
LEMMA RestOnce ==
  ASSUME StateOK, Known, Apart, Distinct, Undisturbed,
         Aside \/ Publish \/ \E w \in Workers : Tick(w)
  PROVE  Apart' /\ Distinct' /\ Undisturbed'
<1>1. UNCHANGED <<msg, batch, held, docs>>
  BY DEF Aside, Publish, Tick
<1>2. /\ \A t \in Threads : pc'[t] \notin {"restore", "nack"}
      /\ \A v \in Workers : /\ pc'[<<v, "stop">>] = "off"
                            /\ pc'[<<v, "consumer">>] = pc[<<v, "consumer">>]
  <2>1. CASE \E w \in Workers : Tick(w)
    <3>1. PICK w \in Workers : Goto(<<w, "ticker">>, "idle", "take")
      BY <2>1 DEF Tick
    <3>2. /\ <<w, "ticker">> \in Threads
          /\ \A v \in Workers : /\ <<v, "stop">> \in Threads /\ <<v, "stop">> # <<w, "ticker">>
                                /\ <<v, "consumer">> \in Threads /\ <<v, "consumer">> # <<w, "ticker">>
      BY ThreadsOf
    <3>3. /\ pc'[<<w, "ticker">>] = "take"
          /\ \A u \in Threads : u # <<w, "ticker">> => pc'[u] = pc[u]
      BY <3>1, <3>2, GotoIs DEF Points
    <3> QED
      BY <3>2, <3>3 DEF Undisturbed
  <2>2. CASE Aside \/ Publish
    BY <2>2 DEF Aside, Publish, Undisturbed
  <2> QED
    BY <2>1, <2>2
<1>3. Undisturbed'
  BY <1>2 DEF Undisturbed
<1>4. \A v \in Workers : Mine(v)' = Mine(v) /\ (Appending(v)' <=> Appending(v))
  BY <1>1, <1>2 DEF Mine, Appending, Elements
<1>5. Distinct'
  BY <1>1, <1>4 DEF Distinct, Once, Elements
<1>6. Apart'
  <2>1. CASE Publish
    <3> DEFINE new == [pos |-> published]
    <3>1. queue' = queue \cup {new}
      BY <2>1 DEF Publish
    <3>2. new \notin Published
      <4>1. \A n \in 0..(published - 1) : n # published
        BY DEF StateOK
      <4>2. \A m \in Published : m.pos # published
        BY <4>1 DEF Published
      <4> QED
        BY <4>2
    <3>3. \A v \in Workers : \A m \in Mine(v) : Somewhere(m)
      <4>1. \A v \in Workers : Appending(v) => msg[v] # NoMessage
        BY DEF Appending, StateOK
      <4> QED
        BY <4>1, SomewhereIs DEF Mine
    <3>4. \A v \in Workers : new \notin Mine(v)
      BY <3>2, <3>3 DEF Known
    <3>5. new \notin docs /\ \A t \in Threads : new \notin Elements(held[t])
      BY <3>2, SomewhereIs DEF Known
    <3> HIDE DEF new
    <3> QED
      BY <1>1, <1>4, <3>1, <3>4, <3>5 DEF Apart, Elements
  <2>2. CASE ~Publish
    <3>1. queue' = queue
      BY <2>2 DEF Aside, Tick
    <3> QED
      BY <1>1, <1>4, <3>1 DEF Apart, Elements
  <2> QED
    BY <2>1, <2>2
<1> QED
  BY <1>3, <1>5, <1>6

LEMMA SingleStep == StateOK /\ Known /\ Single /\ Step => Single'
<1> SUFFICES ASSUME StateOK, Known, Single, Step, ~Unless(Repeats)'
             PROVE  Apart' /\ Distinct' /\ Undisturbed'
  BY DEF Single
<1>1. Apart /\ Distinct /\ Undisturbed
  BY UnlessStays DEF Single
<1>2. /\ \A t \in Threads : ~BulkIndexFails(t)
      /\ \A w \in Workers : ~ProcessFault(w)
  BY FaultExcuses DEF BulkIndexFails, ProcessFault, Terminate, LinkLost, Crash, Repeats
<1>3. \A w \in Workers : ~Stop(w)
  BY <1>1 DEF Undisturbed, Stop, TickerReturns, Exit
<1> QED
  BY <1>1, <1>2, <1>3, ConsumerOnce, FlushOnce, RestOnce DEF Step, Next, FlushFault

LEMMA PlacedOnce ==
  ASSUME NEW s, NEW i \in 1..Len(s), Once(s)
  PROVE  Copies(s[i], s) = {i} /\ s[i] \in Elements(s)
BY DEF Once, Copies, Elements

\* As long as no bulk request fails, no channel closes and no process dies or
\* is stopped, a message is in one batch or one flush, once, and no longer in
\* the queue or already in Elasticsearch: flushes of one process that overlap,
\* by size and by the ticker, send no document twice, and documents that
\* Elasticsearch rejects are not sent again (flush).
THEOREM NothingIsSentTwice == Spec => []SentOnce
<1>1. Init => Known /\ Single
  <2> SUFFICES ASSUME Init PROVE Apart /\ Distinct /\ Undisturbed
    BY KnownInit DEF Single
  <2>1. \A t \in Threads : pc[t] \in {"off", "idle"} /\ held[t] = <<>>
    BY DEF Init
  <2>2. \A w \in Workers : batch[w] = <<>> /\ ~Appending(w) /\ pc[<<w, "stop">>] = "off"
    BY ThreadsOf DEF Init, Appending
  <2>3. /\ \A w \in Workers : Mine(w) = {}
        /\ \A t \in Threads : Elements(held[t]) = {}
    BY <2>1, <2>2, ElementsEmpty DEF Mine
  <2>4. Apart
    BY <2>3 DEF Init, Apart
  <2>5. Distinct
    BY <2>1, <2>2, OnceEmpty DEF Distinct
  <2> QED
    BY <2>1, <2>2, <2>4, <2>5 DEF Undisturbed
<1>2. StateOK /\ Known /\ Single /\ [Next]_vars => (Known /\ Single)'
  BY KnownStep, SingleStep, NextIsStep
<1>3. Single => SentOnce
  <2> SUFFICES ASSUME Apart, Distinct PROVE SentOnce
    BY DEF Single, Repeats, SentOnce
  <2>1. ASSUME NEW w \in Workers, NEW t \in Threads, NEW i \in 1..Len(batch[w])
        PROVE  /\ Copies(batch[w][i], batch[w]) = {i}
               /\ batch[w][i] \notin Elements(held[t]) \cup queue \cup docs
    BY PlacedOnce DEF Apart, Distinct, Mine
  <2>2. ASSUME NEW t \in Threads, NEW u \in Threads, NEW i \in 1..Len(held[t])
        PROVE  /\ Copies(held[t][i], held[t]) = {i}
               /\ held[t][i] \notin queue \cup docs
               /\ t # u => held[t][i] \notin Elements(held[u])
    BY PlacedOnce DEF Apart, Distinct
  <2> QED
    BY <2>1, <2>2 DEF SentOnce
<1> QED
  BY StateHolds, <1>1, <1>2, <1>3, PTL DEF Spec

===============================================================================
