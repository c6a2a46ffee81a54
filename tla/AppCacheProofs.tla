---------------------------- MODULE AppCacheProofs ----------------------------
(***************************************************************************)
(* What GET /applications/<token> answers, for any number of applications  *)
(* and of requests at a time, and any lag, duration and time to live.      *)
(***************************************************************************)
EXTENDS AppCache, TLAPS

LEMMA Durations == TTL \in Nat /\ TTL > 0 /\ Lag \in Nat /\ MaxRequest \in Nat
  BY AppCacheAssumption

Requests == [phase : {"idle", "select", "set"}, app : Apps,
             value : {NotFound} \cup Nat, since : Nat]

Entries == [value : {NotFound} \cup Nat, expires : Nat]

\* An application is there for idle threads to name.
LEMMA IdleIs == Idle \in Requests /\ Idle.phase = "idle"
  BY AppCacheAssumption DEF Idle, Requests

-----------------------------------------------------------------------------
(***************************************************************************)
(* Types.  A request that is about to fill the entry has read its value in *)
(* the row, which only grows.                                              *)
(***************************************************************************)
CountsOK ==
  /\ total \in [Apps -> Nat]
  /\ chatsCount \in [Apps -> Nat]
  /\ pending \in [Apps -> Nat]
  /\ created \subseteq Apps
  /\ now \in Nat
  /\ counted \in [Apps -> Seq(Nat)]
  /\ \A a \in Apps : Len(counted[a]) = total[a]

EntriesOK ==
  /\ cache \in [Apps -> Entries]
  /\ \A a \in Apps :
       /\ cache[a].expires <= now + TTL
       /\ Live(a) => cache[a].value \in 0..chatsCount[a]

RequestsOK ==
  /\ request \in [Threads -> Requests]
  /\ \A h \in Threads :
       request[h].phase = "set" => request[h].value \in 0..chatsCount[request[h].app]

ToldOK ==
  /\ told \in [Apps -> {NotFound} \cup Nat]
  /\ overlapped \subseteq Apps

Sound == CountsOK /\ EntriesOK /\ RequestsOK /\ ToldOK /\ FaultsOK(FaultKinds)

LEMMA SoundIsTyped == Sound => TypeOK
  BY DEF Sound, TypeOK, CountsOK, EntriesOK, RequestsOK, ToldOK, FaultsOK, C!vars,
    Entries, Requests

LEMMA SoundInit == Init => Sound
<1> SUFFICES ASSUME Init
             PROVE  Sound
  OBVIOUS
<1>1. CountsOK
  BY DEF Init, C!Init, CountsOK
<1>2. EntriesOK
  BY Durations DEF Init, C!Init, EntriesOK, Entries, NoEntry, Live
<1>3. RequestsOK
  BY IdleIs DEF Init, RequestsOK
<1>4. ToldOK /\ FaultsOK(FaultKinds)
  BY DEF Init, ToldOK, FaultsOK
<1> QED
  BY <1>1, <1>2, <1>3, <1>4 DEF Sound

-----------------------------------------------------------------------------
(***************************************************************************)
(* What steps do.                                                          *)
(***************************************************************************)

\* A thread misses the entry; reads the row; writes the entry.
Misses(h, a) ==
  /\ request[h].phase = "idle"
  /\ ~Live(a)
  /\ GoOn(h, "select", a, NotFound, now)
  /\ UNCHANGED cache

Reads(h) ==
  /\ request[h].phase = "select"
  /\ GoOn(h, "set", request[h].app, chatsCount[request[h].app], request[h].since)
  /\ UNCHANGED cache

\* A thread ends a request, after an answer or with an error.
Ends(h) == request' = [request EXCEPT ![h] = Idle]

Fills(h) ==
  /\ request[h].phase = "set"
  /\ cache' = [cache EXCEPT ![request[h].app] = Entry(request[h].value)]
  /\ UNCHANGED overlapped

\* What a thread answers is the entry, or what it has in hand, or that there
\* is no such application.
Tells(h) ==
  /\ Ends(h)
  /\ UNCHANGED overlapped
  /\ \E a \in Apps, value \in {NotFound} \cup Nat :
       /\ told' = [told EXCEPT ![a] = IF value > @ THEN value ELSE @]
       /\ \/ Live(a) /\ value = cache[a].value /\ UNCHANGED cache
          \/ value = request[h].value /\ a = request[h].app /\ Fills(h)
          \/ value = NotFound /\ UNCHANGED cache

Disturbed(h) ==
  /\ UNCHANGED <<told, overlapped>>
  /\ Ends(h) \/ UNCHANGED request
  /\ Fills(h) \/ UNCHANGED cache

LEMMA ShowIs ==
  ASSUME Sound, NEW h \in Threads, Show(h)
  PROVE  /\ UNCHANGED <<counterVars, appVars>>
         /\ \/ \E a \in Apps : Misses(h, a)
            \/ Reads(h)
            \/ Tells(h)
            \/ Disturbed(h)
<1>1. ASSUME NEW a \in Apps, GetEntry(h, a)
      PROVE  Misses(h, a) \/ Tells(h)
  <2>1. cache[a].value \in {NotFound} \cup Nat
    BY DEF Sound, EntriesOK, Entries
  <2> QED
    BY <1>1, <2>1 DEF GetEntry, Answer, Misses, Tells, Ends
<1>2. ASSUME FindApplication(h)
      PROVE  Reads(h) \/ Tells(h)
  <2>1. request[h].app \in Apps
    BY DEF Sound, RequestsOK, Requests
  <2> QED
    BY <1>2, <2>1 DEF FindApplication, Answer, Reads, Tells, Ends
<1>3. ASSUME SetEntry(h)
      PROVE  Tells(h)
  <2>1. request[h].app \in Apps /\ request[h].value \in {NotFound} \cup Nat
    BY DEF Sound, RequestsOK, Requests
  <2> QED
    BY <1>3, <2>1 DEF SetEntry, Answer, Tells, Ends, Fills
<1>4. ASSUME SetDisturbed(h)
      PROVE  Disturbed(h)
  BY <1>4 DEF SetDisturbed, Disturbed, Ends, Fills
<1> QED
  BY <1>1, <1>2, <1>3, <1>4 DEF Show, GetEntry, FindApplication, SetEntry, SetDisturbed

\* The steps of the environment.
Environment ==
  \/ \E a \in Apps : Create(a) \/ CountChat(a) \/ ShowChats(a)
  \/ Tick
  \/ CacheLost

LEMMA StepIs ==
  [Next]_vars => UNCHANGED vars \/ Environment \/ \E h \in Threads : Show(h)
  BY DEF Next, Environment

LEMMA FaultsStep ==
  ASSUME Sound, [Next]_vars
  PROVE  FaultsOK(FaultKinds)'
<1>1. Faults \subseteq FaultKinds /\ MaxFaults \in Nat
  BY AppCacheAssumption
<1>2. NoFault \/ Fault("redis") \/ Fault("redis_restart")
  BY DEF vars, NoFault, Next, Show, Create, CountChat, ShowChats, GetEntry, FindApplication,
    SetEntry, SetDisturbed, Tick, CacheLost
<1> QED
  BY <1>1, <1>2 DEF Sound, FaultsOK, NoFault, Fault, faultVars

\* Chats are only ever added, and time goes on.
LEMMA CountsStep ==
  ASSUME Sound, [Next]_vars
  PROVE  /\ CountsOK'
         /\ now <= now'
         /\ \A a \in Apps :
              /\ chatsCount[a] <= chatsCount'[a]
              /\ total[a] <= total'[a]
              /\ \A n \in 1..total[a] : counted'[a][n] = counted[a][n]
<1> USE DEF Sound, CountsOK
<1>1. CASE UNCHANGED <<counterVars, appVars>>
  BY <1>1 DEF counterVars, appVars
<1>2. ASSUME NEW a \in Apps, Create(a)
      PROVE  created' \subseteq Apps /\ UNCHANGED <<counterVars, now, counted>>
  BY <1>2 DEF Create
<1>3. ASSUME NEW a \in Apps, CountChat(a)
      PROVE  /\ total' = [total EXCEPT ![a] = @ + 1]
             /\ pending' = [pending EXCEPT ![a] = @ + 1]
             /\ counted' = [counted EXCEPT ![a] = Append(@, now)]
             /\ UNCHANGED <<chatsCount, created, now>>
  BY <1>3 DEF CountChat, C!Count
<1>4. ASSUME NEW a \in Apps, ShowChats(a)
      PROVE  \E n \in 1..pending[a] :
               /\ chatsCount' = [chatsCount EXCEPT ![a] = @ + n]
               /\ pending' = [pending EXCEPT ![a] = @ - n]
               /\ UNCHANGED <<total, appVars>>
  BY <1>4 DEF ShowChats, C!Show
<1>5. ASSUME Tick
      PROVE  now' = now + 1 /\ UNCHANGED <<counterVars, created, counted>>
  BY <1>5 DEF Tick
<1>6. CASE \E a \in Apps : Create(a)
  BY <1>2, <1>6 DEF counterVars
<1>7. ASSUME NEW a \in Apps, CountChat(a)
      PROVE  /\ CountsOK'
             /\ \A b \in Apps : /\ total[b] <= total'[b]
                                /\ \A n \in 1..total[b] : counted'[b][n] = counted[b][n]
  <2>1. counted[a] \in Seq(Nat) /\ Len(counted[a]) = total[a]
    OBVIOUS
  <2>2. /\ Append(counted[a], now) \in Seq(Nat)
        /\ Len(Append(counted[a], now)) = total[a] + 1
        /\ \A n \in 1..total[a] : Append(counted[a], now)[n] = counted[a][n]
    BY <2>1
  <2>3. counted' \in [Apps -> Seq(Nat)]
    BY <1>3, <1>7, <2>2
  <2>4. total' \in [Apps -> Nat] /\ pending' \in [Apps -> Nat]
    <3>1. total[a] + 1 \in Nat /\ pending[a] + 1 \in Nat
      OBVIOUS
    <3> QED
      BY <1>3, <1>7, <3>1
  <2>5. ASSUME NEW b \in Apps
        PROVE  /\ Len(counted'[b]) = total'[b]
               /\ total[b] <= total'[b]
               /\ \A n \in 1..total[b] : counted'[b][n] = counted[b][n]
    <3>1. CASE b = a
      <4>1. counted'[b] = Append(counted[a], now) /\ total'[b] = total[a] + 1
        BY <1>3, <1>7, <3>1
      <4> QED
        BY <2>2, <3>1, <4>1
    <3>2. CASE b # a
      BY <1>3, <1>7, <3>2
    <3> QED
      BY <3>1, <3>2
  <2> QED
    BY <1>3, <1>7, <2>3, <2>4, <2>5
<1>8. ASSUME NEW a \in Apps, ShowChats(a)
      PROVE  CountsOK' /\ \A b \in Apps : chatsCount[b] <= chatsCount'[b]
  <2>1. PICK n \in 1..pending[a] :
          /\ chatsCount' = [chatsCount EXCEPT ![a] = @ + n]
          /\ pending' = [pending EXCEPT ![a] = @ - n]
          /\ UNCHANGED <<total, appVars>>
    BY <1>4, <1>8
  <2>2. chatsCount' \in [Apps -> Nat] /\ pending' \in [Apps -> Nat]
    BY <2>1
  <2> QED
    BY <2>1, <2>2 DEF appVars
<1>9. CASE Tick
  BY <1>5, <1>9 DEF counterVars
<1>10. ASSUME NEW a \in Apps, ShowChats(a)
       PROVE  UNCHANGED <<total, now, counted>>
  BY <1>4, <1>10 DEF appVars
<1>11. CASE Environment
  <2>1. CASE \E a \in Apps : CountChat(a)
    BY <1>3, <1>7, <2>1
  <2>2. CASE \E a \in Apps : ShowChats(a)
    BY <1>8, <1>10, <2>2
  <2> QED
    BY <1>1, <1>6, <1>9, <1>11, <2>1, <2>2 DEF Environment, CacheLost
<1>12. ASSUME \E h \in Threads : Show(h)
       PROVE  UNCHANGED <<counterVars, appVars>>
  BY <1>12, ShowIs
<1> QED
  BY <1>1, <1>11, <1>12, StepIs DEF vars

\* The environment leaves requests alone, and the entries but for those that
\* a restart of Redis loses.
LEMMA EnvironmentIs ==
  ASSUME Sound, UNCHANGED vars \/ Environment
  PROVE  /\ UNCHANGED <<request, overlapped>>
         /\ \A a \in Apps : cache'[a] \in {cache[a], NoEntry}
         /\ cache' \in [Apps -> {cache[a] : a \in Apps} \cup {NoEntry}]
         /\ UNCHANGED told \/ \E a \in Apps : told' = [told EXCEPT ![a] = 0]
<1>1. cache \in [Apps -> {cache[a] : a \in Apps} \cup {NoEntry}]
  BY DEF Sound, EntriesOK
<1>2. CASE CacheLost
  <2>1. PICK kept \in SUBSET Apps :
          cache' = [a \in Apps |-> IF a \in kept THEN cache[a] ELSE NoEntry]
    BY <1>2 DEF CacheLost
  <2> QED
    BY <1>2, <2>1 DEF CacheLost
<1> QED
  BY <1>1, <1>2 DEF vars, Environment, Create, CountChat, ShowChats, Tick, appVars

\* The thread of a step is in one of these ways further on, the others stay.
LEMMA RequestMoves ==
  ASSUME Sound, NEW h \in Threads, Show(h)
  PROVE  /\ request' \in [Threads -> Requests]
         /\ \A g \in Threads \ {h} : request'[g] = request[g]
         /\ \/ request'[h] = request[h]
            \/ request'[h] = Idle
            \/ \E a \in Apps : request'[h] = [phase |-> "select", app |-> a,
                                              value |-> NotFound, since |-> now]
            \/ /\ request[h].phase = "select"
               /\ request'[h] = [phase |-> "set", app |-> request[h].app,
                                 value |-> chatsCount[request[h].app], since |-> request[h].since]
<1> USE DEF Sound, RequestsOK
<1>1. ASSUME NEW a \in Apps, Misses(h, a)
      PROVE  request' = [request EXCEPT ![h] = [phase |-> "select", app |-> a,
                                                value |-> NotFound, since |-> now]]
  BY <1>1 DEF Misses, GoOn
<1>2. ASSUME NEW a \in Apps
      PROVE  [phase |-> "select", app |-> a, value |-> NotFound, since |-> now] \in Requests
  BY DEF Requests, CountsOK
<1>3. ASSUME Reads(h)
      PROVE  request' = [request EXCEPT ![h] =
               [phase |-> "set", app |-> request[h].app,
                value |-> chatsCount[request[h].app], since |-> request[h].since]]
  BY <1>3 DEF Reads, GoOn
<1>4. [phase |-> "set", app |-> request[h].app,
       value |-> chatsCount[request[h].app], since |-> request[h].since] \in Requests
  BY DEF Requests, CountsOK
<1>5. ASSUME Tells(h) \/ Disturbed(h)
      PROVE  UNCHANGED request \/ request' = [request EXCEPT ![h] = Idle]
  BY <1>5 DEF Tells, Disturbed, Ends
<1>6. CASE \E a \in Apps : Misses(h, a)
  BY <1>1, <1>2, <1>6
<1>7. CASE Reads(h)
  BY <1>3, <1>4, <1>7 DEF Reads
<1>8. CASE Tells(h) \/ Disturbed(h)
  BY <1>5, <1>8, IdleIs
<1> QED
  BY <1>6, <1>7, <1>8, ShowIs

LEMMA EntryMoves ==
  ASSUME Sound, NEW h \in Threads, Show(h)
  PROVE  \/ UNCHANGED cache
         \/ Fills(h)
  BY ShowIs DEF Misses, Reads, Tells, Disturbed

LEMMA RequestsStep ==
  ASSUME Sound, [Next]_vars
  PROVE  RequestsOK'
<1>1. CASE UNCHANGED request
  <2>1. ASSUME NEW h \in Threads, request[h].phase = "set"
        PROVE  request[h].value \in 0..chatsCount'[request[h].app]
    <3>1. request[h].app \in Apps /\ request[h].value \in 0..chatsCount[request[h].app]
      BY <2>1 DEF Sound, RequestsOK, Requests
    <3>2. chatsCount[request[h].app] <= chatsCount'[request[h].app]
      BY <3>1, CountsStep
    <3>3. /\ chatsCount[request[h].app] \in Nat
          /\ chatsCount'[request[h].app] \in Nat
      BY <3>1, CountsStep DEF Sound, CountsOK
    <3> QED
      BY <3>1, <3>2, <3>3
  <2> QED
    BY <1>1, <2>1 DEF Sound, RequestsOK
<1>2. ASSUME NEW h \in Threads, Show(h)
      PROVE  RequestsOK'
  <2>1. UNCHANGED chatsCount
    BY <1>2, ShowIs DEF counterVars
  <2>2. ASSUME NEW g \in Threads, request'[g].phase = "set"
        PROVE  request'[g].value \in 0..chatsCount[request'[g].app]
    <3>1. CASE request'[g] = request[g]
      BY <2>2, <3>1 DEF Sound, RequestsOK
    <3>2. CASE g = h /\ request'[g] # request[g]
      <4>1. /\ request[h].app \in Apps
            /\ request'[h].app = request[h].app
            /\ request'[h].value = chatsCount[request[h].app]
        <5>1. \/ request'[h] = Idle
              \/ \E a \in Apps : request'[h] = [phase |-> "select", app |-> a,
                                                value |-> NotFound, since |-> now]
              \/ request'[h] = [phase |-> "set", app |-> request[h].app,
                                value |-> chatsCount[request[h].app], since |-> request[h].since]
          BY <1>2, <3>2, RequestMoves
        <5>2. request[h].app \in Apps
          BY DEF Sound, RequestsOK, Requests
        <5>3. request'[h].phase = "set"
          BY <2>2, <3>2
        <5>4. CASE request'[h] = Idle
          BY <5>3, <5>4, IdleIs
        <5>5. CASE \E a \in Apps : request'[h] = [phase |-> "select", app |-> a,
                                                  value |-> NotFound, since |-> now]
          BY <5>3, <5>5
        <5> QED
          BY <5>1, <5>2, <5>4, <5>5
      <4> QED
        BY <3>2, <4>1 DEF Sound, CountsOK
    <3> QED
      BY <1>2, <3>1, <3>2, RequestMoves
  <2> QED
    BY <1>2, <2>1, <2>2, RequestMoves DEF RequestsOK
<1> QED
  BY <1>1, <1>2, EnvironmentIs, StepIs

LEMMA EntriesStep ==
  ASSUME Sound, [Next]_vars
  PROVE  EntriesOK'
<1> USE Durations DEF Sound, EntriesOK
<1>1. CASE UNCHANGED cache
  BY <1>1, CountsStep DEF CountsOK, Entries, Live
<1>2. CASE UNCHANGED vars \/ Environment
  <2>1. NoEntry \in Entries /\ NoEntry.expires = 0
    BY DEF NoEntry, Entries
  <2>2. \A a \in Apps : cache'[a] = cache[a] \/ cache'[a] = NoEntry
    BY <1>2, EnvironmentIs
  <2>3. cache' \in [Apps -> Entries]
    BY <1>2, <2>1, EnvironmentIs
  <2>4. ASSUME NEW a \in Apps
        PROVE  /\ cache'[a].expires <= now' + TTL
               /\ Live(a)' => cache'[a].value \in 0..chatsCount'[a]
    <3>1. now <= now' /\ chatsCount[a] <= chatsCount'[a] /\ CountsOK /\ CountsOK'
      BY CountsStep
    <3>2. now \in Nat /\ now' \in Nat /\ chatsCount[a] \in Nat /\ chatsCount'[a] \in Nat
      BY <3>1 DEF CountsOK
    <3>3. cache'[a] = cache[a] \/ cache'[a] = NoEntry
      BY <2>2
    <3>4. cache[a].expires \in Nat
      BY DEF Entries
    <3> QED
      BY <2>1, <3>1, <3>2, <3>3, <3>4 DEF Live
  <2> QED
    BY <2>3, <2>4
<1>3. ASSUME NEW h \in Threads, Show(h)
      PROVE  EntriesOK'
  <2>1. CASE Fills(h)
    <3> DEFINE b == request[h].app
    <3>1. /\ b \in Apps
          /\ request[h].value \in 0..chatsCount[b]
          /\ cache' = [cache EXCEPT ![b] = Entry(request[h].value)]
          /\ UNCHANGED <<now, chatsCount>>
      BY <1>3, <2>1, ShowIs DEF Fills, RequestsOK, Requests, counterVars, appVars
    <3>2. /\ Entry(request[h].value) \in Entries
          /\ Entry(request[h].value).value = request[h].value
          /\ Entry(request[h].value).expires = now + TTL
      BY <3>1 DEF Entry, Entries, RequestsOK, Requests, CountsOK
    <3> HIDE DEF b
    <3>3. cache' \in [Apps -> Entries]
      BY <3>1, <3>2
    <3>4. cache'[b] = Entry(request[h].value)
      BY <3>1
    <3>5. \A a \in Apps \ {b} : cache'[a] = cache[a]
      BY <3>1
    <3>6. now + TTL <= now + TTL
      BY DEF CountsOK
    <3> QED
      BY <3>1, <3>2, <3>3, <3>4, <3>5, <3>6 DEF Live
  <2> QED
    BY <1>1, <1>3, <2>1, EntryMoves
<1> QED
  BY <1>2, <1>3, StepIs

LEMMA ToldStep ==
  ASSUME Sound, [Next]_vars
  PROVE  ToldOK'
<1> USE DEF Sound, ToldOK
<1>1. CASE UNCHANGED vars \/ Environment
  BY <1>1, EnvironmentIs
<1>2. ASSUME NEW h \in Threads, Show(h)
      PROVE  ToldOK'
  <2>1. CASE Tells(h)
    BY <2>1 DEF Tells
  <2>2. CASE Disturbed(h)
    BY <2>2 DEF Disturbed
  <2>3. ASSUME NEW a \in Apps, Misses(h, a)
        PROVE  ToldOK'
    BY <2>3 DEF Misses, GoOn
  <2>4. CASE Reads(h)
    BY <2>4 DEF Reads, GoOn, RequestsOK, Requests
  <2> QED
    BY <1>2, <2>1, <2>2, <2>3, <2>4, ShowIs
<1> QED
  BY <1>1, <1>2, StepIs

LEMMA SoundStep == Sound /\ [Next]_vars => Sound'
  BY FaultsStep, CountsStep, RequestsStep, EntriesStep, ToldStep DEF Sound

\* What the cache, the requests and the rows hold is of its type, and no live
\* entry shows chats that its row does not: it was read there (show).
THEOREM TypeCorrect == Spec => []TypeOK
<1>1. Spec => []Sound
  BY SoundInit, SoundStep, PTL DEF Spec
<1> QED
  BY <1>1, SoundIsTyped, PTL

-----------------------------------------------------------------------------
(***************************************************************************)
(* Answers are recent: a chat that the row does not show was counted       *)
(* within the lag; one that a request has not read, within the lag of its  *)
(* beginning; and an entry without it is gone in time.                     *)
(***************************************************************************)
RowsRecent ==
  \A a \in Apps : \A n \in 1..total[a] :
    n > chatsCount[a] => now <= counted[a][n] + Lag

RequestsShort ==
  \A h \in Threads : request[h].phase # "idle" =>
    request[h].since <= now /\ now <= request[h].since + MaxRequest

Unread(h, n) == request[h].phase = "set" /\ n > request[h].value

ReadsRecent ==
  \A h \in Threads : \A n \in 1..total[request[h].app] :
    Unread(h, n) => request[h].since <= counted[request[h].app][n] + Lag

EntriesRecent ==
  \A a \in Apps : \A n \in 1..total[a] :
    n > cache[a].value => cache[a].expires <= counted[a][n] + Lag + MaxRequest + TTL

Recent == RowsRecent /\ RequestsShort /\ ReadsRecent /\ EntriesRecent

LEMMA RecentInit == Init => Recent
  BY IdleIs DEF Init, C!Init, Recent, RowsRecent, RequestsShort, ReadsRecent, EntriesRecent,
    Unread

LEMMA CountedIs ==
  ASSUME Sound, NEW a \in Apps, NEW n \in 1..total[a]
  PROVE  counted[a][n] \in Nat
  BY DEF Sound, CountsOK

LEMMA CountedNext ==
  ASSUME Sound, [Next]_vars, NEW a \in Apps, NEW n \in 1..total'[a]
  PROVE  /\ counted'[a][n] \in Nat
         /\ total[a] \in Nat
         /\ \/ n \in 1..total[a] /\ counted'[a][n] = counted[a][n]
            \/ counted'[a][n] = now /\ UNCHANGED <<now, chatsCount, cache, request>>
<1>1. CountsOK /\ CountsOK'
  BY CountsStep DEF Sound
<1>2. total[a] \in Nat /\ total'[a] \in Nat /\ n \in Nat
  BY <1>1 DEF CountsOK
<1>3. counted'[a][n] \in Nat
  BY <1>1 DEF CountsOK
<1>4. CASE n <= total[a]
  BY <1>2, <1>3, <1>4, CountsStep
<1>5. CASE total'[a] = total[a]
  BY <1>2, <1>4, <1>5
<1>6. ASSUME NEW b \in Apps, CountChat(b), n > total[a]
      PROVE  counted'[a][n] = now
  <2>1. total' = [total EXCEPT ![b] = @ + 1] /\ counted' = [counted EXCEPT ![b] = Append(@, now)]
    BY <1>6 DEF CountChat, C!Count
  <2>2. a = b
    BY <1>1, <1>2, <1>6, <2>1 DEF CountsOK
  <2>3. n = total[a] + 1
    BY <1>1, <1>2, <1>6, <2>1, <2>2 DEF CountsOK
  <2>4. counted'[a] = Append(counted[a], now)
    BY <1>1, <2>1, <2>2 DEF CountsOK
  <2>5. counted[a] \in Seq(Nat) /\ Len(counted[a]) = total[a]
    BY <1>1 DEF CountsOK
  <2> QED
    BY <2>3, <2>4, <2>5
<1>7. ASSUME NEW b \in Apps, CountChat(b)
      PROVE  UNCHANGED <<now, chatsCount, cache, request>>
  BY <1>7 DEF CountChat, C!Count
<1>8. \/ UNCHANGED total
      \/ \E b \in Apps : CountChat(b)
  BY StepIs, ShowIs DEF vars, counterVars, Environment, Create, ShowChats, C!Show, Tick, CacheLost
<1> QED
  BY <1>2, <1>3, <1>4, <1>5, <1>6, <1>7, <1>8

\* Time does not pass beyond what the environment promises.
LEMMA TimePasses ==
  ASSUME Sound, [Next]_vars, now' # now
  PROVE  /\ now \in Nat /\ now' = now + 1
         /\ \A a \in Apps : \A n \in (chatsCount[a] + 1)..total[a] : now < counted[a][n] + Lag
         /\ \A h \in Threads : request[h].phase # "idle" => now < request[h].since + MaxRequest
         /\ UNCHANGED <<counterVars, counted, cache, request>>
<1>1. Tick
  BY StepIs, ShowIs DEF vars, appVars, Environment, Create, CountChat, ShowChats, CacheLost
<1> QED
  BY <1>1 DEF Tick, Sound, CountsOK

LEMMA RowsRecentStep ==
  ASSUME Sound, [Next]_vars, RowsRecent
  PROVE  RowsRecent'
<1> SUFFICES ASSUME NEW a \in Apps, NEW n \in 1..total'[a], n > chatsCount'[a]
             PROVE  now' <= counted'[a][n] + Lag
  BY DEF RowsRecent
<1> USE Durations
<1>1. now \in Nat /\ chatsCount[a] \in Nat /\ chatsCount'[a] \in Nat /\ total[a] \in Nat
  BY CountsStep DEF Sound, CountsOK
<1>2. chatsCount[a] <= chatsCount'[a]
  BY CountsStep
<1>3. CASE now' = now
  <2>1. CASE n \in 1..total[a] /\ counted'[a][n] = counted[a][n]
    BY <1>1, <1>2, <1>3, <2>1 DEF RowsRecent
  <2> QED
    BY <1>1, <1>3, <2>1, CountedNext
<1>4. CASE now' # now
  <2>1. /\ now' = now + 1 /\ total' = total /\ chatsCount' = chatsCount /\ counted' = counted
        /\ \A k \in (chatsCount[a] + 1)..total[a] : now < counted[a][k] + Lag
    BY <1>4, TimePasses DEF counterVars
  <2>2. n \in (chatsCount[a] + 1)..total[a]
    BY <1>1, <2>1
  <2>3. counted[a][n] \in Nat
    BY <2>1, CountedIs
  <2> QED
    BY <1>1, <2>1, <2>2, <2>3
<1> QED
  BY <1>3, <1>4

LEMMA RequestIs ==
  ASSUME Sound, NEW h \in Threads
  PROVE  /\ request[h].app \in Apps
         /\ request[h].since \in Nat
         /\ request[h].value \in Int
         /\ request[h].phase \in {"idle", "select", "set"}
  BY DEF Sound, RequestsOK, Requests, NotFound

LEMMA RequestsShortStep ==
  ASSUME Sound, [Next]_vars, RequestsShort
  PROVE  RequestsShort'
<1> SUFFICES ASSUME NEW g \in Threads, request'[g].phase # "idle"
             PROVE  request'[g].since <= now' /\ now' <= request'[g].since + MaxRequest
  BY DEF RequestsShort
<1> USE Durations
<1>1. now \in Nat
  BY DEF Sound, CountsOK
<1>2. CASE request'[g] = request[g]
  <2>1. request[g].since <= now /\ now <= request[g].since + MaxRequest
    BY <1>2 DEF RequestsShort
  <2>2. CASE now' = now
    BY <1>2, <2>1, <2>2
  <2>3. CASE now' # now
    BY <1>1, <1>2, <2>1, <2>3, TimePasses, RequestIs
  <2> QED
    BY <2>2, <2>3
<1>3. CASE request'[g] # request[g]
  <2>1. PICK h \in Threads : Show(h)
    BY <1>3, StepIs, EnvironmentIs
  <2>2. g = h /\ now' = now
    BY <1>3, <2>1, RequestMoves, ShowIs DEF appVars
  <2>3. CASE \E a \in Apps : request'[g] = [phase |-> "select", app |-> a,
                                            value |-> NotFound, since |-> now]
    BY <1>1, <2>2, <2>3
  <2>4. CASE /\ request[g].phase = "select"
             /\ request'[g] = [phase |-> "set", app |-> request[g].app,
                               value |-> chatsCount[request[g].app], since |-> request[g].since]
    BY <1>1, <2>2, <2>4 DEF RequestsShort
  <2> QED
    BY <1>3, <2>1, <2>2, <2>3, <2>4, RequestMoves, IdleIs
<1> QED
  BY <1>2, <1>3

LEMMA ReadsRecentStep ==
  ASSUME Sound, [Next]_vars, RowsRecent, RequestsShort, ReadsRecent
  PROVE  ReadsRecent'
<1> SUFFICES ASSUME NEW g \in Threads, NEW n \in 1..total'[request'[g].app], Unread(g, n)'
             PROVE  request'[g].since <= counted'[request'[g].app][n] + Lag
  BY DEF ReadsRecent
<1> DEFINE a == request'[g].app
<1> USE Durations
<1>1. now \in Nat /\ a \in Apps /\ request'[g].since \in Nat
  BY SoundStep, RequestIs DEF Sound, CountsOK, RequestsOK, Requests
<1>2. CASE counted'[a][n] = now /\ UNCHANGED <<now, chatsCount, cache, request>>
  <2>1. request[g].since <= now
    BY <1>2 DEF RequestsShort, Unread
  <2> QED
    BY <1>1, <1>2, <2>1
<1>3. CASE n \in 1..total[a] /\ counted'[a][n] = counted[a][n]
  <2>1. CASE request'[g] = request[g]
    BY <1>3, <2>1 DEF ReadsRecent, Unread
  <2>2. CASE request'[g] # request[g]
    <3>1. PICK h \in Threads : Show(h)
      BY <2>2, StepIs, EnvironmentIs
    <3>2. g = h
      BY <2>2, <3>1, RequestMoves
    <3>3. request'[g].phase = "set"
      BY DEF Unread
    <3>4. CASE \E b \in Apps : request'[g] = [phase |-> "select", app |-> b,
                                              value |-> NotFound, since |-> now]
      BY <3>3, <3>4
    <3>5. CASE /\ request[g].phase = "select"
               /\ request'[g] = [phase |-> "set", app |-> request[g].app,
                                 value |-> chatsCount[request[g].app], since |-> request[g].since]
      <4>1. n > chatsCount[a]
        BY <3>5 DEF Unread
      <4>2. now <= counted[a][n] + Lag
        BY <1>1, <1>3, <4>1 DEF RowsRecent
      <4>3. request[g].since <= now /\ request'[g].since = request[g].since
        BY <3>5 DEF RequestsShort
      <4>4. counted[a][n] \in Nat
        BY <1>1, <1>3, CountedIs
      <4> QED
        BY <1>1, <1>3, <4>2, <4>3, <4>4
    <3> QED
      BY <2>2, <3>1, <3>2, <3>3, <3>4, <3>5, RequestMoves, IdleIs
  <2> QED
    BY <2>1, <2>2
<1> QED
  BY <1>1, <1>2, <1>3, CountedNext

LEMMA EntriesRecentStep ==
  ASSUME Sound, [Next]_vars, RequestsShort, ReadsRecent, EntriesRecent
  PROVE  EntriesRecent'
<1> SUFFICES ASSUME NEW a \in Apps, NEW n \in 1..total'[a], n > cache'[a].value
             PROVE  cache'[a].expires <= counted'[a][n] + Lag + MaxRequest + TTL
  BY DEF EntriesRecent
<1> USE Durations
<1>1. now \in Nat /\ cache[a].expires \in Nat /\ cache[a].expires <= now + TTL
  BY DEF Sound, CountsOK, EntriesOK, Entries
<1>2. counted'[a][n] \in Nat
  BY CountedNext
<1>3. CASE counted'[a][n] = now /\ UNCHANGED <<now, chatsCount, cache, request>>
  BY <1>1, <1>3
<1>4. CASE n \in 1..total[a] /\ counted'[a][n] = counted[a][n]
  <2>1. CASE cache'[a] = cache[a]
    BY <1>4, <2>1 DEF EntriesRecent
  <2>2. CASE cache'[a] = NoEntry
    BY <1>2, <2>2 DEF NoEntry
  <2>3. CASE cache'[a] # cache[a] /\ cache'[a] # NoEntry
    <3>1. PICK h \in Threads : Show(h)
      BY <2>3, StepIs, EnvironmentIs
    <3>2. Fills(h)
      BY <2>3, <3>1, EntryMoves
    <3>3. a = request[h].app /\ cache'[a] = Entry(request[h].value) /\ request[h].phase = "set"
      BY <2>3, <3>2 DEF Fills, Sound, EntriesOK
    <3>4. cache'[a].value = request[h].value /\ cache'[a].expires = now + TTL
      BY <3>3 DEF Entry
    <3>5. request[h].since <= counted[a][n] + Lag
      BY <1>4, <3>3, <3>4 DEF ReadsRecent, Unread
    <3>6. now <= request[h].since + MaxRequest /\ request[h].since \in Nat
      BY <3>3, RequestIs DEF RequestsShort
    <3> QED
      BY <1>1, <1>2, <1>4, <3>4, <3>5, <3>6
  <2> QED
    BY <2>1, <2>2, <2>3
<1> QED
  BY <1>3, <1>4, CountedNext

LEMMA RecentStep == Sound /\ Recent /\ [Next]_vars => Recent'
  BY RowsRecentStep, RequestsShortStep, ReadsRecentStep, EntriesRecentStep DEF Recent

LEMMA RecentAnswers == Sound /\ Recent => AnswersAreRecent
<1> SUFFICES ASSUME Sound, Recent,
                    NEW a \in Apps, NEW n \in 1..total[a],
                    counted[a][n] + Lag + MaxRequest + TTL <= now,
                    NEW value \in Answers(a), ~(n <= value)
             PROVE  FALSE
  BY DEF AnswersAreRecent
<1> USE Durations DEF Recent
<1>1. now \in Nat /\ counted[a][n] \in Nat
  BY CountedIs DEF Sound, CountsOK
<1>2. CASE Live(a) /\ value = cache[a].value
  <2>1. cache[a].expires \in Nat /\ cache[a].value \in Int
    BY DEF Sound, EntriesOK, Entries, NotFound
  <2>2. cache[a].expires <= counted[a][n] + Lag + MaxRequest + TTL
    BY <1>2, <2>1 DEF EntriesRecent
  <2> QED
    BY <1>1, <1>2, <2>1, <2>2 DEF Live
<1>3. ASSUME NEW h \in Threads, request[h].phase = "set", request[h].app = a,
             value = request[h].value
      PROVE  FALSE
  <2>1. request[h].since \in Nat /\ request[h].value \in Int
    BY RequestIs
  <2>2. request[h].since <= counted[a][n] + Lag
    BY <1>3, <2>1 DEF ReadsRecent, Unread
  <2>3. now <= request[h].since + MaxRequest
    BY <1>3 DEF RequestsShort
  <2> QED
    BY <1>1, <2>1, <2>2, <2>3
<1> QED
  BY <1>2, <1>3 DEF Answers

\* However requests and fills of an entry race reconciliation, each other and
\* restarts of Redis, no answer hides a chat that was counted longer ago than
\* the lag of reconciliation, a request and the life of an entry take (show).
THEOREM RecentlyCounted == Spec => []AnswersAreRecent
<1>1. Spec => [](Sound /\ Recent)
  BY SoundInit, SoundStep, RecentInit, RecentStep, PTL DEF Spec
<1> QED
  BY <1>1, RecentAnswers, PTL

-----------------------------------------------------------------------------
(***************************************************************************)
(* Answers do not step back, as long as requests fill an entry one by one: *)
(* then the one that has missed the entry is the only one in its way.      *)
(***************************************************************************)
Busy(h, a) == request[h].phase # "idle" /\ request[h].app = a

ToldIsTrue == \A a \in Apps : told[a] <= chatsCount[a]

OneByOne(a) == \A g, h \in Threads : Busy(g, a) /\ Busy(h, a) => g = h

\* A live entry beside a request is the one that the request has written.
OwnEntry(a) ==
  \A h \in Threads : Busy(h, a) /\ Live(a) =>
    request[h].phase = "set" /\ request[h].value = cache[a].value

NoOlder(a) == \A value \in Answers(a) : told[a] <= value

Ordered ==
  /\ ToldIsTrue
  /\ \A a \in Apps \ overlapped : OneByOne(a) /\ OwnEntry(a) /\ NoOlder(a)

LEMMA OrderedInit == Init => Ordered
  BY IdleIs DEF Init, C!Init, Ordered, ToldIsTrue, OneByOne, OwnEntry, NoOlder, Answers, Busy,
    Live, NoEntry, NotFound

\* Requests that end and an entry that goes away leave no answer but those
\* that there were.
LEMMA Fewer ==
  ASSUME NEW a \in Apps, OneByOne(a), OwnEntry(a),
         \A g \in Threads : request'[g] = request[g] \/ ~Busy(g, a)',
         Live(a)' => Live(a) /\ cache'[a] = cache[a]
  PROVE  OneByOne(a)' /\ OwnEntry(a)' /\ Answers(a)' \subseteq Answers(a)
<1>1. \A g \in Threads : Busy(g, a)' => Busy(g, a) /\ request'[g] = request[g]
  BY DEF Busy
<1>2. OneByOne(a)'
  BY <1>1 DEF OneByOne
<1>3. OwnEntry(a)'
  BY <1>1 DEF OwnEntry
<1>4. \A g \in Threads : request'[g].phase = "set" /\ request'[g].app = a => request'[g] = request[g]
  BY <1>1 DEF Busy
<1>5. Answers(a)' \subseteq Answers(a)
  BY <1>4 DEF Answers
<1> QED
  BY <1>2, <1>3, <1>5

LEMMA AnswersIn ==
  ASSUME Sound, NEW a \in Apps, NEW value \in Answers(a)
  PROVE  value \in 0..chatsCount[a] /\ value \in Nat
  BY DEF Sound, CountsOK, EntriesOK, RequestsOK, Answers

LEMMA EnvironmentKeepsOrder ==
  ASSUME Sound, Ordered, UNCHANGED vars \/ Environment
  PROVE  Ordered'
<1>1. CountsOK' /\ now <= now' /\ \A a \in Apps : chatsCount[a] <= chatsCount'[a]
  BY CountsStep, StepIs DEF Next, Environment
<1>2. now \in Nat /\ now' \in Nat /\ chatsCount \in [Apps -> Nat] /\ chatsCount' \in [Apps -> Nat]
  BY <1>1 DEF Sound, CountsOK
<1>3. told \in [Apps -> {NotFound} \cup Nat] /\ NotFound \in Int
  BY DEF Sound, ToldOK, NotFound
<1>4. \A a \in Apps : told'[a] = told[a] \/ told'[a] = 0
  BY <1>3, EnvironmentIs
<1>5. ToldIsTrue'
  <2> SUFFICES ASSUME NEW a \in Apps
               PROVE  told'[a] <= chatsCount'[a]
    BY DEF ToldIsTrue
  <2>1. told[a] <= chatsCount[a] /\ told[a] \in Int
    BY <1>3 DEF Ordered, ToldIsTrue
  <2> QED
    BY <1>1, <1>2, <1>4, <2>1
<1>6. ASSUME NEW a \in Apps \ overlapped'
      PROVE  OneByOne(a)' /\ OwnEntry(a)' /\ NoOlder(a)'
  <2>1. a \in Apps \ overlapped /\ OneByOne(a) /\ OwnEntry(a) /\ NoOlder(a)
    BY <1>6, EnvironmentIs DEF Ordered
  <2>2. Live(a)' => Live(a) /\ cache'[a] = cache[a]
    <3>1. cache'[a] = cache[a] \/ cache'[a] = NoEntry
      BY <1>6, EnvironmentIs
    <3>2. CASE cache'[a] = NoEntry
      BY <1>2, <3>2 DEF NoEntry, Live
    <3>3. CASE cache'[a] = cache[a]
      BY <1>1, <1>2, <1>6, <3>3 DEF Live, Sound, EntriesOK, Entries
    <3> QED
      BY <3>1, <3>2, <3>3
  <2>3. OneByOne(a)' /\ OwnEntry(a)' /\ Answers(a)' \subseteq Answers(a)
    BY <2>1, <2>2, EnvironmentIs, Fewer
  <2>4. \A value \in Answers(a)' : told'[a] <= value
    BY <1>4, <1>6, <2>1, <2>3, AnswersIn DEF NoOlder
  <2> QED
    BY <2>3, <2>4 DEF NoOlder
<1> QED
  BY <1>5, <1>6 DEF Ordered

LEMMA MissKeepsOrder ==
  ASSUME Sound, Ordered, NEW h \in Threads, NEW b \in Apps, Misses(h, b),
         UNCHANGED <<counterVars, appVars>>
  PROVE  Ordered'
<1>1. /\ UNCHANGED <<cache, told, now, chatsCount>>
      /\ overlapped \subseteq overlapped'
      /\ request[h].phase = "idle"
      /\ request'[h] = [phase |-> "select", app |-> b, value |-> NotFound, since |-> now]
      /\ \A g \in Threads \ {h} : request'[g] = request[g]
      /\ b \in overlapped' \/ \A g \in Threads \ {h} : ~Busy(g, b)
  BY DEF Misses, GoOn, Busy, Sound, RequestsOK, counterVars, appVars
<1>2. ToldIsTrue'
  BY <1>1 DEF Ordered, ToldIsTrue
<1>3. ASSUME NEW a \in Apps \ overlapped', a # b
      PROVE  OneByOne(a)' /\ OwnEntry(a)' /\ NoOlder(a)'
  <2>1. OneByOne(a) /\ OwnEntry(a) /\ NoOlder(a)
    BY <1>1, <1>3 DEF Ordered
  <2>2. \A g \in Threads : request'[g] = request[g] \/ ~Busy(g, a)'
    BY <1>1, <1>3 DEF Busy
  <2>3. Live(a)' => Live(a) /\ cache'[a] = cache[a]
    BY <1>1 DEF Live
  <2>4. OneByOne(a)' /\ OwnEntry(a)' /\ Answers(a)' \subseteq Answers(a)
    BY <1>3, <2>1, <2>2, <2>3, Fewer
  <2> QED
    BY <1>1, <2>1, <2>4 DEF NoOlder
<1>4. ASSUME b \notin overlapped'
      PROVE  OneByOne(b)' /\ OwnEntry(b)' /\ NoOlder(b)'
  <2>1. ~Live(b)'
    BY <1>1 DEF Misses, Live
  <2>2. \A g \in Threads : Busy(g, b)' => g = h
    BY <1>1, <1>4 DEF Busy
  <2>3. \A g \in Threads : ~(request'[g].phase = "set" /\ request'[g].app = b)
    BY <1>1, <2>2 DEF Busy
  <2> QED
    BY <2>1, <2>2, <2>3 DEF OneByOne, OwnEntry, NoOlder, Answers
<1> QED
  BY <1>2, <1>3, <1>4 DEF Ordered

LEMMA ReadKeepsOrder ==
  ASSUME Sound, Ordered, NEW h \in Threads, Reads(h), UNCHANGED <<counterVars, appVars>>
  PROVE  Ordered'
<1>1. PICK b \in Apps : b = request[h].app
  BY RequestIs
<1>2. /\ UNCHANGED <<cache, told, now, chatsCount>>
      /\ overlapped \subseteq overlapped'
      /\ request[h].phase = "select"
      /\ request'[h] = [phase |-> "set", app |-> b, value |-> chatsCount[b],
                        since |-> request[h].since]
      /\ \A g \in Threads \ {h} : request'[g] = request[g]
      /\ b \in overlapped' \/ \A g \in Threads \ {h} : ~Busy(g, b)
  BY <1>1 DEF Reads, GoOn, Busy, Sound, RequestsOK, counterVars, appVars
<1>3. ToldIsTrue'
  BY <1>2 DEF Ordered, ToldIsTrue
<1>4. ASSUME NEW a \in Apps \ overlapped', a # b
      PROVE  OneByOne(a)' /\ OwnEntry(a)' /\ NoOlder(a)'
  <2>1. OneByOne(a) /\ OwnEntry(a) /\ NoOlder(a)
    BY <1>2, <1>4 DEF Ordered
  <2>2. \A g \in Threads : request'[g] = request[g] \/ ~Busy(g, a)'
    BY <1>2, <1>4 DEF Busy
  <2>3. Live(a)' => Live(a) /\ cache'[a] = cache[a]
    BY <1>2 DEF Live
  <2>4. OneByOne(a)' /\ OwnEntry(a)' /\ Answers(a)' \subseteq Answers(a)
    BY <1>4, <2>1, <2>2, <2>3, Fewer
  <2> QED
    BY <1>2, <2>1, <2>4 DEF NoOlder
<1>5. ASSUME b \notin overlapped'
      PROVE  OneByOne(b)' /\ OwnEntry(b)' /\ NoOlder(b)'
  <2>1. OwnEntry(b)
    BY <1>1, <1>2, <1>5 DEF Ordered
  <2>2. ~Live(b)'
    BY <1>1, <1>2, <2>1 DEF OwnEntry, Busy, Live
  <2>3. \A g \in Threads : Busy(g, b)' => g = h
    BY <1>2, <1>5 DEF Busy
  <2>4. \A g \in Threads : request'[g].phase = "set" /\ request'[g].app = b =>
          request'[g].value = chatsCount[b]
    BY <1>2, <2>3 DEF Busy
  <2>5. \A value \in Answers(b)' : value = chatsCount[b]
    BY <2>2, <2>4 DEF Answers
  <2>6. told'[b] <= chatsCount[b]
    BY <1>1, <1>2 DEF Ordered, ToldIsTrue
  <2> QED
    BY <2>2, <2>3, <2>5, <2>6 DEF OneByOne, OwnEntry, NoOlder
<1> QED
  BY <1>3, <1>4, <1>5 DEF Ordered

\* Whoever writes the entry undisturbed leaves one answer, its own.
LEMMA FillKeepsOrder ==
  ASSUME Sound, Ordered, NEW h \in Threads, Fills(h), UNCHANGED <<counterVars, appVars>>,
         Ends(h) \/ UNCHANGED request, NEW a \in Apps \ overlapped'
  PROVE  /\ OneByOne(a)' /\ OwnEntry(a)'
         /\ Answers(a)' \subseteq Answers(a)
         /\ a = request[h].app => \A value \in Answers(a)' : value = request[h].value
<1>1. PICK b \in Apps : b = request[h].app
  BY RequestIs
<1>2. /\ UNCHANGED <<now, chatsCount, overlapped>>
      /\ request[h].phase = "set"
      /\ cache'[b] = Entry(request[h].value)
      /\ \A c \in Apps \ {b} : cache'[c] = cache[c]
  BY <1>1 DEF Fills, Sound, EntriesOK, counterVars, appVars
<1>3. \A g \in Threads : request'[g] = request[g] \/ request'[g].phase = "idle"
  BY IdleIs DEF Ends, Sound, RequestsOK
<1>4. OneByOne(a) /\ OwnEntry(a)
  BY <1>2 DEF Ordered
<1>5. CASE a # b
  <2>1. \A g \in Threads : request'[g] = request[g] \/ ~Busy(g, a)'
    BY <1>3 DEF Busy
  <2>2. Live(a)' => Live(a) /\ cache'[a] = cache[a]
    BY <1>2, <1>5 DEF Live
  <2> QED
    BY <1>1, <1>4, <1>5, <2>1, <2>2, Fewer
<1>6. CASE a = b
  <2>1. cache'[a].value = request[h].value
    BY <1>2, <1>6 DEF Entry
  <2>2. \A g \in Threads : Busy(g, a)' => g = h /\ request'[g] = request[h]
    BY <1>1, <1>2, <1>3, <1>4, <1>6 DEF Busy, OneByOne
  <2>3. OneByOne(a)' /\ OwnEntry(a)'
    BY <1>2, <2>1, <2>2 DEF OneByOne, OwnEntry
  <2>4. \A value \in Answers(a)' : value = request[h].value
    BY <2>1, <2>2 DEF Answers, Busy
  <2>5. request[h].value \in Answers(a)
    BY <1>1, <1>2, <1>6 DEF Answers
  <2> QED
    BY <2>3, <2>4, <2>5
<1> QED
  BY <1>5, <1>6

LEMMA TellKeepsOrder ==
  ASSUME Sound, Ordered, NEW h \in Threads, Tells(h), UNCHANGED <<counterVars, appVars>>
  PROVE  Ordered'
<1>1. PICK b \in Apps, value \in {NotFound} \cup Nat :
        /\ told' = [told EXCEPT ![b] = IF value > @ THEN value ELSE @]
        /\ \/ Live(b) /\ value = cache[b].value /\ UNCHANGED cache
           \/ value = request[h].value /\ b = request[h].app /\ Fills(h)
           \/ value = NotFound /\ UNCHANGED cache
  BY DEF Tells
<1>2. /\ NotFound = -1 /\ value \in Int
      /\ told \in [Apps -> Int]
      /\ \A a \in Apps : NotFound <= told[a]
      /\ chatsCount \in [Apps -> Nat]
      /\ UNCHANGED <<now, chatsCount, overlapped>>
  <2>1. NotFound = -1
    BY DEF NotFound
  <2>2. told \in [Apps -> {NotFound} \cup Nat] /\ chatsCount \in [Apps -> Nat]
    BY DEF Sound, CountsOK, ToldOK
  <2>3. UNCHANGED <<now, chatsCount, overlapped>>
    BY DEF Tells, counterVars, appVars
  <2> QED
    BY <1>1, <2>1, <2>2, <2>3
<1>3. /\ told'[b] = IF value > told[b] THEN value ELSE told[b]
      /\ \A a \in Apps \ {b} : told'[a] = told[a]
  BY <1>1, <1>2
<1>4. \A g \in Threads : request'[g] = request[g] \/ request'[g].phase = "idle"
  BY IdleIs DEF Tells, Ends, Sound, RequestsOK
<1>5. value <= chatsCount[b]
  <2>1. CASE Live(b) /\ value = cache[b].value
    BY <1>2, <2>1 DEF Sound, EntriesOK
  <2>2. CASE value = request[h].value /\ b = request[h].app /\ Fills(h)
    BY <1>2, <2>2 DEF Sound, RequestsOK, Fills
  <2>3. CASE value = NotFound
    BY <1>2, <2>3
  <2> QED
    BY <1>1, <2>1, <2>2, <2>3
<1>6. ToldIsTrue'
  <2> SUFFICES ASSUME NEW a \in Apps
               PROVE  told'[a] <= chatsCount'[a]
    BY DEF ToldIsTrue
  <2>1. told[a] <= chatsCount[a]
    BY DEF Ordered, ToldIsTrue
  <2> QED
    BY <1>2, <1>3, <1>5, <2>1
<1>7. ASSUME NEW a \in Apps \ overlapped'
      PROVE  /\ OneByOne(a)' /\ OwnEntry(a)' /\ Answers(a)' \subseteq Answers(a)
             /\ OneByOne(a) /\ OwnEntry(a) /\ NoOlder(a)
  <2>1. OneByOne(a) /\ OwnEntry(a) /\ NoOlder(a)
    BY <1>2 DEF Ordered
  <2>2. CASE UNCHANGED cache
    <3>1. \A g \in Threads : request'[g] = request[g] \/ ~Busy(g, a)'
      BY <1>4 DEF Busy
    <3> QED
      BY <1>2, <2>1, <2>2, <3>1, Fewer DEF Live
  <2>3. CASE Fills(h)
    BY <2>1, <2>3, FillKeepsOrder DEF Tells
  <2> QED
    BY <1>1, <2>1, <2>2, <2>3
<1>8. ASSUME NEW a \in Apps \ overlapped', NEW other \in Answers(a)'
      PROVE  told'[a] <= other
  <2>1. told[a] <= other /\ other \in Nat
    BY <1>7, <1>8, AnswersIn DEF NoOlder
  <2>2. CASE a # b
    BY <1>3, <2>1, <2>2
  <2>3. CASE a = b /\ Live(b) /\ value = cache[b].value /\ UNCHANGED cache
    <3>1. other \in Answers(a)
      BY <1>7, <1>8
    <3>2. other = value
      BY <1>7, <2>3, <3>1 DEF Answers, OwnEntry, Busy
    <3> QED
      BY <1>2, <1>3, <2>1, <2>3, <3>2
  <2>4. CASE a = b /\ value = request[h].value /\ b = request[h].app /\ Fills(h)
    <3>1. other = value
      BY <1>8, <2>4, FillKeepsOrder DEF Tells
    <3> QED
      BY <1>2, <1>3, <2>1, <2>4, <3>1
  <2>5. CASE a = b /\ value = NotFound
    BY <1>2, <1>3, <2>1, <2>5
  <2> QED
    BY <1>1, <2>2, <2>3, <2>4, <2>5
<1> QED
  BY <1>6, <1>7, <1>8 DEF Ordered, NoOlder

LEMMA DisturbanceKeepsOrder ==
  ASSUME Sound, Ordered, NEW h \in Threads, Disturbed(h), UNCHANGED <<counterVars, appVars>>
  PROVE  Ordered'
<1>1. UNCHANGED <<now, chatsCount, told, overlapped>>
  BY DEF Disturbed, counterVars, appVars
<1>2. ToldIsTrue'
  BY <1>1 DEF Ordered, ToldIsTrue
<1>3. ASSUME NEW a \in Apps \ overlapped'
      PROVE  OneByOne(a)' /\ OwnEntry(a)' /\ NoOlder(a)'
  <2>1. OneByOne(a) /\ OwnEntry(a) /\ NoOlder(a)
    BY <1>1, <1>3 DEF Ordered
  <2>2. CASE UNCHANGED cache
    <3>1. \A g \in Threads : request'[g] = request[g] \/ ~Busy(g, a)'
      BY IdleIs DEF Disturbed, Ends, Busy, Sound, RequestsOK
    <3>2. OneByOne(a)' /\ OwnEntry(a)' /\ Answers(a)' \subseteq Answers(a)
      BY <1>1, <1>3, <2>1, <2>2, <3>1, Fewer DEF Live
    <3> QED
      BY <1>1, <2>1, <3>2 DEF NoOlder
  <2>3. CASE Fills(h)
    <3>1. OneByOne(a)' /\ OwnEntry(a)' /\ Answers(a)' \subseteq Answers(a)
      BY <1>3, <2>3, FillKeepsOrder DEF Disturbed
    <3> QED
      BY <1>1, <2>1, <3>1 DEF NoOlder
  <2> QED
    BY <2>2, <2>3 DEF Disturbed
<1> QED
  BY <1>2, <1>3 DEF Ordered

LEMMA OrderedStep == Sound /\ Ordered /\ [Next]_vars => Ordered'
  BY StepIs, ShowIs, EnvironmentKeepsOrder, MissKeepsOrder, ReadKeepsOrder, TellKeepsOrder,
    DisturbanceKeepsOrder

LEMMA OrderedAnswers == Ordered => NoStepBack
<1> SUFFICES ASSUME Ordered, NEW a \in Apps \ overlapped, NEW value \in Answers(a)
             PROVE  value >= told[a]
  BY DEF NoStepBack
<1> QED
  BY DEF Ordered, NoOlder

\* As long as no two requests are on their way to fill an application's entry
\* at a time, no answer shows fewer chats than one before it: not after the
\* entry expired, not after a lost reply to SET nor a restart of Redis (show).
THEOREM AnswersInOrder == Spec => []NoStepBack
<1>1. Spec => [](Sound /\ Ordered)
  BY SoundInit, SoundStep, OrderedInit, OrderedStep, PTL DEF Spec
<1> QED
  BY <1>1, OrderedAnswers, PTL

===============================================================================
