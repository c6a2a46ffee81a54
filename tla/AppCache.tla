------------------------------- MODULE AppCache -------------------------------
(***************************************************************************)
(* The application that the Rails API shows.  GET /applications/<token>    *)
(* answers from an entry in Redis that lives for half an hour, or reads    *)
(* the row and fills the entry; nothing invalidates it.  Meanwhile chats   *)
(* are counted, and reconciliation makes them visible in the row: that is  *)
(* Counter, here without failures.                                         *)
(*                                                                         *)
(* One action is one command to Redis or MySQL, or the passing of time.    *)
(***************************************************************************)
EXTENDS Integers, Sequences, Failures

CONSTANTS
  Apps,        \* applications that are created sooner or later, by their tokens
  Threads,     \* threads of the Rails server, one request at a time each
  TTL,         \* how long an entry lives (30 minutes in the code)
  Lag,         \* how long reconciliation takes to make a chat visible
  MaxRequest,  \* how long a request takes
  MaxRows,     \* bound on the chats of an application
  MaxTime      \* bound on the time

FaultKinds ==
  { "redis",           \* the reply to a SET is lost
    "redis_restart" }  \* Redis comes back without some of the entries

ASSUME AppCacheAssumption ==
  /\ Apps # {}
  /\ TTL # 0
  /\ {TTL, Lag, MaxRequest, MaxRows, MaxTime} \subseteq Nat
  /\ Faults \subseteq FaultKinds
  /\ MaxFaults \in Nat

\* What a request for an application without a row is answered.
NotFound == -1

VARIABLES
  total,       \* total[a]: the chats counted for application a
  chatsCount,  \* chats_count of a's row in MySQL
  pending,     \* the chats that it is still going to count
  created,     \* the applications that have a row
  now,         \* the time
  counted,     \* counted[a][n]: when the n-th chat of a was counted
  cache,       \* cache[a]: the entry application:token:<a> in Redis
  request,     \* request[h]: what thread h is doing
  told,        \* told[a]: the most chats that an answer has shown of a
  overlapped   \* the applications whose entry two requests have filled at a time

counterVars == <<total, chatsCount, pending>>
appVars == <<created, now, counted>>
vars == <<counterVars, appVars, cache, request, told, overlapped, faultVars>>

C == INSTANCE Counter WITH Keys <- Apps, visible <- chatsCount, lossy <- FALSE, excused <- FALSE

NoEntry == [value |-> NotFound, expires |-> 0]
Idle    == [phase |-> "idle", app |-> CHOOSE a \in Apps : TRUE, value |-> NotFound, since |-> 0]

Live(a) == now < cache[a].expires

TypeOK ==
  /\ C!vars \in [Apps -> Nat] \X [Apps -> Nat] \X [Apps -> Nat]
  /\ created \subseteq Apps
  /\ now \in Nat
  /\ counted \in [Apps -> Seq(Nat)]
  /\ cache \in [Apps -> [value : {NotFound} \cup Nat, expires : Nat]]
  /\ request \in [Threads -> [phase : {"idle", "select", "set"}, app : Apps,
                              value : {NotFound} \cup Nat, since : Nat]]
  /\ told \in [Apps -> {NotFound} \cup Nat]
  /\ overlapped \subseteq Apps
  /\ \A a \in Apps :
       /\ Len(counted[a]) = total[a]
       /\ cache[a].expires <= now + TTL
       /\ Live(a) => cache[a].value \in 0..chatsCount[a]
  /\ happened \subseteq FaultKinds
  /\ failures \in Nat

Init ==
  /\ C!Init
  /\ created = {}
  /\ now = 0
  /\ counted = [a \in Apps |-> <<>>]
  /\ cache = [a \in Apps |-> NoEntry]
  /\ request = [h \in Threads |-> Idle]
  /\ told = [a \in Apps |-> NotFound]
  /\ overlapped = {}
  /\ happened = {}
  /\ failures = 0

-----------------------------------------------------------------------------
(***************************************************************************)
(* ApplicationsController.                                                 *)
(***************************************************************************)

\* create: the answer says that the application is there, without chats.
Create(a) ==
  /\ a \notin created
  /\ created' = created \cup {a}
  /\ told' = [told EXCEPT ![a] = 0]
  /\ NoFault
  /\ UNCHANGED <<counterVars, now, counted, cache, request, overlapped>>

\* h answers the request for a.
Answer(h, a, value) ==
  /\ request' = [request EXCEPT ![h] = Idle]
  /\ told' = [told EXCEPT ![a] = IF value > @ THEN value ELSE @]

\* h goes on, maybe beside others that have missed a's entry.
GoOn(h, phase, a, value, since) ==
  /\ request' = [request EXCEPT ![h] =
                   [phase |-> phase, app |-> a, value |-> value, since |-> since]]
  /\ overlapped' =
       IF \E g \in Threads \ {h} : request[g].phase # "idle" /\ request[g].app = a
       THEN overlapped \cup {a} ELSE overlapped
  /\ UNCHANGED told

\* show: an entry in Redis is the answer.
GetEntry(h, a) ==
  /\ request[h].phase = "idle"
  /\ IF Live(a) THEN Answer(h, a, cache[a].value) /\ UNCHANGED overlapped
                ELSE GoOn(h, "select", a, NotFound, now)
  /\ NoFault
  /\ UNCHANGED <<counterVars, appVars, cache>>

Entry(value) == [value |-> value, expires |-> now + TTL]

\* Mutant: an application without a row gets an entry, too.
FindRemembered(h) ==
  LET a == request[h].app IN
  /\ request[h].phase = "select"
  /\ GoOn(h, "set", a, IF a \in created THEN chatsCount[a] ELSE NotFound, request[h].since)
  /\ NoFault
  /\ UNCHANGED <<counterVars, appVars, cache>>

\* Mutant: the chats are counted in their table, ahead of the counter.
FindCounting(h) ==
  LET a == request[h].app IN
  /\ request[h].phase = "select"
  /\ a \in created
  /\ GoOn(h, "set", a, total[a], request[h].since)
  /\ NoFault
  /\ UNCHANGED <<counterVars, appVars, cache>>

\* find_by!: the row, or a 404, which leaves no entry.
FindApplication(h) ==
  LET a == request[h].app IN
  /\ request[h].phase = "select"
  /\ IF a \in created THEN GoOn(h, "set", a, chatsCount[a], request[h].since)
                      ELSE Answer(h, a, NotFound) /\ UNCHANGED overlapped
  /\ NoFault
  /\ UNCHANGED <<counterVars, appVars, cache>>

\* Mutant: the entry's time to live is forgotten.
SetForever(h) ==
  LET a == request[h].app IN
  /\ request[h].phase = "set"
  /\ cache' = [cache EXCEPT ![a] = [value |-> request[h].value, expires |-> MaxTime + 1]]
  /\ Answer(h, a, request[h].value)
  /\ NoFault
  /\ UNCHANGED <<counterVars, appVars, overlapped>>

\* SET with a time to live, and the answer.
SetEntry(h) ==
  LET a == request[h].app IN
  /\ request[h].phase = "set"
  /\ cache' = [cache EXCEPT ![a] = Entry(request[h].value)]
  /\ Answer(h, a, request[h].value)
  /\ NoFault
  /\ UNCHANGED <<counterVars, appVars, overlapped>>

\* The reply to SET is lost, and it may have been carried out.  It is sent
\* again, or the client gets a 500.
SetDisturbed(h) ==
  LET a == request[h].app IN
  /\ request[h].phase = "set"
  /\ Fault("redis")
  /\ cache' \in {cache, [cache EXCEPT ![a] = Entry(request[h].value)]}
  /\ request' \in {request, [request EXCEPT ![h] = Idle]}
  /\ UNCHANGED <<counterVars, appVars, told, overlapped>>

-----------------------------------------------------------------------------
(***************************************************************************)
(* The environment.                                                        *)
(***************************************************************************)
CountChat(a) ==
  /\ a \in created
  /\ total[a] < MaxRows
  /\ C!Count(a)
  /\ counted' = [counted EXCEPT ![a] = Append(@, now)]
  /\ NoFault
  /\ UNCHANGED <<created, now, cache, request, told, overlapped>>

ShowChats(a) ==
  /\ \E n \in 1..pending[a] : C!Show(a, n)
  /\ NoFault
  /\ UNCHANGED <<appVars, cache, request, told, overlapped>>

\* Time passes, but not beyond what Lag and MaxRequest allow.
Tick ==
  /\ now < MaxTime
  /\ \A a \in Apps : \A n \in (chatsCount[a] + 1)..total[a] : now < counted[a][n] + Lag
  /\ \A h \in Threads : request[h].phase # "idle" => now < request[h].since + MaxRequest
  /\ now' = now + 1
  /\ NoFault
  /\ UNCHANGED <<counterVars, created, counted, cache, request, told, overlapped>>

\* Redis comes back with the entries that its last snapshot has.
CacheLost ==
  /\ Fault("redis_restart")
  /\ \E kept \in SUBSET Apps :
       cache' = [a \in Apps |-> IF a \in kept THEN cache[a] ELSE NoEntry]
  /\ UNCHANGED <<counterVars, appVars, request, told, overlapped>>

-----------------------------------------------------------------------------
Show(h) ==
  \/ \E a \in Apps : GetEntry(h, a)
  \/ FindApplication(h)
  \/ SetEntry(h)
  \/ SetDisturbed(h)

Next ==
  \/ \E a \in Apps : Create(a) \/ CountChat(a) \/ ShowChats(a)
  \/ \E h \in Threads : Show(h)
  \/ Tick
  \/ CacheLost

Spec == Init /\ [][Next]_vars

-----------------------------------------------------------------------------
(***************************************************************************)
(* Properties.                                                             *)
(***************************************************************************)

\* The answers that requests for a may get at this moment: the entry, and
\* those of requests that are about to fill it.
Answers(a) ==
  (IF Live(a) THEN {cache[a].value} ELSE {}) \cup
  {request[h].value : h \in {g \in Threads : request[g].phase = "set" /\ request[g].app = a}}

\* No answer hides a chat that was counted longer ago than the lag of
\* reconciliation, a request and the life of an entry take together: a fill
\* that races reconciliation, or another fill, does not make an entry older
\* (show; README.md:109 asks for less than an hour).
AnswersAreRecent ==
  \A a \in Apps : \A n \in 1..total[a] :
    counted[a][n] + Lag + MaxRequest + TTL <= now =>
      \A value \in Answers(a) : n <= value

\* Clients of one URL never see the count go back, nor the application gone,
\* unless two requests have filled the entry at the same time: the one that
\* read the older count may be the later one to write it (show).
NoStepBack ==
  \A a \in Apps :
    a \in overlapped \/ \A value \in Answers(a) : value >= told[a]

=============================================================================
