---------------------------- MODULE Reconciliation ----------------------------
(***************************************************************************)
(* How go-worker's ReconciliationWorker moves the deltas that the chat and *)
(* message workers leave in Redis to the counters in MySQL.  Each process  *)
(* has two threads that reconcile: the ticker's loop, and Stop on SIGTERM. *)
(* A lock in Redis with a time to live is meant to let one thread of all   *)
(* processes reconcile at a time.                                          *)
(*                                                                         *)
(* One action is one command to Redis or MySQL.                            *)
(***************************************************************************)
EXTENDS Naturals, FiniteSets, Failures

CONSTANTS
  Workers,    \* go-worker processes
  AppKeys,    \* keys delta:app:<id>:chats
  ChatKeys,   \* keys delta:chat:<id>:messages
  MaxRows,    \* bound on the rows that are counted
  Sends,      \* how often go-redis sends a command whose reply is lost
  NoKey       \* a thread's key when it processes none

FaultKinds ==
  { "redis",     \* the reply to a Redis command is lost
    "db_error",  \* an UPDATE fails and changes nothing
    "db_reply",  \* an UPDATE is carried out and its reply is lost
    "slow",      \* the lock expires under a thread that still reconciles
    "crash",     \* a process dies and is restarted
    "sigterm" }  \* a process is told to stop

ASSUME ReconciliationAssumption ==
  /\ IsFiniteSet(Workers)
  /\ AppKeys \cap ChatKeys = {}
  /\ NoKey \notin AppKeys \cup ChatKeys
  /\ MaxRows \in Nat
  /\ Sends \in Nat \ {0}
  /\ Faults \subseteq FaultKinds
  /\ MaxFaults \in Nat

Keys    == AppKeys \cup ChatKeys
Threads == Workers \X {"loop", "stop"}

VARIABLES
  total,     \* total[k]: rows that the workers counted under key k
  delta,     \* delta[k]: the value of k in Redis, 0 when the key is absent
  count,     \* count[k]: chats_count or messages_count of k's row in MySQL
  lock,      \* lock:reconciliation is set
  pc,        \* pc[t]: what thread t does next
  stage,     \* stage[t]: which keys it is at, "apps" or "chats"
  todo,      \* todo[t]: scanned keys that it has not processed
  key,       \* key[t]: the key that it processes
  taken,     \* taken[t]: the delta that it took and has not passed on
  skipped    \* processes whose Stop got the lock and reconciled nothing

threadVars == <<pc, stage, todo, key, taken>>
vars == <<total, delta, count, lock, threadVars, skipped, faultVars>>

Points ==
  { "off", "wait", "acquire", "scan", "take", "update", "restore", "release",
    "outerAcquire", "outerRelease", "exit" }

TypeOK ==
  /\ total \in [Keys -> Nat]
  /\ delta \in [Keys -> Nat]
  /\ count \in [Keys -> Nat]
  /\ lock \in BOOLEAN
  /\ pc \in [Threads -> Points]
  /\ stage \in [Threads -> {"apps", "chats"}]
  /\ todo \in [Threads -> SUBSET Keys]
  /\ key \in [Threads -> Keys \cup {NoKey}]
  /\ taken \in [Threads -> Nat]
  /\ \A t \in Threads :
       /\ pc[t] \in {"update", "restore"} => key[t] \in Keys
       /\ taken[t] > 0 => pc[t] \in {"update", "restore"}
  /\ skipped \subseteq Workers
  /\ happened \subseteq FaultKinds
  /\ failures \in Nat

Init ==
  /\ total = [k \in Keys |-> 0]
  /\ delta = [k \in Keys |-> 0]
  /\ count = [k \in Keys |-> 0]
  /\ lock = FALSE
  /\ pc = [t \in Threads |-> IF t[2] = "loop" THEN "wait" ELSE "off"]
  /\ stage = [t \in Threads |-> "apps"]
  /\ todo = [t \in Threads |-> {}]
  /\ key = [t \in Threads |-> NoKey]
  /\ taken = [t \in Threads |-> 0]
  /\ skipped = {}
  /\ happened = {}
  /\ failures = 0

Goto(t, here, there) ==
  /\ pc[t] = here
  /\ pc' = [pc EXCEPT ![t] = there]

\* Where reconcile() returns to.
After(t) == IF t[2] = "loop" THEN "wait" ELSE "outerRelease"

-----------------------------------------------------------------------------
(***************************************************************************)
(* The chat and message workers: an INSERT and its INCR.                   *)
(***************************************************************************)
\* The first conjunct only bounds the rows of a behaviour.
CountRow(k) ==
  /\ Cardinality({r \in Keys \X (1..MaxRows) : r[2] <= total[r[1]]}) < MaxRows
  /\ total' = [total EXCEPT ![k] = @ + 1]
  /\ delta' = [delta EXCEPT ![k] = @ + 1]
  /\ NoFault
  /\ UNCHANGED <<count, lock, threadVars, skipped>>

-----------------------------------------------------------------------------
(***************************************************************************)
(* reconcile().                                                            *)
(***************************************************************************)

\* The ticker fires.
Tick(t) ==
  /\ Goto(t, "wait", "acquire")
  /\ NoFault
  /\ UNCHANGED <<total, delta, count, lock, stage, todo, key, taken, skipped>>

\* Mutant: SET instead of SETNX.
AcquireAlways(t) ==
  /\ Goto(t, "acquire", "scan")
  /\ lock' = TRUE
  /\ NoFault
  /\ UNCHANGED <<total, delta, count, stage, todo, key, taken, skipped>>

\* SETNX with a time to live; a thread that finds the lock set gives up.
AcquireLock(t) ==
  /\ Goto(t, "acquire", IF lock THEN After(t) ELSE "scan")
  /\ lock' = TRUE
  /\ skipped' = IF lock /\ t[2] = "stop" THEN skipped \cup {t[1]} ELSE skipped
  /\ NoFault
  /\ UNCHANGED <<total, delta, count, stage, todo, key, taken>>

\* The reply is lost, and the command may have been carried out.  Sent again,
\* it finds the lock set; or the caller gets an error.  Both give up.
AcquireDisturbed(t) ==
  /\ Goto(t, "acquire", After(t))
  /\ Fault("redis")
  /\ lock' \in {lock, TRUE}
  /\ UNCHANGED <<total, delta, count, stage, todo, key, taken, skipped>>

StageKeys(t) == IF stage[t] = "apps" THEN AppKeys ELSE ChatKeys

\* SCAN finds the keys that are there.
ScanKeys(t) ==
  /\ Goto(t, "scan", "take")
  /\ todo' = [todo EXCEPT ![t] = {k \in StageKeys(t) : delta[k] > 0}]
  /\ NoFault
  /\ UNCHANGED <<total, delta, count, lock, stage, key, taken, skipped>>

\* An error of SCAN ends the stage.
ScanFails(t) ==
  /\ Goto(t, "scan", "take")
  /\ Fault("redis")
  /\ todo' = [todo EXCEPT ![t] = {}]
  /\ UNCHANGED <<total, delta, count, lock, stage, key, taken, skipped>>

\* Mutant: the script does not delete the key.
GetKeeps(t) ==
  \E k \in todo[t] :
    /\ Goto(t, "take", IF delta[k] = 0 THEN "take" ELSE "update")
    /\ todo' = [todo EXCEPT ![t] = @ \ {k}]
    /\ key' = [key EXCEPT ![t] = IF delta[k] = 0 THEN NoKey ELSE k]
    /\ taken' = [taken EXCEPT ![t] = delta[k]]
    /\ NoFault
    /\ UNCHANGED <<total, delta, count, lock, stage, skipped>>

\* GET and DEL in one script.  A key that is gone by now ends with an error
\* that is only logged.
AtomicGetDel(t) ==
  \E k \in todo[t] :
    /\ Goto(t, "take", IF delta[k] = 0 THEN "take" ELSE "update")
    /\ todo' = [todo EXCEPT ![t] = @ \ {k}]
    /\ key' = [key EXCEPT ![t] = IF delta[k] = 0 THEN NoKey ELSE k]
    /\ taken' = [taken EXCEPT ![t] = delta[k]]
    /\ delta' = [delta EXCEPT ![k] = 0]
    /\ NoFault
    /\ UNCHANGED <<total, count, lock, stage, skipped>>

\* The script's reply is lost: sent again, it finds no key, and what it took
\* the first time is gone.
GetDelDisturbed(t) ==
  \E k \in todo[t] :
    /\ Goto(t, "take", "take")
    /\ Fault("redis")
    /\ todo' = [todo EXCEPT ![t] = @ \ {k}]
    /\ delta' \in {delta, [delta EXCEPT ![k] = 0]}
    /\ UNCHANGED <<total, count, lock, stage, key, taken, skipped>>

\* Mutant: the thread goes on with the delta that it has passed on.
UpdateKeeps(t) ==
  /\ Goto(t, "update", "take")
  /\ count' = [count EXCEPT ![key[t]] = @ + taken[t]]
  /\ NoFault
  /\ UNCHANGED <<total, delta, lock, stage, todo, key, taken, skipped>>

\* UPDATE ... SET chats_count = chats_count + delta.
UpdateCount(t) ==
  /\ Goto(t, "update", "take")
  /\ count' = [count EXCEPT ![key[t]] = @ + taken[t]]
  /\ taken' = [taken EXCEPT ![t] = 0]
  /\ key' = [key EXCEPT ![t] = NoKey]
  /\ NoFault
  /\ UNCHANGED <<total, delta, lock, stage, todo, skipped>>

UpdateFails(t) ==
  /\ Goto(t, "update", "restore")
  /\ Fault("db_error")
  /\ UNCHANGED <<total, delta, count, lock, stage, todo, key, taken, skipped>>

UpdateUnanswered(t) ==
  /\ Goto(t, "update", "restore")
  /\ Fault("db_reply")
  /\ count' = [count EXCEPT ![key[t]] = @ + taken[t]]
  /\ UNCHANGED <<total, delta, lock, stage, todo, key, taken, skipped>>

\* Mutant: SET instead of INCRBY, over what was counted in the meantime.
RestoreSets(t) ==
  /\ Goto(t, "restore", "take")
  /\ delta' = [delta EXCEPT ![key[t]] = taken[t]]
  /\ taken' = [taken EXCEPT ![t] = 0]
  /\ key' = [key EXCEPT ![t] = NoKey]
  /\ NoFault
  /\ UNCHANGED <<total, count, lock, stage, todo, skipped>>

\* Mutant: the delta of a failed UPDATE is dropped.
RestoreDropped(t) ==
  /\ Goto(t, "restore", "take")
  /\ taken' = [taken EXCEPT ![t] = 0]
  /\ key' = [key EXCEPT ![t] = NoKey]
  /\ NoFault
  /\ UNCHANGED <<total, delta, count, lock, stage, todo, skipped>>

\* INCRBY puts the delta of a failed UPDATE back.
RestoreDelta(t) ==
  /\ Goto(t, "restore", "take")
  /\ delta' = [delta EXCEPT ![key[t]] = @ + taken[t]]
  /\ taken' = [taken EXCEPT ![t] = 0]
  /\ key' = [key EXCEPT ![t] = NoKey]
  /\ NoFault
  /\ UNCHANGED <<total, count, lock, stage, todo, skipped>>

\* Replies are lost: it is carried out n times, and its error is ignored.
RestoreDisturbed(t) ==
  /\ Goto(t, "restore", "take")
  /\ Fault("redis")
  /\ \E n \in 0..Sends : delta' = [delta EXCEPT ![key[t]] = @ + n * taken[t]]
  /\ taken' = [taken EXCEPT ![t] = 0]
  /\ key' = [key EXCEPT ![t] = NoKey]
  /\ UNCHANGED <<total, count, lock, stage, todo, skipped>>

\* After the applications' keys come the chats'.
NextStage(t) ==
  /\ todo[t] = {}
  /\ Goto(t, "take", IF stage[t] = "apps" THEN "scan" ELSE "release")
  /\ stage' = [stage EXCEPT ![t] = IF @ = "apps" THEN "chats" ELSE "apps"]
  /\ NoFault
  /\ UNCHANGED <<total, delta, count, lock, todo, key, taken, skipped>>

\* DEL, whoever holds the lock by now.
ReleaseLock(t) ==
  /\ Goto(t, "release", After(t))
  /\ lock' = FALSE
  /\ NoFault
  /\ UNCHANGED <<total, delta, count, stage, todo, key, taken, skipped>>

-----------------------------------------------------------------------------
(***************************************************************************)
(* Stop(): it takes the lock, calls reconcile(), which asks for the lock   *)
(* again, and releases it.  Then the process exits, whatever its loop is   *)
(* doing.                                                                  *)
(***************************************************************************)
Terminate(w) ==
  /\ Goto(<<w, "stop">>, "off", "outerAcquire")
  /\ Fault("sigterm")
  /\ UNCHANGED <<total, delta, count, lock, stage, todo, key, taken, skipped>>

OuterAcquire(t) ==
  /\ Goto(t, "outerAcquire", IF lock THEN "exit" ELSE "acquire")
  /\ lock' = TRUE
  /\ NoFault
  /\ UNCHANGED <<total, delta, count, stage, todo, key, taken, skipped>>

OuterAcquireDisturbed(t) ==
  /\ Goto(t, "outerAcquire", "exit")
  /\ Fault("redis")
  /\ lock' \in {lock, TRUE}
  /\ UNCHANGED <<total, delta, count, stage, todo, key, taken, skipped>>

OuterRelease(t) ==
  /\ Goto(t, "outerRelease", "exit")
  /\ lock' = FALSE
  /\ NoFault
  /\ UNCHANGED <<total, delta, count, stage, todo, key, taken, skipped>>

\* A DEL whose reply is lost is sent again, and may delete the lock of
\* another thread; or it fails, and the lock stays.
ReleaseDisturbed(t) ==
  /\ Fault("redis")
  /\ \/ /\ pc[t] \in {"release", "outerRelease"}
        /\ lock' = FALSE
        /\ UNCHANGED pc
     \/ /\ Goto(t, "release", After(t)) \/ Goto(t, "outerRelease", "exit")
        /\ UNCHANGED lock
  /\ UNCHANGED <<total, delta, count, stage, todo, key, taken, skipped>>

\* close(stopChan): a loop that waits for the ticker returns, unless it takes
\* a tick that is due first.
LoopReturns(w) ==
  /\ pc[<<w, "stop">>] # "off"
  /\ Goto(<<w, "loop">>, "wait", "exit")
  /\ NoFault
  /\ UNCHANGED <<total, delta, count, lock, stage, todo, key, taken, skipped>>

\* The threads of w lose what they hold in memory and stand at places[.].
Reset(w, places) ==
  /\ pc'    = [t \in Threads |-> IF t[1] = w THEN places[t[2]] ELSE pc[t]]
  /\ stage' = [t \in Threads |-> IF t[1] = w THEN "apps" ELSE stage[t]]
  /\ todo'  = [t \in Threads |-> IF t[1] = w THEN {} ELSE todo[t]]
  /\ key'   = [t \in Threads |-> IF t[1] = w THEN NoKey ELSE key[t]]
  /\ taken' = [t \in Threads |-> IF t[1] = w THEN 0 ELSE taken[t]]

Gone == [loop |-> "exit", stop |-> "exit"]

\* main returns, and the loop ends wherever it is.
Exit(w) ==
  /\ pc[<<w, "stop">>] = "exit"
  /\ pc[<<w, "loop">>] # "exit"
  /\ Reset(w, Gone)
  /\ NoFault
  /\ UNCHANGED <<total, delta, count, lock, skipped>>

-----------------------------------------------------------------------------
(***************************************************************************)
(* The environment.                                                        *)
(***************************************************************************)

\* t acts under the lock, or believes that it does.
Holder(t) ==
  \/ pc[t] \in {"scan", "take", "update", "restore", "release"}
  \/ t[2] = "stop" /\ pc[t] \in {"acquire", "outerRelease"}

\* Mutant: the lock is set without a time to live.
NoTimeToLive ==
  /\ FALSE
  /\ UNCHANGED vars

\* The time to live passes on a lock whose holder is gone.
LeakedLockExpires ==
  /\ lock
  /\ \A t \in Threads : ~Holder(t)
  /\ lock' = FALSE
  /\ NoFault
  /\ UNCHANGED <<total, delta, count, threadVars, skipped>>

\* It passes under a holder that takes longer: nothing renews the lock.
LockExpires ==
  /\ lock
  /\ \E t \in Threads : Holder(t)
  /\ Fault("slow")
  /\ lock' = FALSE
  /\ UNCHANGED <<total, delta, count, threadVars, skipped>>

\* w dies.  Its container starts it again, unless it was told to stop.
Crash(w) ==
  /\ pc[<<w, "loop">>] # "exit" \/ pc[<<w, "stop">>] # "exit"
  /\ Fault("crash")
  /\ Reset(w, IF pc[<<w, "stop">>] = "off" THEN [loop |-> "wait", stop |-> "off"] ELSE Gone)
  /\ UNCHANGED <<total, delta, count, lock, skipped>>

-----------------------------------------------------------------------------
Reconcile(t) ==
  \/ AcquireLock(t)
  \/ ScanKeys(t)
  \/ AtomicGetDel(t)
  \/ UpdateCount(t)
  \/ RestoreDelta(t)
  \/ NextStage(t)
  \/ ReleaseLock(t)

ReconcileFault(t) ==
  \/ AcquireDisturbed(t)
  \/ ScanFails(t)
  \/ GetDelDisturbed(t)
  \/ UpdateFails(t)
  \/ UpdateUnanswered(t)
  \/ RestoreDisturbed(t)
  \/ ReleaseDisturbed(t)

Stop(w) ==
  \/ OuterAcquire(<<w, "stop">>)
  \/ OuterRelease(<<w, "stop">>)
  \/ LoopReturns(w)
  \/ Exit(w)

StopFault(w) ==
  \/ Terminate(w)
  \/ OuterAcquireDisturbed(<<w, "stop">>)
  \/ Crash(w)

Next ==
  \/ \E k \in Keys : CountRow(k)
  \/ \E t \in Threads : Reconcile(t) \/ ReconcileFault(t)
  \/ \E w \in Workers : Tick(<<w, "loop">>) \/ Stop(w) \/ StopFault(w)
  \/ LeakedLockExpires
  \/ LockExpires

Spec == Init /\ [][Next]_vars

\* Tickers fire, goroutines go on, and Redis lets keys expire.
FairSpec ==
  /\ Spec
  /\ \A t \in Threads : WF_vars(Reconcile(t))
  /\ \A w \in Workers : WF_vars(Tick(<<w, "loop">>)) /\ WF_vars(Stop(w))
  /\ WF_vars(LeakedLockExpires)

-----------------------------------------------------------------------------
(***************************************************************************)
(* Properties.                                                             *)
(***************************************************************************)
\* One thread of all processes works under the lock, also when processes
\* crash or exit with the lock set (acquireLock, releaseLock).
MutualExclusion ==
  \/ Unless({"slow", "redis"})
  \/ \A t, u \in Threads : Holder(t) /\ Holder(u) => t = u

\* What threads have taken from k and not passed on, as a set of that size.
InFlight(k) == UNION { {t} \X (1..taken[t]) : t \in {u \in Threads : key[u] = k} }

Accounted(k) == count[k] + delta[k] + Cardinality(InFlight(k))

\* No count is ever too high: what is taken is added once, and put back only
\* when it was not added (processKey).  Two threads that reconcile at the same
\* time, crashes and exits do no harm.
NeverOvercounts ==
  \/ Unless({"redis", "db_reply"})
  \/ \A k \in Keys : Accounted(k) <= total[k]

\* Nothing is lost either, also when UPDATEs fail and when the lock expires
\* under its holder.
Conserved ==
  \/ Unless({"redis", "db_reply", "crash", "sigterm"})
  \/ \A k \in Keys : Accounted(k) = total[k]

\* Every counted row reaches MySQL (README.md:108, eventual consistency).
EventuallySynced ==
  \A k \in Keys : \A n \in 1..MaxRows :
    total[k] >= n ~> count[k] >= n \/ Unless({"redis", "crash", "sigterm"})

\* No failure keeps a delta in Redis for good: a lock whose holder is gone
\* expires.  It takes a process that is not stopping.
EventuallyTaken ==
  \A k \in Keys :
    delta[k] > 0 ~> delta[k] = 0 \/ \A w \in Workers : pc[<<w, "stop">>] # "off"

\* Rows that are counted and not yet in MySQL.
Pending == [k \in Keys |-> delta[k] + Cardinality(InFlight(k))]

Abstract == INSTANCE Counter WITH
  visible <- count,
  pending <- Pending,
  lossy   <- Unless({"crash", "sigterm"}),
  excused <- Unless({"redis", "db_reply"})

\* What the readers of the counters may rely on: every step counts a row, moves
\* pending rows to the counter they belong to, or does not matter to them.  A
\* row is lost only where a process may have ended, and counted twice only
\* where a reply was lost.
ImplementsCounter == Abstract!Spec

\* What Stop's message on a failed "final reconciliation"
\* (reconciliation_worker.go:234) says of Stop.
FinalReconciliation == skipped = {}

=============================================================================
