------------------------ MODULE ReconciliationProofs ------------------------
(***************************************************************************)
(* Proofs about Reconciliation, for every value of its constants.          *)
(***************************************************************************)
EXTENDS Reconciliation, FiniteSetTheorems, TLAPS

-----------------------------------------------------------------------------
(***************************************************************************)
(* Typing.                                                                 *)
(***************************************************************************)
LEMMA ThreadsOf ==
  /\ \A w \in Workers : <<w, "loop">> \in Threads /\ <<w, "stop">> \in Threads
  /\ \A t \in Threads : t[1] \in Workers /\ t[2] \in {"loop", "stop"} /\ t = <<t[1], t[2]>>
BY DEF Threads

LEMMA FaultType ==
  ASSUME TypeOK, NEW kind, Fault(kind)
  PROVE  happened' \subseteq FaultKinds /\ failures' \in Nat
BY ReconciliationAssumption DEF TypeOK, Fault

\* The two ends of a process leave threads that hold nothing.
LEMMA EndType ==
  ASSUME TypeOK, NEW w \in Workers, Exit(w) \/ Crash(w)
  PROVE  /\ pc' \in [Threads -> Points]
         /\ \A t \in Threads : t[1] = w => pc'[t] \in {"off", "wait", "exit"} /\ taken'[t] = 0
         /\ \A t \in Threads : t[1] # w =>
              pc'[t] = pc[t] /\ taken'[t] = taken[t] /\ key'[t] = key[t]
         /\ stage' \in [Threads -> {"apps", "chats"}]
         /\ todo' \in [Threads -> SUBSET Keys]
         /\ key' \in [Threads -> Keys \cup {NoKey}]
         /\ taken' \in [Threads -> Nat]
<1> USE DEF TypeOK
<1>1. PICK places \in {Gone, [loop |-> "wait", stop |-> "off"]} : Reset(w, places)
  BY DEF Exit, Crash
<1>2. \A t \in Threads : places[t[2]] \in {"off", "wait", "exit"}
  BY ThreadsOf DEF Gone
<1>3. /\ pc'    = [t \in Threads |-> IF t[1] = w THEN places[t[2]] ELSE pc[t]]
      /\ stage' = [t \in Threads |-> IF t[1] = w THEN "apps" ELSE stage[t]]
      /\ todo'  = [t \in Threads |-> IF t[1] = w THEN {} ELSE todo[t]]
      /\ key'   = [t \in Threads |-> IF t[1] = w THEN NoKey ELSE key[t]]
      /\ taken' = [t \in Threads |-> IF t[1] = w THEN 0 ELSE taken[t]]
  BY <1>1 DEF Reset
<1> HIDE DEF Threads
<1> QED
  BY <1>2, <1>3 DEF Points

LEMMA HappenedGrows ==
  ASSUME [Next]_vars
  PROVE  happened \subseteq happened'
BY DEF Next, CountRow, Reconcile, AcquireLock, ScanKeys, AtomicGetDel, UpdateCount,
       RestoreDelta, NextStage, ReleaseLock, ReconcileFault, AcquireDisturbed,
       ScanFails, GetDelDisturbed, UpdateFails, UpdateUnanswered, RestoreDisturbed,
       ReleaseDisturbed, Stop, OuterAcquire, OuterRelease, LoopReturns, Exit,
       StopFault, Terminate, OuterAcquireDisturbed, Crash, Tick, LeakedLockExpires,
       LockExpires, Fault, NoFault, vars, faultVars

LEMMA TypeStep == TypeOK /\ [Next]_vars => TypeOK'
<1> SUFFICES ASSUME TypeOK, [Next]_vars PROVE TypeOK'
  OBVIOUS
<1> USE ReconciliationAssumption DEF TypeOK, Points
<1>1. CASE UNCHANGED vars
  BY <1>1 DEF vars, threadVars, faultVars
<1>2. ASSUME NEW k \in Keys, CountRow(k) PROVE TypeOK'
  BY <1>2 DEF CountRow, NoFault, threadVars, faultVars
<1>3. ASSUME NEW t \in Threads, Reconcile(t) PROVE TypeOK'
  <2>1. CASE AcquireLock(t)
    <3>1. lock' \in BOOLEAN /\ skipped' \subseteq Workers
      BY <2>1, ThreadsOf DEF AcquireLock
    <3> QED
      BY <2>1, <3>1 DEF AcquireLock, Goto, After, NoFault, faultVars
  <2>2. CASE ScanKeys(t)
    BY <2>2 DEF ScanKeys, Goto, NoFault, faultVars, StageKeys, Keys
  <2>3. CASE AtomicGetDel(t)
    BY <2>3 DEF AtomicGetDel, Goto, NoFault, faultVars
  <2>4. CASE UpdateCount(t)
    BY <2>4 DEF UpdateCount, Goto, NoFault, faultVars
  <2>5. CASE RestoreDelta(t)
    BY <2>5 DEF RestoreDelta, Goto, NoFault, faultVars
  <2>6. CASE NextStage(t)
    BY <2>6 DEF NextStage, Goto, NoFault, faultVars
  <2>7. CASE ReleaseLock(t)
    <3>1. lock' \in BOOLEAN
      BY <2>7, Zenon DEF ReleaseLock
    <3> QED
      BY <2>7, <3>1 DEF ReleaseLock, Goto, After, NoFault, faultVars
  <2> QED
    BY <1>3, <2>1, <2>2, <2>3, <2>4, <2>5, <2>6, <2>7 DEF Reconcile
<1>4. ASSUME NEW t \in Threads, ReconcileFault(t) PROVE TypeOK'
  <2>1. CASE AcquireDisturbed(t)
    <3>1. lock' \in BOOLEAN
      BY <2>1 DEF AcquireDisturbed
    <3> QED
      BY <2>1, <3>1 DEF AcquireDisturbed, Goto, After, Fault, FaultKinds
  <2>2. CASE ScanFails(t)
    BY <2>2 DEF ScanFails, Goto, Fault, FaultKinds
  <2>3. CASE GetDelDisturbed(t)
    BY <2>3 DEF GetDelDisturbed, Goto, Fault, FaultKinds
  <2>4. CASE UpdateFails(t) \/ UpdateUnanswered(t)
    BY <2>4, FaultType DEF UpdateFails, UpdateUnanswered, Goto
  <2>5. CASE RestoreDisturbed(t)
    <3>1. PICK n \in 0..Sends : delta' = [delta EXCEPT ![key[t]] = @ + n * taken[t]]
      BY <2>5 DEF RestoreDisturbed
    <3>2. n * taken[t] \in Nat
      BY <3>1
    <3>3. delta' \in [Keys -> Nat]
      BY <2>5, <3>1, <3>2 DEF RestoreDisturbed, Goto
    <3> QED
      BY <2>5, <3>3 DEF RestoreDisturbed, Goto, Fault, FaultKinds
  <2>6. CASE ReleaseDisturbed(t)
    <3>1. lock' \in BOOLEAN
      BY <2>6, Zenon DEF ReleaseDisturbed
    <3>2. /\ pc' \in [Threads -> Points]
          /\ pc'[t] \notin {"update", "restore"}
          /\ \A u \in Threads : u # t => pc'[u] = pc[u]
      BY <2>6 DEF ReleaseDisturbed, Goto, After
    <3>3. pc[t] \in {"release", "outerRelease"}
      BY <2>6 DEF ReleaseDisturbed, Goto
    <3>4. UNCHANGED <<total, delta, count, stage, todo, key, taken, skipped>> /\ Fault("redis")
      BY <2>6 DEF ReleaseDisturbed
    <3> QED
      BY <3>1, <3>2, <3>3, <3>4, FaultType
  <2> QED
    BY <1>4, <2>1, <2>2, <2>3, <2>4, <2>5, <2>6 DEF ReconcileFault
<1>5. ASSUME NEW w \in Workers, Tick(<<w, "loop">>) \/ Stop(w) \/ StopFault(w) PROVE TypeOK'
  <2>1. ASSUME NEW t \in Threads, Tick(t) PROVE TypeOK'
    BY <2>1 DEF Tick, Goto, NoFault, faultVars
  <2>2. ASSUME NEW t \in Threads, OuterAcquire(t) \/ OuterRelease(t) PROVE TypeOK'
    <3>1. lock' \in BOOLEAN
      BY <2>2, Zenon DEF OuterAcquire, OuterRelease
    <3> QED
      BY <2>2, <3>1 DEF OuterAcquire, OuterRelease, Goto, NoFault, faultVars
  <2>3. CASE LoopReturns(w)
    BY <2>3, ThreadsOf DEF LoopReturns, Goto, NoFault, faultVars
  <2>4. CASE Exit(w)
    BY <2>4, EndType DEF Exit, NoFault, faultVars
  <2>5. CASE Terminate(w)
    BY <2>5, ThreadsOf, FaultType DEF Terminate, Goto
  <2>6. ASSUME NEW t \in Threads, OuterAcquireDisturbed(t) PROVE TypeOK'
    <3>1. lock' \in BOOLEAN
      BY <2>6 DEF OuterAcquireDisturbed
    <3> QED
      BY <2>6, <3>1, FaultType DEF OuterAcquireDisturbed, Goto
  <2>7. CASE Crash(w)
    BY <2>7, EndType, FaultType DEF Crash
  <2> QED
    BY <1>5, <2>1, <2>2, <2>3, <2>4, <2>5, <2>6, <2>7, ThreadsOf DEF Stop, StopFault
<1>6. CASE LeakedLockExpires \/ LockExpires
  <2>1. lock' \in BOOLEAN
    BY <1>6, Zenon DEF LeakedLockExpires, LockExpires
  <2> QED
    BY <1>6, <2>1, FaultType DEF LeakedLockExpires, LockExpires, NoFault, faultVars, threadVars
<1> QED
  BY <1>1, <1>2, <1>3, <1>4, <1>5, <1>6 DEF Next

\* The variables stay within their types; only a thread between GETDEL and
\* the end of its UPDATE or INCRBY holds a delta.
THEOREM TypeCorrect == Spec => []TypeOK
<1>1. Init => TypeOK
  <2>1. Init => lock \in BOOLEAN
    BY Zenon DEF Init
  <2> QED
    BY <2>1 DEF Init, TypeOK, Points
<1> QED
  BY <1>1, TypeStep, PTL DEF Spec

-----------------------------------------------------------------------------
(***************************************************************************)
(* Mutual exclusion.                                                       *)
(***************************************************************************)

\* t is inside reconcile(), behind its acquireLock.
Critical(t) == pc[t] \in {"scan", "take", "update", "restore", "release"}

\* Whoever acts under the lock finds it set, and is alone; and Stop, which
\* holds the lock when reconcile() asks for it, never gets in.
Locked ==
  \/ Unless({"slow", "redis"})
  \/ /\ \A t \in Threads : Holder(t) => lock
     /\ \A t, u \in Threads : Holder(t) /\ Holder(u) => t = u
     /\ \A t \in Threads : Critical(t) => t[2] = "loop"

LEMMA LockedStep ==
  ASSUME TypeOK, [Next]_vars, Locked
  PROVE  Locked'
<1> SUFFICES ASSUME ~Unless({"slow", "redis"})' PROVE Locked'
  BY DEF Locked
<1> USE DEF TypeOK
<1>0. /\ \A t \in Threads : Holder(t) => lock
      /\ \A t, u \in Threads : Holder(t) /\ Holder(u) => t = u
      /\ \A t \in Threads : Critical(t) => t[2] = "loop"
  BY HappenedGrows DEF Locked, Unless
\* Nobody becomes a holder, and the lock stays set.
<1>1. ASSUME lock => lock',
             \A t \in Threads : (Holder(t)' => Holder(t)) /\ (Critical(t)' => Critical(t))
      PROVE  Locked'
  BY <1>0, <1>1 DEF Locked
\* t lets go of the lock.
<1>2. ASSUME NEW t \in Threads, Holder(t), ~Holder(t)',
             \A u \in Threads : u # t => pc'[u] = pc[u]
      PROVE  Locked'
  BY <1>0, <1>2 DEF Locked, Holder, Critical
\* t finds the lock free and takes it.
<1>3. ASSUME NEW t \in Threads, ~lock, lock', Critical(t)' => t[2] = "loop", \A u \in Threads : u # t => pc'[u] = pc[u]
      PROVE  Locked'
  BY <1>0, <1>3 DEF Locked, Holder, Critical
<1>4. ASSUME NEW t \in Threads, Reconcile(t) PROVE Locked'
  <2>1. CASE AcquireLock(t)
    <3>1. CASE lock
      BY <1>1, <2>1, <3>1, ThreadsOf DEF AcquireLock, Goto, After, Holder, Critical
    <3>2. CASE ~lock
      <4>1. t[2] = "loop"
        BY <1>0, <2>1, <3>2, ThreadsOf DEF AcquireLock, Goto, Holder
      <4> QED
        BY <1>3, <2>1, <3>2, <4>1 DEF AcquireLock, Goto
    <3> QED
      BY <3>1, <3>2
  <2>2. CASE ScanKeys(t) \/ UpdateCount(t) \/ RestoreDelta(t) \/ NextStage(t)
    BY <1>1, <2>2 DEF ScanKeys, UpdateCount, RestoreDelta, NextStage, Goto, Holder, Critical
  <2>3. CASE AtomicGetDel(t)
    BY <1>1, <2>3 DEF AtomicGetDel, Goto, Holder, Critical
  <2>4. CASE ReleaseLock(t)
    <3>1. CASE t[2] = "loop"
      BY <1>2, <2>4, <3>1 DEF ReleaseLock, Goto, After, Holder, Critical
    <3>2. CASE t[2] = "stop"
      BY <1>0, <2>4, <3>2 DEF ReleaseLock, Goto, After, Holder, Critical
    <3> QED
      BY <3>1, <3>2, ThreadsOf
  <2> QED
    BY <1>4, <2>1, <2>2, <2>3, <2>4 DEF Reconcile
<1>5. ASSUME NEW t \in Threads, ReconcileFault(t) PROVE Locked'
  <2>1. UpdateFails(t) \/ UpdateUnanswered(t)
    BY <1>5 DEF ReconcileFault, AcquireDisturbed, ScanFails, GetDelDisturbed,
                RestoreDisturbed, ReleaseDisturbed, Fault, Unless
  <2> QED
    BY <1>1, <2>1 DEF UpdateFails, UpdateUnanswered, Goto, Holder, Critical
<1>6. ASSUME NEW w \in Workers, Tick(<<w, "loop">>) \/ Stop(w) \/ StopFault(w) PROVE Locked'
  <2>1. ASSUME NEW t \in Threads, t[2] = "loop", Tick(t) PROVE Locked'
    BY <1>1, <2>1 DEF Tick, Goto, Holder, Critical
  <2>2. ASSUME NEW t \in Threads, OuterAcquire(t) PROVE Locked'
    <3>1. CASE lock
      BY <1>1, <2>2, <3>1 DEF OuterAcquire, Goto, Holder, Critical
    <3>2. CASE ~lock
      BY <1>3, <2>2, <3>2 DEF OuterAcquire, Goto, Critical
    <3> QED
      BY <3>1, <3>2
  <2>3. ASSUME NEW t \in Threads, t[2] = "stop", OuterRelease(t) PROVE Locked'
    BY <1>2, <2>3 DEF OuterRelease, Goto, Holder, Critical
  <2>4. CASE LoopReturns(w)
    BY <1>1, <2>4, ThreadsOf DEF LoopReturns, Goto, Holder, Critical
  <2>5. CASE Exit(w) \/ Crash(w)
    <3>1. UNCHANGED lock
      BY <2>5 DEF Exit, Crash
    <3>2. \A t \in Threads : (Holder(t)' => Holder(t)) /\ (Critical(t)' => Critical(t))
      BY <2>5, EndType DEF Holder, Critical
    <3> QED
      BY <1>1, <3>1, <3>2
  <2>6. CASE Terminate(w)
    BY <1>1, <2>6, ThreadsOf DEF Terminate, Goto, Holder, Critical
  <2>7. ~OuterAcquireDisturbed(<<w, "stop">>)
    BY DEF OuterAcquireDisturbed, Fault, Unless
  <2>8. <<w, "loop">>[2] = "loop" /\ <<w, "stop">>[2] = "stop"
    OBVIOUS
  <2> QED
    BY <1>6, <2>1, <2>2, <2>3, <2>4, <2>5, <2>6, <2>7, <2>8, ThreadsOf DEF Stop, StopFault
<1>7. ASSUME NEW k \in Keys, CountRow(k) PROVE Locked'
  BY <1>1, <1>7 DEF CountRow, threadVars, Holder, Critical
<1>8. CASE LeakedLockExpires
  BY <1>0, <1>8 DEF LeakedLockExpires, threadVars, Holder, Critical, Locked
<1>9. ~LockExpires
  BY DEF LockExpires, Fault, Unless
<1>10. CASE UNCHANGED vars
  BY <1>1, <1>10 DEF vars, threadVars, Holder, Critical
<1> QED
  BY <1>4, <1>5, <1>6, <1>7, <1>8, <1>9, <1>10 DEF Next

\* As long as no reconciliation outlives the lock and no reply of Redis is
\* lost, the threads that act under the lock are never two, whatever crashes,
\* exits and failed UPDATEs there are.
THEOREM LockExcludes == Spec => []MutualExclusion
<1>1. Init => Locked
  BY ThreadsOf DEF Init, Locked, Holder, Critical
<1>2. Locked => MutualExclusion
  BY DEF Locked, MutualExclusion
<1> QED
  BY <1>1, <1>2, LockedStep, TypeCorrect, PTL DEF Spec

\* Stop's "final reconciliation" never takes place: the lock that Stop has
\* just set turns reconcile() away.
THEOREM StopNeverReconciles ==
  Spec => [](Unless({"slow", "redis"}) \/ \A t \in Threads : Critical(t) => t[2] = "loop")
<1>1. Init => Locked
  BY ThreadsOf DEF Init, Locked, Holder, Critical
<1>2. Locked => Unless({"slow", "redis"}) \/ \A t \in Threads : Critical(t) => t[2] = "loop"
  BY DEF Locked
<1> QED
  BY <1>1, <1>2, LockedStep, TypeCorrect, PTL DEF Spec

-----------------------------------------------------------------------------
(***************************************************************************)
(* Counting.                                                               *)
(***************************************************************************)

\* Adding n pairs of a thread that has none.
LEMMA AddPairs ==
  ASSUME NEW S, IsFiniteSet(S), NEW t, NEW n \in Nat, \A i \in 1..n : <<t, i>> \notin S
  PROVE  /\ IsFiniteSet(S \cup ({t} \X (1..n)))
         /\ Cardinality(S \cup ({t} \X (1..n))) = Cardinality(S) + n
<1> DEFINE P == {t} \X (1..n)
<1>1. IsFiniteSet({t}) /\ Cardinality({t}) = 1
  BY FS_Singleton
<1>2. IsFiniteSet(1..n) /\ Cardinality(1..n) = n
  BY FS_Interval
<1>3. IsFiniteSet(P) /\ Cardinality(P) = Cardinality({t}) * Cardinality(1..n)
  BY <1>1, <1>2, FS_Product
<1>4. Cardinality(P) = n
  BY <1>1, <1>2, <1>3
<1>5. S \cap P = {}
  OBVIOUS
<1>6. Cardinality({}) = 0
  BY FS_EmptySet
<1>7. Cardinality(S) \in Nat
  BY FS_CardinalityType
<1> HIDE DEF P
<1>8. /\ IsFiniteSet(S \cup P)
      /\ Cardinality(S \cup P) = Cardinality(S) + Cardinality(P) - Cardinality(S \cap P)
  BY <1>3, FS_Union
<1>9. Cardinality(S \cap P) = 0
  BY <1>5, <1>6, Zenon
<1>10. Cardinality(S \cup P) = Cardinality(S) + n
  BY <1>4, <1>7, <1>8, <1>9
<1> QED
  BY <1>8, <1>10 DEF P

\* Dropping the n pairs of a thread.
LEMMA DropPairs ==
  ASSUME NEW S, IsFiniteSet(S), NEW t, NEW n \in Nat, {t} \X (1..n) \subseteq S,
         NEW R, R = S \ ({t} \X (1..n))
  PROVE  IsFiniteSet(R) /\ Cardinality(S) = Cardinality(R) + n
<1>1. IsFiniteSet(R)
  BY FS_Difference
<1>2. \A i \in 1..n : <<t, i>> \notin R
  OBVIOUS
<1>3. S = R \cup ({t} \X (1..n))
  OBVIOUS
<1>4. Cardinality(R \cup ({t} \X (1..n))) = Cardinality(R) + n
  BY <1>1, <1>2, AddPairs
<1> QED
  BY <1>1, <1>3, <1>4

\* What t has taken from k.
Holds(t, k) == IF key[t] = k THEN taken[t] ELSE 0

LEMMA InFlightIs ==
  ASSUME TypeOK, NEW k
  PROVE  InFlight(k) = {p \in Threads \X Nat : p[2] \in 1..Holds(p[1], k)}
BY DEF InFlight, TypeOK, Holds

LEMMA InFlightIsNext ==
  ASSUME TypeOK', NEW k
  PROVE  InFlight(k)' = {p \in Threads \X Nat : p[2] \in 1..(Holds(p[1], k)')}
BY DEF InFlight, TypeOK, Holds

\* The four ways in which a step changes what the threads hold of k.
LEMMA KeepFlight ==
  ASSUME TypeOK, TypeOK', NEW k, \A u \in Threads : Holds(u, k)' = Holds(u, k)
  PROVE  InFlight(k)' = InFlight(k)
BY InFlightIs, InFlightIsNext

LEMMA TakeFlight ==
  ASSUME TypeOK, TypeOK', NEW k, NEW t \in Threads, Holds(t, k) = 0, Holds(t, k)' \in Nat,
         \A u \in Threads : u # t => Holds(u, k)' = Holds(u, k)
  PROVE  /\ InFlight(k)' = InFlight(k) \cup ({t} \X (1..(Holds(t, k)')))
         /\ \A i \in 1..(Holds(t, k)') : <<t, i>> \notin InFlight(k)
BY InFlightIs, InFlightIsNext

LEMMA PassFlight ==
  ASSUME TypeOK, TypeOK', NEW k, NEW t \in Threads, Holds(t, k)' = 0, Holds(t, k) \in Nat,
         \A u \in Threads : u # t => Holds(u, k)' = Holds(u, k)
  PROVE  /\ InFlight(k)' = InFlight(k) \ ({t} \X (1..Holds(t, k)))
         /\ {t} \X (1..Holds(t, k)) \subseteq InFlight(k)
BY InFlightIs, InFlightIsNext

LEMMA LoseFlight ==
  ASSUME TypeOK, TypeOK', NEW k,
         \A u \in Threads : Holds(u, k)' = Holds(u, k) \/ Holds(u, k)' = 0
  PROVE  InFlight(k)' \subseteq InFlight(k)
BY InFlightIs, InFlightIsNext

\* Only a process that was told to stop has its Stop running.
Stopping == \A w \in Workers : pc[<<w, "stop">>] # "off" => "sigterm" \in happened

\* Every other step leaves alone the Stop of a process that was not told to stop.
LEMMA StopIsOff ==
  ASSUME TypeOK, [Next]_vars, NEW w \in Workers, pc[<<w, "stop">>] = "off",
         ~Terminate(w)
  PROVE  pc'[<<w, "stop">>] = "off"
<1> USE DEF TypeOK
<1>1. <<w, "stop">> \in Threads
  BY ThreadsOf
<1> HIDE DEF Threads
<1>2. ASSUME NEW t \in Threads, Reconcile(t) \/ ReconcileFault(t) PROVE pc'[<<w, "stop">>] = "off"
  BY <1>1, <1>2 DEF Reconcile, AcquireLock, ScanKeys, AtomicGetDel, UpdateCount, RestoreDelta,
       NextStage, ReleaseLock, ReconcileFault, AcquireDisturbed, ScanFails, GetDelDisturbed,
       UpdateFails, UpdateUnanswered, RestoreDisturbed, ReleaseDisturbed, Goto
<1>3. ASSUME NEW v \in Workers, Tick(<<v, "loop">>) \/ Stop(v) PROVE pc'[<<w, "stop">>] = "off"
  <2>1. <<v, "loop">> \in Threads /\ <<v, "stop">> \in Threads
    BY ThreadsOf
  <2>2. CASE Exit(v)
    <3>1. v # w
      BY <2>2 DEF Exit
    <3> QED
      BY <1>1, <2>2, <3>1, EndType
  <2> QED
    BY <1>1, <1>3, <2>1, <2>2 DEF Tick, Stop, OuterAcquire, OuterRelease, LoopReturns, Goto
<1>4. ASSUME NEW v \in Workers, StopFault(v) PROVE pc'[<<w, "stop">>] = "off"
  <2>1. <<v, "stop">> \in Threads
    BY ThreadsOf
  <2>2. CASE Crash(v)
    BY <1>1, <2>2, ThreadsOf DEF Crash, Reset
  <2>3. CASE Terminate(v)
    BY <1>1, <2>1, <2>3 DEF Terminate, Goto
  <2> QED
    BY <1>1, <1>4, <2>1, <2>2, <2>3 DEF StopFault, OuterAcquireDisturbed, Goto
<1> QED
  BY <1>2, <1>3, <1>4 DEF Next, CountRow, LeakedLockExpires, LockExpires, threadVars, vars

LEMMA StoppingStep == TypeOK /\ Stopping /\ [Next]_vars => Stopping'
<1> SUFFICES ASSUME TypeOK, Stopping, [Next]_vars,
                    NEW w \in Workers, pc'[<<w, "stop">>] # "off"
             PROVE  "sigterm" \in happened'
  BY DEF Stopping
<1>1. CASE pc[<<w, "stop">>] # "off"
  BY <1>1, HappenedGrows DEF Stopping
<1>2. CASE pc[<<w, "stop">>] = "off"
  <2>1. Terminate(w)
    BY <1>2, StopIsOff
  <2> QED
    BY <2>1 DEF Terminate, Fault
<1> QED
  BY <1>1, <1>2

\* A step accounts for no more rows than it counts; and for exactly as many,
\* unless a process ends.
Balanced(k) ==
  /\ IsFiniteSet(InFlight(k)')
  /\ \/ Unless({"redis", "db_reply"})'
     \/ /\ Accounted(k)' + total[k] <= Accounted(k) + total'[k]
        /\ \/ Unless({"crash", "sigterm"})' /\ \E w \in Workers : Exit(w) \/ Crash(w)
           \/ Accounted(k)' + total[k] = Accounted(k) + total'[k]

LEMMA BalancedStep ==
  ASSUME TypeOK, TypeOK', Stopping, [Next]_vars, NEW k \in Keys, IsFiniteSet(InFlight(k))
  PROVE  Balanced(k)
<1> DEFINE C  == Cardinality(InFlight(k))
           C1 == Cardinality(InFlight(k)')
<1>1. C \in Nat
  BY FS_CardinalityType
<1>2. /\ count[k] \in Nat /\ delta[k] \in Nat /\ total[k] \in Nat
      /\ count'[k] \in Nat /\ delta'[k] \in Nat /\ total'[k] \in Nat
      /\ \A t \in Threads : Holds(t, k) \in Nat /\ Holds(t, k)' \in Nat
  BY DEF TypeOK, Holds
<1>3. Accounted(k) = count[k] + delta[k] + C /\ Accounted(k)' = count'[k] + delta'[k] + C1
  BY DEF Accounted
<1> HIDE DEF C, C1
\* What the threads hold is not changed.
<1>4. ASSUME \A u \in Threads : Holds(u, k)' = Holds(u, k),
             \/ Unless({"redis", "db_reply"})'
             \/ count'[k] + delta'[k] + total[k] = count[k] + delta[k] + total'[k]
      PROVE  Balanced(k)
  <2>1. InFlight(k)' = InFlight(k)
    BY <1>4, KeepFlight
  <2>2. IsFiniteSet(InFlight(k)') /\ C1 = C
    BY <2>1 DEF C, C1
  <2>3. \/ Unless({"redis", "db_reply"})'
        \/ Accounted(k)' + total[k] = Accounted(k) + total'[k]
    BY <1>1, <1>2, <1>3, <1>4, <2>2
  <2>4. Accounted(k) \in Nat /\ Accounted(k)' \in Nat
    BY <1>1, <1>2, <1>3, <2>2
  <2> QED
    BY <1>2, <2>2, <2>3, <2>4 DEF Balanced
\* t passes on what it holds, to count and delta.
<1>5. ASSUME NEW t \in Threads, Holds(t, k)' = 0,
             \A u \in Threads : u # t => Holds(u, k)' = Holds(u, k),
             \/ Unless({"redis", "db_reply"})'
             \/ /\ count'[k] + delta'[k] = count[k] + delta[k] + Holds(t, k)
                /\ total'[k] = total[k]
      PROVE  Balanced(k)
  <2>1. /\ InFlight(k)' = InFlight(k) \ ({t} \X (1..Holds(t, k)))
        /\ {t} \X (1..Holds(t, k)) \subseteq InFlight(k)
    BY <1>2, <1>5, PassFlight
  <2>2. IsFiniteSet(InFlight(k)') /\ C = C1 + Holds(t, k)
    <3>1. Holds(t, k) \in Nat
      BY <1>2
    <3> QED
      <4> DEFINE S == InFlight(k)
                 R == InFlight(k)'
                 n == Holds(t, k)
      <4>1. IsFiniteSet(S) /\ n \in Nat /\ {t} \X (1..n) \subseteq S /\ R = S \ ({t} \X (1..n))
        BY <2>1, <3>1
      <4> HIDE DEF S, R, n
      <4>2. IsFiniteSet(R) /\ Cardinality(S) = Cardinality(R) + n
        BY ONLY <4>1, DropPairs
      <4> QED
        BY <4>2 DEF C, C1, S, R, n
  <2>3. C1 \in Nat
    BY <2>2, FS_CardinalityType DEF C1
  <2>4. \/ Unless({"redis", "db_reply"})'
        \/ Accounted(k)' + total[k] = Accounted(k) + total'[k]
    BY <1>1, <1>2, <1>3, <1>5, <2>2, <2>3
  <2>5. Accounted(k) \in Nat /\ Accounted(k)' \in Nat
    BY <1>1, <1>2, <1>3, <2>3
  <2> QED
    BY <1>2, <2>2, <2>4, <2>5 DEF Balanced
<1>6. ASSUME NEW j \in Keys, CountRow(j) PROVE Balanced(k)
  <2>1. \A u \in Threads : Holds(u, k)' = Holds(u, k)
    BY <1>6 DEF CountRow, threadVars, Holds
  <2>2. count'[k] + delta'[k] + total[k] = count[k] + delta[k] + total'[k]
    BY <1>2, <1>6 DEF CountRow, TypeOK
  <2> QED
    BY <1>4, <2>1, <2>2
<1>7. ASSUME NEW t \in Threads, AtomicGetDel(t) PROVE Balanced(k)
  <2>1. PICK j \in todo[t] :
          /\ Goto(t, "take", IF delta[j] = 0 THEN "take" ELSE "update")
          /\ key' = [key EXCEPT ![t] = IF delta[j] = 0 THEN NoKey ELSE j]
          /\ taken' = [taken EXCEPT ![t] = delta[j]]
          /\ delta' = [delta EXCEPT ![j] = 0]
          /\ UNCHANGED <<total, count>>
    BY <1>7 DEF AtomicGetDel
  <2>2. Holds(t, k) = 0 /\ taken[t] = 0
    BY <2>1 DEF TypeOK, Goto, Holds
  <2>3. \A u \in Threads : u # t => Holds(u, k)' = Holds(u, k)
    BY <2>1 DEF TypeOK, Holds
  <2>4. j \in Keys
    BY <2>1 DEF TypeOK
  <2>5. CASE j # k
    <3>1. Holds(t, k)' = 0 /\ delta'[k] = delta[k]
      BY <2>1, <2>4, <2>5, ReconciliationAssumption DEF TypeOK, Holds, Keys
    <3> QED
      BY <1>4, <2>1, <2>2, <2>3, <3>1
  <2>6. CASE j = k
    <3>1. Holds(t, k)' = delta[k] /\ delta'[k] = 0
      BY <2>1, <2>4, <2>6 DEF TypeOK, Holds
    <3>2. /\ InFlight(k)' = InFlight(k) \cup ({t} \X (1..delta[k]))
          /\ \A i \in 1..delta[k] : <<t, i>> \notin InFlight(k)
      BY <1>2, <2>2, <2>3, <3>1, TakeFlight
    <3>3. IsFiniteSet(InFlight(k)') /\ C1 = C + delta[k]
      <4> DEFINE W == InFlight(k) \cup ({t} \X (1..delta[k]))
      <4>1. IsFiniteSet(W) /\ Cardinality(W) = C + delta[k]
        BY <1>2, <3>2, AddPairs DEF C
      <4> QED
        BY <3>2, <4>1, Zenon DEF C1
    <3>4. Accounted(k)' = Accounted(k) /\ Accounted(k) \in Nat /\ total'[k] = total[k]
      BY <1>1, <1>2, <1>3, <2>1, <3>1, <3>3
    <3> QED
      BY <1>2, <3>3, <3>4 DEF Balanced
  <2> QED
    BY <2>5, <2>6
<1>8. ASSUME NEW t \in Threads, UpdateCount(t) \/ RestoreDelta(t) \/ RestoreDisturbed(t)
      PROVE  Balanced(k)
  <2>1. /\ key[t] \in Keys
        /\ key' = [key EXCEPT ![t] = NoKey]
        /\ taken' = [taken EXCEPT ![t] = 0]
        /\ UNCHANGED total
    BY <1>8 DEF UpdateCount, RestoreDelta, RestoreDisturbed, Goto, TypeOK
  <2>2. Holds(t, k)' = 0 /\ \A u \in Threads : u # t => Holds(u, k)' = Holds(u, k)
    BY <2>1 DEF TypeOK, Holds
  <2>3. \/ Unless({"redis", "db_reply"})'
        \/ count'[k] + delta'[k] = count[k] + delta[k] + Holds(t, k)
    <3>1. CASE UpdateCount(t)
      BY <1>2, <2>1, <3>1 DEF UpdateCount, TypeOK, Holds
    <3>2. CASE RestoreDelta(t)
      BY <1>2, <2>1, <3>2 DEF RestoreDelta, TypeOK, Holds
    <3>3. CASE RestoreDisturbed(t)
      BY <3>3 DEF RestoreDisturbed, Fault, Unless
    <3> QED
      BY <1>8, <3>1, <3>2, <3>3
  <2> QED
    BY <1>5, <2>1, <2>2, <2>3
<1>9. ASSUME NEW w \in Workers, Exit(w) \/ Crash(w) PROVE Balanced(k)
  <2>1. \A u \in Threads : Holds(u, k)' = Holds(u, k) \/ Holds(u, k)' = 0
    BY <1>9, EndType DEF Holds
  <2>2. InFlight(k)' \subseteq InFlight(k)
    BY <2>1, LoseFlight
  <2>3. IsFiniteSet(InFlight(k)') /\ C1 <= C
    BY <2>2, FS_Subset DEF C, C1
  <2>4. C1 \in Nat
    BY <2>3, FS_CardinalityType DEF C1
  <2>5. UNCHANGED <<total, delta, count>>
    BY <1>9 DEF Exit, Crash
  <2>6. Unless({"crash", "sigterm"})'
    <3>1. CASE Exit(w)
      BY <3>1, HappenedGrows DEF Exit, Stopping, Unless
    <3>2. CASE Crash(w)
      BY <3>2 DEF Crash, Fault, Unless
    <3> QED
      BY <1>9, <3>1, <3>2
  <2>7. Accounted(k)' + total[k] <= Accounted(k) + total'[k]
    BY <1>1, <1>2, <1>3, <2>3, <2>4, <2>5
  <2> QED
    BY <1>9, <2>3, <2>6, <2>7 DEF Balanced
\* Every other step leaves alone what this is about, or has lost a reply.
<1>10. ASSUME UNCHANGED <<key, taken, total>>,
              Unless({"redis", "db_reply"})' \/ UNCHANGED <<count, delta>>
       PROVE  Balanced(k)
  BY <1>2, <1>4, <1>10 DEF Holds
<1>11. ASSUME NEW t \in Threads, Reconcile(t) PROVE Balanced(k)
  <2>1. CASE AcquireLock(t) \/ ScanKeys(t) \/ NextStage(t) \/ ReleaseLock(t)
    BY <1>10, <2>1 DEF AcquireLock, ScanKeys, NextStage, ReleaseLock
  <2> QED
    BY <1>7, <1>8, <1>11, <2>1 DEF Reconcile
<1>12. ASSUME NEW t \in Threads, ReconcileFault(t) PROVE Balanced(k)
  <2>1. CASE ~RestoreDisturbed(t)
    BY <1>10, <1>12, <2>1 DEF ReconcileFault, AcquireDisturbed, ScanFails, GetDelDisturbed,
         UpdateFails, UpdateUnanswered, ReleaseDisturbed, Fault, Unless
  <2> QED
    BY <1>8, <2>1
<1>13. ASSUME NEW w \in Workers, Tick(<<w, "loop">>) \/ Stop(w) \/ StopFault(w)
       PROVE  Balanced(k)
  <2>1. CASE ~Exit(w) /\ ~Crash(w)
    BY <1>10, <1>13, <2>1 DEF Tick, Stop, OuterAcquire, OuterRelease, LoopReturns, StopFault,
         Terminate, OuterAcquireDisturbed
  <2> QED
    BY <1>9, <2>1
<1>14. CASE LeakedLockExpires \/ LockExpires \/ UNCHANGED vars
  BY <1>10, <1>14 DEF LeakedLockExpires, LockExpires, vars, threadVars
<1> QED
  BY <1>6, <1>11, <1>12, <1>13, <1>14 DEF Next

\* What the two properties rest on, of one key.
CountedOnce(k) ==
  /\ IsFiniteSet(InFlight(k))
  /\ Unless({"redis", "db_reply"}) \/ Accounted(k) <= total[k]

CountedAll(k) ==
  Unless({"redis", "db_reply", "crash", "sigterm"}) \/ Accounted(k) = total[k]

Counting == Stopping /\ \A k \in Keys : CountedOnce(k) /\ CountedAll(k)

LEMMA CountingInit == Init => Counting
<1> SUFFICES ASSUME Init PROVE Counting
  OBVIOUS
<1>1. Stopping
  BY ThreadsOf DEF Init, Stopping
<1>2. ASSUME NEW k \in Keys PROVE CountedOnce(k) /\ CountedAll(k)
  <2>1. InFlight(k) = {}
    BY <1>2 DEF Init, InFlight
  <2>2. IsFiniteSet(InFlight(k)) /\ Cardinality(InFlight(k)) = 0
    BY <2>1, FS_EmptySet, Zenon
  <2>3. Accounted(k) = 0 /\ total[k] = 0
    BY <1>2, <2>2 DEF Init, Accounted
  <2> QED
    BY <2>2, <2>3 DEF CountedOnce, CountedAll
<1> QED
  BY <1>1, <1>2 DEF Counting

LEMMA CountingStep == TypeOK /\ TypeOK' /\ Counting /\ [Next]_vars => Counting'
<1> SUFFICES ASSUME TypeOK, TypeOK', Counting, [Next]_vars PROVE Counting'
  OBVIOUS
<1>1. Stopping'
  BY StoppingStep DEF Counting
<1>2. ASSUME NEW k \in Keys PROVE CountedOnce(k)' /\ CountedAll(k)'
  <2>1. CountedOnce(k) /\ CountedAll(k)
    BY <1>2 DEF Counting
  <2>2. Balanced(k)
    BY <1>2, <2>1, BalancedStep DEF Counting, CountedOnce
  <2>3. IsFiniteSet(InFlight(k)) /\ IsFiniteSet(InFlight(k)')
    BY <2>1, <2>2 DEF CountedOnce, Balanced
  <2>4. Accounted(k) \in Nat /\ Accounted(k)' \in Nat /\ total[k] \in Nat /\ total'[k] \in Nat
    <3>1. Cardinality(InFlight(k)) \in Nat /\ Cardinality(InFlight(k)') \in Nat
      BY <2>3, FS_CardinalityType
    <3> QED
      BY <1>2, <3>1 DEF Accounted, TypeOK
  <2>5. ASSUME NEW kinds, Unless(kinds) PROVE Unless(kinds)'
    BY <2>5, HappenedGrows DEF Unless
  <2>6. Unless({"redis", "db_reply"})' \/ Accounted(k)' <= total'[k]
    BY <2>1, <2>2, <2>4, <2>5 DEF Balanced, CountedOnce
  <2>7. CountedAll(k)'
    <3> SUFFICES ASSUME ~Unless({"redis", "db_reply", "crash", "sigterm"})'
                 PROVE  Accounted(k)' = total'[k]
      BY DEF CountedAll
    <3>1. ~Unless({"redis", "db_reply"})' /\ ~Unless({"crash", "sigterm"})'
      BY DEF Unless
    <3>2. Accounted(k) = total[k]
      BY <2>1, <2>5 DEF CountedAll
    <3> QED
      BY <2>2, <2>4, <3>1, <3>2 DEF Balanced
  <2> QED
    BY <2>3, <2>6, <2>7 DEF CountedOnce
<1> QED
  BY <1>1, <1>2 DEF Counting

\* As long as no reply is lost, no row is counted twice, however many threads
\* reconcile at a time and whatever crashes, exits, failed UPDATEs and expired
\* locks there are.
THEOREM NeverCountedTwice == Spec => []NeverOvercounts
<1>1. Counting => NeverOvercounts
  BY DEF Counting, CountedOnce, NeverOvercounts
<1> QED
  BY <1>1, CountingInit, CountingStep, TypeCorrect, PTL DEF Spec

\* If no process ends either, no row is lost.
THEOREM NoDeltaIsLost == Spec => []Conserved
<1>1. Counting => Conserved
  BY DEF Counting, CountedAll, Conserved
<1> QED
  BY <1>1, CountingInit, CountingStep, TypeCorrect, PTL DEF Spec

-----------------------------------------------------------------------------
(***************************************************************************)
(* Refinement.                                                             *)
(***************************************************************************)
LEMMA PendingIs ==
  ASSUME TypeOK, TypeOK', Counting, Counting'
  PROVE  /\ Pending \in [Keys -> Nat] /\ Pending' \in [Keys -> Nat]
         /\ \A k \in Keys : /\ Accounted(k) = count[k] + Pending[k]
                            /\ Accounted(k)' = count'[k] + Pending'[k]
<1>1. ASSUME NEW k \in Keys
      PROVE  Cardinality(InFlight(k)) \in Nat /\ Cardinality(InFlight(k)') \in Nat
  <2>1. IsFiniteSet(InFlight(k)) /\ IsFiniteSet(InFlight(k)')
    BY <1>1 DEF Counting, CountedOnce
  <2> QED
    BY <2>1, FS_CardinalityType
<1> QED
  BY <1>1 DEF Pending, Accounted, TypeOK

\* A step of Reconciliation is a step of Counter.
LEMMA CounterStep ==
  ASSUME TypeOK, TypeOK', Counting, Counting', [Next]_vars
  PROVE  [Abstract!Next]_(Abstract!vars)
<1> SUFFICES ASSUME ~Unless({"redis", "db_reply"})'
             PROVE  Abstract!Next \/ UNCHANGED <<total, count, Pending>>
  BY DEF Abstract!Next, Abstract!vars
<1>1. /\ Pending \in [Keys -> Nat] /\ Pending' \in [Keys -> Nat]
      /\ total \in [Keys -> Nat] /\ total' \in [Keys -> Nat]
      /\ count \in [Keys -> Nat] /\ count' \in [Keys -> Nat]
  BY PendingIs DEF TypeOK
<1>2. \A k \in Keys : Balanced(k)
  BY BalancedStep DEF Counting, CountedOnce
<1>3. ASSUME NEW k \in Keys
      PROVE  count'[k] + Pending'[k] + total[k] <= count[k] + Pending[k] + total'[k]
  BY <1>1, <1>2, PendingIs DEF Balanced
<1>4. \/ Unless({"crash", "sigterm"})' /\ \E w \in Workers : Exit(w) \/ Crash(w)
      \/ \A k \in Keys : count'[k] + Pending'[k] + total[k] = count[k] + Pending[k] + total'[k]
  BY <1>1, <1>2, PendingIs DEF Balanced
<1> HIDE DEF Pending
\* A process ends.
<1>5. CASE Unless({"crash", "sigterm"})' /\ \E w \in Workers : Exit(w) \/ Crash(w)
  <2>1. UNCHANGED <<total, count>>
    BY <1>5 DEF Exit, Crash
  <2>2. \A k \in Keys : Pending'[k] <= Pending[k]
    BY <1>1, <1>3, <2>1
  <2> QED
    BY <1>1, <1>5, <2>1, <2>2 DEF Abstract!Next, Abstract!Lose
<1>6. CASE \A k \in Keys : count'[k] + Pending'[k] + total[k] = count[k] + Pending[k] + total'[k]
  <2>1. ASSUME NEW j \in Keys, CountRow(j) PROVE Abstract!Next
    <3>1. /\ total' = [total EXCEPT ![j] = @ + 1]
          /\ UNCHANGED count
      BY <2>1 DEF CountRow
    <3>2. Pending' = [Pending EXCEPT ![j] = @ + 1]
      BY <1>1, <1>6, <3>1
    <3> QED
      BY <3>1, <3>2 DEF Abstract!Next, Abstract!Count
  <2>2. ASSUME NEW t \in Threads, UpdateCount(t) PROVE Abstract!Next
    <3>1. /\ key[t] \in Keys /\ taken[t] \in Nat
          /\ count' = [count EXCEPT ![key[t]] = @ + taken[t]]
          /\ UNCHANGED total
      BY <2>2 DEF UpdateCount, Goto, TypeOK
    <3>2. PICK j \in Keys, n \in Nat :
            /\ j = key[t] /\ n = taken[t]
            /\ count' = [count EXCEPT ![j] = @ + n]
            /\ UNCHANGED total
      BY <3>1
    <3>3. ASSUME NEW k \in Keys
          PROVE  Pending'[k] = IF k = j THEN Pending[k] - n ELSE Pending[k]
      <4>1. count'[k] = IF k = j THEN count[k] + n ELSE count[k]
        BY <1>1, <3>2
      <4>2. count'[k] + Pending'[k] + total[k] = count[k] + Pending[k] + total[k]
        BY <1>6, <3>2
      <4> QED
        BY <1>1, <4>1, <4>2
    <3>4. n \in 0..Pending[j]
      BY <1>1, <3>3
    <3>5. Pending' = [Pending EXCEPT ![j] = @ - n]
      BY <1>1, <3>3
    <3>6. Abstract!Show(j, n)
      BY <3>2, <3>4, <3>5 DEF Abstract!Show
    <3> QED
      BY <3>2, <3>4, <3>6 DEF Abstract!Next
  \* Every other step leaves the rows and the counters alone.
  <2>3. ASSUME UNCHANGED <<total, count>> PROVE UNCHANGED <<total, count, Pending>>
    BY <1>1, <1>6, <2>3
  <2>4. ASSUME NEW t \in Threads, Reconcile(t), ~UpdateCount(t) PROVE UNCHANGED <<total, count>>
    BY <2>4 DEF Reconcile, AcquireLock, ScanKeys, AtomicGetDel, RestoreDelta, NextStage,
         ReleaseLock
  <2>5. ASSUME NEW t \in Threads, ReconcileFault(t) PROVE UNCHANGED <<total, count>>
    BY <2>5 DEF ReconcileFault, AcquireDisturbed, ScanFails, GetDelDisturbed, UpdateFails,
         UpdateUnanswered, RestoreDisturbed, ReleaseDisturbed, Fault, Unless
  <2>6. ASSUME NEW w \in Workers, Tick(<<w, "loop">>) \/ Stop(w) \/ StopFault(w)
        PROVE  UNCHANGED <<total, count>>
    BY <2>6 DEF Tick, Stop, OuterAcquire, OuterRelease, LoopReturns, Exit, StopFault, Terminate,
         OuterAcquireDisturbed, Crash
  <2>7. CASE LeakedLockExpires \/ LockExpires \/ UNCHANGED vars
    BY <2>3, <2>7 DEF LeakedLockExpires, LockExpires, vars
  <2> QED
    BY <2>1, <2>2, <2>3, <2>4, <2>5, <2>6, <2>7 DEF Next
<1> QED
  BY <1>4, <1>5, <1>6

\* Reconciliation implements Counter: what its readers see of the counters is
\* a counter that shows every counted row once, sooner or later, whatever the
\* lock, the passes and the compensation of failed UPDATEs are doing.
THEOREM ReconciliationCounts == Spec => ImplementsCounter
<1>1. Init => Abstract!Init
  <2> SUFFICES ASSUME Init PROVE Abstract!Init
    OBVIOUS
  <2>1. ASSUME NEW k \in Keys PROVE delta[k] + Cardinality(InFlight(k)) = 0
    <3>1. InFlight(k) = {}
      BY <2>1 DEF Init, InFlight
    <3>2. Cardinality(InFlight(k)) = 0
      BY <3>1, FS_EmptySet, Zenon
    <3> QED
      BY <2>1, <3>2 DEF Init
  <2> QED
    BY <2>1 DEF Init, Abstract!Init, Pending
<1> QED
  BY <1>1, CounterStep, CountingInit, CountingStep, TypeCorrect, PTL DEF Spec, Abstract!Spec, ImplementsCounter

=============================================================================
