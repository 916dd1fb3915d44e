---------------------------- MODULE SyncLoopProofs ----------------------------
(***************************************************************************)
(* Proofs about SyncLoop, for any number of RedisClusters, workers,        *)
(* goroutines, retries and events.                                         *)
(***************************************************************************)
EXTENDS SyncLoop, TLAPS

\* What Add does to the types of the queue, whoever calls it.
LEMMA AddType ==
    ASSUME TypeOK, NEW k \in Keys, Add(k)
    PROVE  queue' \in Seq(Keys) /\ dirty' \in SUBSET Keys /\ processing' \in SUBSET Keys
<1>1. queue \in Seq(Keys) /\ dirty \in SUBSET Keys /\ processing \in SUBSET Keys
      BY DEF TypeOK
<1>2. Append(queue, k) \in Seq(Keys)
      BY <1>1
<1>3. queue' \in {queue, Append(queue, k)} /\ dirty' \in {dirty, dirty \cup {k}}
      BY DEF Add
<1> QED
      BY <1>1, <1>2, <1>3 DEF Add

\* Every step keeps the variables in their types; in particular a failure
\* counter never passes maxRetries, because handleErr counts only below it.
LEMMA TypeStep == TypeOK /\ StagesMatch /\ [Next]_vars => TypeOK'
<1> SUFFICES ASSUME TypeOK, StagesMatch, [Next]_vars PROVE TypeOK'
    OBVIOUS
<1> USE ConstantsAssumption
<1> USE DEF queueVars, delayVars, storeVars, noteVars, procVars, seenVars, StsKinds, Stages
<1>1. ASSUME NEW k \in Keys, RedisClusterChanges(k) PROVE TypeOK'
  <2>1. rcVersion' \in [Keys -> Nat]
        BY <1>1 DEF TypeOK, RedisClusterChanges
  <2>2. rcNotes' \in [Keys -> Nat]
        BY <1>1 DEF TypeOK, RedisClusterChanges
  <2>3. rcPresent' \in [Keys -> BOOLEAN]
        BY <1>1 DEF TypeOK, RedisClusterChanges
  <2> QED
        BY <1>1, <2>1, <2>2, <2>3 DEF TypeOK, RedisClusterChanges
<1>2. ASSUME NEW k \in Keys, StatefulSetChanges(k) PROVE TypeOK'
  <2>1. PICK kind \in StsKinds :
           /\ stsPresent' = [stsPresent EXCEPT ![k] = (kind # "delete")]
           /\ stsVersion' = [stsVersion EXCEPT ![k] = IF kind = "other" THEN @ ELSE @ + 1]
           /\ stsNotes' = [stsNotes EXCEPT ![k] = Append(@, kind)]
        BY <1>2 DEF StatefulSetChanges
  <2>2. stsPresent' \in [Keys -> BOOLEAN]
        BY <2>1 DEF TypeOK
  <2>3. stsVersion' \in [Keys -> Nat]
        BY <2>1 DEF TypeOK
  <2>4. Append(stsNotes[k], kind) \in Seq(StsKinds)
        BY DEF TypeOK
  <2>5. stsNotes' \in [Keys -> Seq(StsKinds)]
        BY <2>1, <2>4 DEF TypeOK
  <2> QED
        BY <1>2, <2>2, <2>3, <2>5 DEF TypeOK, StatefulSetChanges
<1>3. ASSUME NEW k \in Keys, Resync(k) PROVE TypeOK'
  <2>1. rcNotes' \in [Keys -> Nat]
        BY <1>3 DEF TypeOK, Resync
  <2> QED
        BY <1>3, <2>1 DEF TypeOK, Resync
<1>4. ASSUME NEW k \in Keys, HandleRedisCluster(k) PROVE TypeOK'
  <2>1. rcNotes' \in [Keys -> Nat]
        BY <1>4 DEF TypeOK, HandleRedisCluster
  <2>2. queue' \in Seq(Keys) /\ dirty' \in SUBSET Keys /\ processing' \in SUBSET Keys
        BY <1>4, AddType DEF HandleRedisCluster
  <2> QED
        BY <1>4, <2>1, <2>2 DEF TypeOK, HandleRedisCluster
<1>5. ASSUME NEW k \in Keys, HandleStatefulSet(k) PROVE TypeOK'
  <2>1. Tail(stsNotes[k]) \in Seq(StsKinds)
        BY <1>5 DEF TypeOK, HandleStatefulSet
  <2>2. stsNotes' \in [Keys -> Seq(StsKinds)]
        BY <1>5, <2>1 DEF TypeOK, HandleStatefulSet
  <2>3. Add(k) \/ UNCHANGED queueVars
        BY <1>5 DEF HandleStatefulSet
  <2>4. queue' \in Seq(Keys) /\ dirty' \in SUBSET Keys /\ processing' \in SUBSET Keys
        BY <2>3, AddType DEF TypeOK
  <2> QED
        BY <1>5, <2>2, <2>4 DEF TypeOK, HandleStatefulSet
<1>6. ASSUME NEW k \in Keys, FireWaiting(k) PROVE TypeOK'
      BY <1>6, AddType DEF TypeOK, FireWaiting
<1>7. CASE ReceiveWaiting
  <2>1. Head(waitingForAddCh) \in Keys /\ Tail(waitingForAddCh) \in Seq(Keys)
        BY <1>7 DEF TypeOK, ReceiveWaiting
  <2>2. Add(Head(waitingForAddCh)) \/ UNCHANGED queueVars
        BY <1>7 DEF ReceiveWaiting
  <2>3. queue' \in Seq(Keys) /\ dirty' \in SUBSET Keys /\ processing' \in SUBSET Keys
        BY <2>1, <2>2, AddType DEF TypeOK
  <2>4. waitingForQueue' \in SUBSET Keys /\ waitingForAddCh' \in Seq(Keys)
        BY <1>7, <2>1 DEF TypeOK, ReceiveWaiting
  <2> QED
        BY <1>7, <2>3, <2>4 DEF TypeOK, ReceiveWaiting
<1>8. ASSUME NEW w \in Workers, Get(w) PROVE TypeOK'
  <2>1. Head(queue) \in Keys /\ Tail(queue) \in Seq(Keys)
        BY <1>8 DEF TypeOK, Get
  <2>2. worker' \in [Workers -> Keys \cup {NoKey}]
        BY <1>8, <2>1 DEF TypeOK, Get
  <2> QED
        BY <1>8, <2>1, <2>2 DEF TypeOK, Get
<1>9. ASSUME NEW w \in Workers, processNextWorkItem(w) PROVE TypeOK'
      BY <1>9 DEF TypeOK, processNextWorkItem
<1>10. ASSUME NEW g \in Goroutines, GetRedisCluster(g) PROVE TypeOK'
      BY <1>10 DEF TypeOK, GetRedisCluster
<1>11. ASSUME NEW g \in Goroutines, GetStatefulSet(g) PROVE TypeOK'
      BY <1>11 DEF TypeOK, GetStatefulSet
<1>12. ASSUME NEW g \in Goroutines, SyncReturns(g) \/ SyncHangs(g) PROVE TypeOK'
      BY <1>12 DEF TypeOK, SyncReturns, SyncHangs
<1>13. ASSUME NEW g \in Goroutines, handleErr(g) PROVE TypeOK'
  <2>1. gkey[g] \in Keys
        BY <1>13 DEF TypeOK, StagesMatch, handleErr
  <2>2. failures' \in [Keys -> 0..MaxRetries]
    <3>1. failures[gkey[g]] \in 0..MaxRetries
          BY <2>1 DEF TypeOK
    <3>2. PICK f \in 0..MaxRetries : failures' = [failures EXCEPT ![gkey[g]] = f]
          BY <1>13, <3>1 DEF handleErr
    <3> QED
          BY <3>2, <2>1 DEF TypeOK
  <2>3. Append(waitingForAddCh, gkey[g]) \in Seq(Keys)
        BY <2>1 DEF TypeOK
  <2>4. waitingForAddCh' \in {waitingForAddCh, Append(waitingForAddCh, gkey[g])}
        BY <1>13 DEF handleErr, AddAfter
  <2>5. gpc' \in [Goroutines -> Stages]
        BY <1>13 DEF TypeOK, handleErr
  <2> QED
        BY <1>13, <2>2, <2>3, <2>4, <2>5 DEF TypeOK, handleErr
<1>14. ASSUME NEW g \in Goroutines, DeferredDone(g) PROVE TypeOK'
  <2>1. queue' \in Seq(Keys)
        BY <1>14 DEF TypeOK, DeferredDone, Done
  <2>2. gpc' \in [Goroutines -> Stages] /\ gkey' \in [Goroutines -> Keys \cup {NoKey}]
        BY <1>14 DEF TypeOK, DeferredDone
  <2>3. dirty' = dirty /\ processing' \in SUBSET Keys
        BY <1>14 DEF TypeOK, DeferredDone, Done
  <2> QED
        BY <1>14, <2>1, <2>2, <2>3 DEF TypeOK, DeferredDone
<1>15. CASE ShutDown
      BY <1>15 DEF TypeOK, ShutDown
<1>16. CASE Restart
  <2>1. /\ queue' \in Seq(Keys) /\ waitingForAddCh' \in Seq(Keys)
        /\ dirty' \in SUBSET Keys /\ processing' \in SUBSET Keys
        /\ waitingForQueue' \in SUBSET Keys
        BY <1>16 DEF Restart
  <2>2. rcNotes' \in [Keys -> Nat] /\ failures' \in [Keys -> 0..MaxRetries]
        BY <1>16 DEF Restart
  <2>3. <<"add">> \in Seq(StsKinds) /\ <<>> \in Seq(StsKinds)
        OBVIOUS
  <2>4. stsNotes' \in [Keys -> Seq(StsKinds)]
        BY <1>16, <2>3, Zenon DEF Restart
  <2>5. /\ worker' \in [Workers -> Keys \cup {NoKey}]
        /\ gkey' \in [Goroutines -> Keys \cup {NoKey}]
        /\ gpc' \in [Goroutines -> Stages] /\ gerr' \in [Goroutines -> BOOLEAN]
        BY <1>16 DEF Restart
  <2>6. rcSeen' \in [Keys -> Nat] /\ stsSeen' \in [Keys -> Nat]
        BY <1>16 DEF Restart
  <2>7. restarts \in Nat /\ restarts' = restarts + 1
        BY <1>16 DEF TypeOK, Restart
  <2>8. restarts' \in Nat
        BY <2>7
  <2>9. UNCHANGED storeVars
        BY <1>16 DEF Restart
  <2>10. shuttingDown' \in BOOLEAN
        BY <1>16 DEF Restart
  <2>11. /\ rcPresent' \in [Keys -> BOOLEAN] /\ stsPresent' \in [Keys -> BOOLEAN]
         /\ rcVersion' \in [Keys -> Nat] /\ stsVersion' \in [Keys -> Nat]
        BY <2>9 DEF TypeOK
  <2> QED
        BY <2>1, <2>2, <2>4, <2>5, <2>6, <2>8, <2>10, <2>11, Zenon DEF TypeOK
<1>17. CASE UNCHANGED vars
      BY <1>17 DEF TypeOK, vars
<1> QED
    BY <1>1, <1>2, <1>3, <1>4, <1>5, <1>6, <1>7, <1>8, <1>9, <1>10, <1>11,
       <1>12, <1>13, <1>14, <1>15, <1>16, <1>17
    DEF Next, WorkerStep, GoroutineStep
-----------------------------------------------------------------------------
(***************************************************************************)
(* The discipline of the queue, action by action.                          *)
(***************************************************************************)
\* Add puts a key into the queue only when it is neither marked nor processed.
LEMMA AddFresh ==
    ASSUME TypeOK, QueueIsFresh, NEW k \in Keys, Add(k)
    PROVE  QueueIsFresh' /\ processing' = processing
<1>1. queue \in Seq(Keys)
      BY DEF TypeOK
<1>2. CASE UNCHANGED <<queue, dirty>>
      BY <1>2 DEF QueueIsFresh, Add
<1>3. CASE dirty' = dirty \cup {k} /\ UNCHANGED queue
      BY <1>3 DEF QueueIsFresh, Add
<1>4. CASE /\ k \notin dirty /\ k \notin processing
           /\ dirty' = dirty \cup {k} /\ queue' = Append(queue, k)
  <2>1. /\ Len(queue') = Len(queue) + 1
        /\ \A i \in 1..Len(queue) : queue'[i] = queue[i]
        /\ queue'[Len(queue) + 1] = k
        BY <1>1, <1>4
  <2>2. processing' = processing
        BY DEF Add
  <2>3. Len(queue) \in Nat
        BY <1>1
  <2> QED
        BY <1>4, <2>1, <2>2, <2>3 DEF QueueIsFresh
<1> QED
      BY <1>2, <1>3, <1>4 DEF Add

\* Done puts a key that was marked meanwhile back into the queue; it was not
\* there, because it was being processed.
LEMMA DoneFresh ==
    ASSUME TypeOK, QueueIsFresh, NEW k \in processing, Done(k)
    PROVE  QueueIsFresh'
<1>1. queue \in Seq(Keys) /\ k \in Keys /\ Len(queue) \in Nat
      BY DEF TypeOK
<1>2. \A i \in 1..Len(queue) : queue[i] # k
      BY DEF QueueIsFresh
<1>3. CASE k \notin dirty
      BY <1>3 DEF QueueIsFresh, Done
<1>4. CASE k \in dirty
  <2>1. queue' = Append(queue, k) /\ dirty' = dirty /\ processing' = processing \ {k}
        BY <1>4 DEF Done
  <2>2. /\ Len(queue') = Len(queue) + 1
        /\ \A i \in 1..Len(queue) : queue'[i] = queue[i]
        /\ queue'[Len(queue) + 1] = k
        BY <1>1, <2>1
  <2> QED
        BY <1>1, <1>2, <1>4, <2>1, <2>2 DEF QueueIsFresh
<1> QED
      BY <1>3, <1>4

\* Steps that move no key between the queue, the workers and the goroutines.
LEMMA Idle ==
    ASSUME QueueDiscipline, UNCHANGED <<queue, dirty, processing, worker, gpc, gkey>>
    PROVE  QueueDiscipline'
BY DEF QueueDiscipline, StagesMatch, QueueIsFresh, HeldAreProcessing, OneSyncPerKey

\* A step that only adds a key.
LEMMA Adding ==
    ASSUME TypeOK, QueueDiscipline, NEW k \in Keys, Add(k),
           UNCHANGED <<worker, gpc, gkey>>
    PROVE  QueueDiscipline'
BY AddFresh DEF QueueDiscipline, StagesMatch, HeldAreProcessing, OneSyncPerKey

\* A step of a goroutine that goes on with its key.
LEMMA Running ==
    ASSUME TypeOK, QueueDiscipline, NEW g \in Goroutines, NEW stage \in Stages \ {"free"},
           gpc[g] # "free", gpc' = [gpc EXCEPT ![g] = stage],
           UNCHANGED <<queue, dirty, processing, worker, gkey>>
    PROVE  QueueDiscipline'
<1>1. StagesMatch'
      BY DEF TypeOK, QueueDiscipline, StagesMatch
<1> QED
      BY <1>1 DEF QueueDiscipline, QueueIsFresh, HeldAreProcessing, OneSyncPerKey

\* The first key of the queue is marked and nobody processes it.
LEMMA HeadIsFresh ==
    ASSUME TypeOK, QueueIsFresh, queue # <<>>
    PROVE  /\ Head(queue) = queue[1] /\ Len(queue) \in Nat \ {0}
           /\ Head(queue) \in Keys /\ Head(queue) # NoKey
           /\ Head(queue) \in dirty /\ Head(queue) \notin processing
<1>1. queue \in Seq(Keys)
      BY DEF TypeOK
<1>2. Head(queue) = queue[1] /\ Len(queue) \in Nat \ {0} /\ queue[1] \in Keys
      BY <1>1
<1>3. 1 \in 1..Len(queue)
      BY <1>2
<1>4. queue[1] \in dirty /\ queue[1] \notin processing
      BY <1>3 DEF QueueIsFresh
<1>5. queue[1] # NoKey
      BY <1>2, ConstantsAssumption
<1> QED
      BY <1>2, <1>4, <1>5

\* Get takes a key that nobody holds, because the queue is fresh.
LEMMA GetDiscipline ==
    ASSUME TypeOK, QueueDiscipline, NEW w \in Workers, Get(w)
    PROVE  QueueDiscipline'
<1> DEFINE k == Head(queue)
<1>1. queue \in Seq(Keys) /\ queue # <<>> /\ k = queue[1] /\ Len(queue) \in Nat \ {0}
      BY DEF TypeOK, Get
<1>2. k \in Keys /\ k \notin processing /\ k # NoKey
      BY <1>1, HeadIsFresh DEF QueueDiscipline
<1>3. /\ queue' = Tail(queue) /\ dirty' = dirty \ {k} /\ processing' = processing \cup {k}
      /\ worker' = [worker EXCEPT ![w] = k] /\ worker[w] = NoKey
      /\ UNCHANGED <<gpc, gkey>>
      BY DEF Get
<1>4. /\ Len(queue') = Len(queue) - 1
      /\ \A i \in 1..Len(queue') : queue'[i] = queue[i + 1]
      BY <1>1, <1>3
<1>5. \A i \in 1..Len(queue') : i + 1 \in 1..Len(queue) /\ i + 1 # 1
      BY <1>1, <1>4
<1>6. QueueIsFresh'
  <2>1. \A i \in 1..Len(queue') : queue'[i] # k
        BY <1>1, <1>4, <1>5 DEF QueueDiscipline, QueueIsFresh
  <2>2. \A i \in 1..Len(queue') : queue'[i] \in dirty' /\ queue'[i] \notin processing'
        BY <1>3, <1>4, <1>5, <2>1 DEF QueueDiscipline, QueueIsFresh
  <2>3. \A i, j \in 1..Len(queue') : queue'[i] = queue'[j] => i = j
        BY <1>1, <1>4, <1>5 DEF QueueDiscipline, QueueIsFresh
  <2> QED
        BY <2>2, <2>3 DEF QueueIsFresh
<1>7. HeldAreProcessing'
      BY <1>3 DEF TypeOK, QueueDiscipline, HeldAreProcessing
<1>8. OneSyncPerKey'
  <2>1. \A v \in Workers : worker'[v] = IF v = w THEN k ELSE worker[v]
        BY <1>3 DEF TypeOK
  <2>2. /\ \A v \in Workers : worker[v] # k
        /\ \A g \in Goroutines : gkey[g] # k
        BY <1>2 DEF QueueDiscipline, HeldAreProcessing
  <2> QED
        BY <1>3, <2>1, <2>2 DEF QueueDiscipline, OneSyncPerKey
<1> QED
      BY <1>3, <1>6, <1>7, <1>8 DEF QueueDiscipline, StagesMatch

\* The key moves from the worker to a goroutine that had none.
LEMMA StartDiscipline ==
    ASSUME TypeOK, QueueDiscipline, NEW w \in Workers, processNextWorkItem(w)
    PROVE  QueueDiscipline'
<1>1. PICK g \in Goroutines :
         /\ gpc[g] = "free" /\ gpc' = [gpc EXCEPT ![g] = "start"]
         /\ gkey' = [gkey EXCEPT ![g] = worker[w]]
      BY DEF processNextWorkItem
<1>2. /\ worker[w] # NoKey /\ worker' = [worker EXCEPT ![w] = NoKey]
      /\ UNCHANGED <<queue, dirty, processing>>
      BY DEF processNextWorkItem, queueVars
<1>3. StagesMatch'
      BY <1>1, <1>2 DEF TypeOK, QueueDiscipline, StagesMatch
<1>4. HeldAreProcessing'
      BY <1>1, <1>2 DEF TypeOK, QueueDiscipline, HeldAreProcessing
<1>5. OneSyncPerKey'
      BY <1>1, <1>2 DEF TypeOK, QueueDiscipline, OneSyncPerKey
<1> QED
      BY <1>2, <1>3, <1>4, <1>5 DEF QueueDiscipline, QueueIsFresh

\* Done gives up a key that no one else holds.
LEMMA DoneDiscipline ==
    ASSUME TypeOK, QueueDiscipline, NEW g \in Goroutines, DeferredDone(g)
    PROVE  QueueDiscipline'
<1>1. gkey[g] \in processing /\ gkey[g] # NoKey
      BY DEF TypeOK, QueueDiscipline, StagesMatch, HeldAreProcessing, DeferredDone
<1>2. /\ gpc' = [gpc EXCEPT ![g] = "free"] /\ gkey' = [gkey EXCEPT ![g] = NoKey]
      /\ processing' = processing \ {gkey[g]} /\ UNCHANGED worker
      BY DEF DeferredDone, Done
<1>3. QueueIsFresh'
      BY <1>1, DoneFresh DEF QueueDiscipline, DeferredDone
<1>4. StagesMatch'
      BY <1>2 DEF TypeOK, QueueDiscipline, StagesMatch
<1>5. HeldAreProcessing'
      BY <1>1, <1>2 DEF TypeOK, QueueDiscipline, HeldAreProcessing, OneSyncPerKey
<1>6. OneSyncPerKey'
      BY <1>2 DEF TypeOK, QueueDiscipline, OneSyncPerKey
<1> QED
      BY <1>3, <1>4, <1>5, <1>6 DEF QueueDiscipline

\* Every step keeps the discipline of the queue.
LEMMA DisciplineStep == TypeOK /\ QueueDiscipline /\ [Next]_vars => QueueDiscipline'
<1> SUFFICES ASSUME TypeOK, QueueDiscipline, [Next]_vars PROVE QueueDiscipline'
    OBVIOUS
<1> USE DEF queueVars, procVars
<1>1. ASSUME NEW k \in Keys, RedisClusterChanges(k) \/ StatefulSetChanges(k) \/ Resync(k)
      PROVE QueueDiscipline'
      BY <1>1, Idle DEF RedisClusterChanges, StatefulSetChanges, Resync
<1>2. ASSUME NEW k \in Keys, HandleRedisCluster(k) PROVE QueueDiscipline'
      BY <1>2, Adding DEF HandleRedisCluster
<1>3. ASSUME NEW k \in Keys, HandleStatefulSet(k) PROVE QueueDiscipline'
      BY <1>3, Adding, Idle DEF HandleStatefulSet
<1>4. ASSUME NEW k \in Keys, FireWaiting(k) PROVE QueueDiscipline'
      BY <1>4, Adding DEF FireWaiting
<1>5. CASE ReceiveWaiting
  <2>1. Head(waitingForAddCh) \in Keys
        BY <1>5 DEF TypeOK, ReceiveWaiting
  <2> QED
        BY <1>5, <2>1, Adding, Idle DEF ReceiveWaiting
<1>6. ASSUME NEW w \in Workers, WorkerStep(w) PROVE QueueDiscipline'
      BY <1>6, GetDiscipline, StartDiscipline DEF WorkerStep
<1>7. ASSUME NEW g \in Goroutines, GetRedisCluster(g) PROVE QueueDiscipline'
  <2>1. \E stage \in Stages \ {"free"} : gpc' = [gpc EXCEPT ![g] = stage]
        BY <1>7 DEF GetRedisCluster, Stages
  <2> QED
        BY <1>7, <2>1, Running DEF GetRedisCluster
<1>8. ASSUME NEW g \in Goroutines, GetStatefulSet(g) PROVE QueueDiscipline'
      BY <1>8, Running DEF GetStatefulSet, Stages
<1>9. ASSUME NEW g \in Goroutines, SyncReturns(g) \/ SyncHangs(g) PROVE QueueDiscipline'
      BY <1>9, Running DEF SyncReturns, SyncHangs, Stages
<1>10. ASSUME NEW g \in Goroutines, handleErr(g) PROVE QueueDiscipline'
      BY <1>10, Running DEF handleErr, Stages
<1>11. ASSUME NEW g \in Goroutines, DeferredDone(g) PROVE QueueDiscipline'
      BY <1>11, DoneDiscipline
<1>12. CASE ShutDown
      BY <1>12, Idle DEF ShutDown
<1>13. CASE Restart
      BY <1>13 DEF Restart, QueueDiscipline, StagesMatch, QueueIsFresh,
                   HeldAreProcessing, OneSyncPerKey
<1>14. CASE UNCHANGED vars
      BY <1>14, Idle DEF vars
<1> QED
    BY <1>1, <1>2, <1>3, <1>4, <1>5, <1>6, <1>7, <1>8, <1>9, <1>10, <1>11,
       <1>12, <1>13, <1>14
    DEF Next, GoroutineStep

\* A started operator has an empty queue and idle workers.
LEMMA InitialDiscipline == Init => TypeOK /\ QueueDiscipline
<1> SUFFICES ASSUME Init PROVE TypeOK /\ QueueDiscipline
    OBVIOUS
<1>1. TypeOK
  <2>1. /\ queue \in Seq(Keys) /\ waitingForAddCh \in Seq(Keys)
        /\ dirty \in SUBSET Keys /\ processing \in SUBSET Keys
        /\ waitingForQueue \in SUBSET Keys
        BY DEF Init
  <2>2. /\ rcNotes \in [Keys -> Nat] /\ failures \in [Keys -> 0..MaxRetries]
        /\ rcVersion \in [Keys -> Nat] /\ stsVersion \in [Keys -> Nat]
        /\ rcSeen \in [Keys -> Nat] /\ stsSeen \in [Keys -> Nat] /\ restarts \in Nat
        BY ConstantsAssumption DEF Init
  <2>3. <<>> \in Seq(StsKinds)
        OBVIOUS
  <2>4. stsNotes \in [Keys -> Seq(StsKinds)]
        BY <2>3, Zenon DEF Init
  <2>5. /\ worker \in [Workers -> Keys \cup {NoKey}]
        /\ gkey \in [Goroutines -> Keys \cup {NoKey}]
        /\ gpc \in [Goroutines -> Stages]
        BY DEF Init, Stages
  <2>6. /\ gerr \in [Goroutines -> BOOLEAN] /\ shuttingDown \in BOOLEAN
        /\ rcPresent \in [Keys -> BOOLEAN] /\ stsPresent \in [Keys -> BOOLEAN]
        BY Zenon DEF Init
  <2> QED
        BY <2>1, <2>2, <2>4, <2>5, <2>6, Zenon DEF TypeOK
<1>2. QueueDiscipline
      BY DEF Init, QueueDiscipline, StagesMatch, QueueIsFresh, HeldAreProcessing,
             OneSyncPerKey
<1> QED
      BY <1>1, <1>2

\* The queue lists marked keys that nobody processes, each once, and whoever
\* holds a key processes it alone: the inductive invariant of the loop.
THEOREM DisciplineInvariant == Spec => [](TypeOK /\ QueueDiscipline)
<1>1. TypeOK /\ QueueDiscipline /\ [Next]_vars => TypeOK' /\ QueueDiscipline'
      BY TypeStep, DisciplineStep DEF QueueDiscipline
<1> QED
      BY <1>1, InitialDiscipline, PTL DEF Spec

\* In every run of the loop the variables keep their types: a key never has
\* more counted failures than maxRetries.
THEOREM TypeCorrect == Spec => []TypeOK
BY DisciplineInvariant, PTL

\* "It enforces that the syncHandler is never invoked concurrently with the same
\* key": for any number of keys, workers and goroutines.
THEOREM MutualExclusion == Spec => []OneSyncPerKey
<1>1. TypeOK /\ QueueDiscipline => OneSyncPerKey
      BY DEF QueueDiscipline
<1> QED
      BY <1>1, DisciplineInvariant, PTL
-----------------------------------------------------------------------------
(***************************************************************************)
(* The loop implements KeyedSync: the marks are the dirty set, and a key is *)
(* busy while a worker or a goroutine holds it.                            *)
(***************************************************************************)
\* Held depends only on what the workers and the goroutines hold.
LEMMA HeldUnchanged == UNCHANGED <<worker, gkey>> => Held' = Held
BY DEF Held, Holders, Syncing

\* A step that adds a key marks it, or changes nothing when it is marked already
\* or the queue is shut down.
LEMMA AddMarks ==
    ASSUME NEW k \in Keys, Add(k), UNCHANGED <<worker, gkey>>
    PROVE  [Contract!Next]_<<dirty, Held>>
<1>1. Held' = Held
      BY HeldUnchanged
<1>2. dirty' = dirty \/ dirty' = dirty \cup {k}
      BY DEF Add
<1> QED
      BY <1>1, <1>2 DEF Contract!Next, Contract!Mark

\* Taking a key from the queue is the start of its sync.
LEMMA GetStarts ==
    ASSUME TypeOK, QueueDiscipline, NEW w \in Workers, Get(w)
    PROVE  [Contract!Next]_<<dirty, Held>>
<1> DEFINE k == Head(queue)
<1>1. queue # <<>>
      BY DEF Get
<1>2. k \in Keys /\ k \in dirty /\ k \notin processing /\ k # NoKey
      BY <1>1, HeadIsFresh DEF QueueDiscipline
<1>3. k \notin Held
      BY <1>2 DEF QueueDiscipline, HeldAreProcessing, Held, Holders, Syncing
<1>4. /\ worker' = [worker EXCEPT ![w] = k] /\ worker[w] = NoKey
      /\ dirty' = dirty \ {k} /\ gkey' = gkey
      BY DEF Get
<1>5. ASSUME NEW j \in Keys PROVE j \in Held' <=> j \in Held \/ j = k
  <2>1. j # NoKey
        BY ConstantsAssumption
  <2>2. \A v \in Workers : worker'[v] = IF v = w THEN k ELSE worker[v]
        BY <1>4 DEF TypeOK
  <2> QED
        BY <1>4, <2>1, <2>2 DEF Held, Holders, Syncing
<1>6. Held' = Held \cup {k}
      BY <1>2, <1>5 DEF Held
<1> QED
      BY <1>2, <1>3, <1>4, <1>6 DEF Contract!Next, Contract!Start

\* Starting the goroutine is no step of the contract: the key stays busy.
LEMMA StartStutters ==
    ASSUME TypeOK, QueueDiscipline, NEW w \in Workers, processNextWorkItem(w)
    PROVE  [Contract!Next]_<<dirty, Held>>
<1>1. PICK g \in Goroutines :
         gpc[g] = "free" /\ gkey' = [gkey EXCEPT ![g] = worker[w]]
      BY DEF processNextWorkItem
<1>2. /\ worker[w] # NoKey /\ worker' = [worker EXCEPT ![w] = NoKey]
      /\ dirty' = dirty
      BY DEF processNextWorkItem, queueVars
<1>3. gkey[g] = NoKey
      BY <1>1 DEF QueueDiscipline, StagesMatch
<1>4. worker[w] \in Keys
      BY <1>2 DEF TypeOK
<1>5. ASSUME NEW k \in Keys PROVE k \in Held' <=> k \in Held
  <2>1. k # NoKey
        BY ConstantsAssumption
  <2>2. /\ \A v \in Workers : worker'[v] = IF v = w THEN NoKey ELSE worker[v]
        /\ \A h \in Goroutines : gkey'[h] = IF h = g THEN worker[w] ELSE gkey[h]
        BY <1>1, <1>2 DEF TypeOK
  <2> QED
        BY <1>3, <2>1, <2>2 DEF Held, Holders, Syncing
<1>6. Held' = Held
      BY <1>5 DEF Held
<1> QED
      BY <1>2, <1>6

\* Done ends the sync of the key, which nobody else holds.
LEMMA DoneFinishes ==
    ASSUME TypeOK, QueueDiscipline, NEW g \in Goroutines, DeferredDone(g)
    PROVE  [Contract!Next]_<<dirty, Held>>
<1> DEFINE k == gkey[g]
<1>1. k \in Keys /\ k # NoKey
      BY DEF TypeOK, QueueDiscipline, StagesMatch, DeferredDone
<1>2. gkey' = [gkey EXCEPT ![g] = NoKey] /\ UNCHANGED <<worker, dirty>>
      BY DEF DeferredDone, Done
<1>3. k \in Held
      BY <1>1 DEF Held, Syncing
<1>4. ASSUME NEW j \in Keys PROVE j \in Held' <=> j \in Held /\ j # k
  <2>1. j # NoKey
        BY ConstantsAssumption
  <2>2. \A h \in Goroutines : gkey'[h] = IF h = g THEN NoKey ELSE gkey[h]
        BY <1>2 DEF TypeOK
  <2>3. /\ \A w \in Workers : worker[w] # k
        /\ \A h \in Goroutines : gkey[h] = k => h = g
        BY <1>1 DEF QueueDiscipline, OneSyncPerKey
  <2> QED
        BY <1>2, <2>1, <2>2, <2>3 DEF Held, Holders, Syncing
<1>5. Held' = Held \ {k}
      BY <1>4 DEF Held
<1> QED
      BY <1>1, <1>2, <1>3, <1>5 DEF Contract!Next, Contract!Finish

\* Every step of the loop is a step of the contract or leaves dirty and Held alone.
LEMMA ContractStep ==
    TypeOK /\ QueueDiscipline /\ [Next]_vars => [Contract!Next]_<<dirty, Held>>
<1> SUFFICES ASSUME TypeOK, QueueDiscipline, [Next]_vars
             PROVE  [Contract!Next]_<<dirty, Held>>
    OBVIOUS
<1> USE DEF queueVars, procVars
<1>1. ASSUME NEW k \in Keys, RedisClusterChanges(k) \/ StatefulSetChanges(k) \/ Resync(k)
      PROVE UNCHANGED <<dirty, worker, gkey>>
      BY <1>1 DEF RedisClusterChanges, StatefulSetChanges, Resync
<1>2. ASSUME NEW k \in Keys, HandleRedisCluster(k) \/ FireWaiting(k)
      PROVE [Contract!Next]_<<dirty, Held>>
      BY <1>2, AddMarks DEF HandleRedisCluster, FireWaiting
<1>3. ASSUME NEW k \in Keys, HandleStatefulSet(k) PROVE [Contract!Next]_<<dirty, Held>>
      BY <1>3, AddMarks, HeldUnchanged DEF HandleStatefulSet
<1>4. CASE ReceiveWaiting
  <2>1. Head(waitingForAddCh) \in Keys
        BY <1>4 DEF TypeOK, ReceiveWaiting
  <2> QED
        BY <1>4, <2>1, AddMarks, HeldUnchanged DEF ReceiveWaiting
<1>5. ASSUME NEW w \in Workers, WorkerStep(w) PROVE [Contract!Next]_<<dirty, Held>>
      BY <1>5, GetStarts, StartStutters DEF WorkerStep
<1>6. ASSUME NEW g \in Goroutines,
             GetRedisCluster(g) \/ GetStatefulSet(g) \/ SyncReturns(g) \/ SyncHangs(g)
             \/ handleErr(g)
      PROVE UNCHANGED <<dirty, worker, gkey>>
      BY <1>6 DEF GetRedisCluster, GetStatefulSet, SyncReturns, SyncHangs, handleErr
<1>7. ASSUME NEW g \in Goroutines, DeferredDone(g) PROVE [Contract!Next]_<<dirty, Held>>
      BY <1>7, DoneFinishes
<1>8. CASE ShutDown
      BY <1>8, HeldUnchanged DEF ShutDown
<1>9. CASE Restart
  <2>1. Held' = {} /\ dirty' = {}
        BY <1>9, ConstantsAssumption DEF Restart, Held, Holders, Syncing
  <2> QED
        BY <2>1 DEF Contract!Next, Contract!Reset
<1>10. CASE UNCHANGED vars
      BY <1>10, HeldUnchanged DEF vars
<1> QED
    BY <1>1, <1>2, <1>3, <1>4, <1>5, <1>6, <1>7, <1>8, <1>9, <1>10, HeldUnchanged
    DEF Next, GoroutineStep

\* Every run of the loop is a run of KeyedSync (its safety part): a mark made
\* while a key is synced survives the sync, and a sync starts only for a marked
\* key that is not being synced.
THEOREM Refinement == Spec => Contract!Safety
<1>1. Init => Contract!Init
      BY ConstantsAssumption DEF Init, Contract!Init, Held, Holders, Syncing
<1> QED
      BY <1>1, ContractStep, DisciplineInvariant, PTL
      DEF Spec, Contract!Safety, Contract!vars
=============================================================================
