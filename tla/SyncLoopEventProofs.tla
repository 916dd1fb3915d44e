-------------------------- MODULE SyncLoopEventProofs --------------------------
(***************************************************************************)
(* No event and no retry is lost on its way through the sync loop: proofs  *)
(* of NoLostEvent and RetryPending of SyncLoop, for any number of          *)
(* RedisClusters, workers, goroutines, retries and events.  Both rest on   *)
(* the discipline of the queue (SyncLoopProofs).                           *)
(***************************************************************************)
EXTENDS SyncLoopProofs

\* What Add does to the marks: unless the queue is shut down, the key is marked.
LEMMA AddMarked ==
    ASSUME NEW k \in Keys, Add(k)
    PROVE  /\ dirty \subseteq dirty' /\ processing' = processing
           /\ ~shuttingDown => k \in dirty'
BY DEF Add

\* A marked key, and one that a worker has taken, will be read.
LEMMA WillReadMeans ==
    ASSUME NEW k \in Keys
    PROVE  /\ WillRead(k) <=> \/ k \in dirty
                              \/ \E w \in Workers : worker[w] = k
                              \/ \E g \in Goroutines : gkey[g] = k /\ gpc[g] = "start"
           /\ WillReadSts(k) <=> \/ WillRead(k)
                                 \/ \E g \in Goroutines : gkey[g] = k /\ gpc[g] = "got"
BY DEF WillRead, WillReadSts, Holders, Syncing

\* The same after a step.
LEMMA WillReadNext ==
    ASSUME NEW k \in Keys
    PROVE  /\ WillRead(k)' <=> \/ k \in dirty'
                               \/ \E w \in Workers : worker'[w] = k
                               \/ \E g \in Goroutines : gkey'[g] = k /\ gpc'[g] = "start"
           /\ WillReadSts(k)' <=> \/ WillRead(k)'
                                  \/ \E g \in Goroutines : gkey'[g] = k /\ gpc'[g] = "got"
BY DEF WillRead, WillReadSts, Holders, Syncing

\* Steps of others leave what will be read: nobody unmarks a key or takes it
\* from a worker or a goroutine.
LEMMA StillReads ==
    ASSUME NEW k \in Keys, dirty \subseteq dirty', UNCHANGED <<worker, gpc, gkey>>
    PROVE  (WillRead(k) => WillRead(k)') /\ (WillReadSts(k) => WillReadSts(k)')
BY WillReadMeans, WillReadNext

\* A notification that is handled, or a retry that is due, marks its key: nothing
\* that was going to be read is forgotten.
LEMMA AddReads ==
    ASSUME NEW j \in Keys, Add(j), UNCHANGED <<worker, gpc, gkey>>, NEW k \in Keys
    PROVE  /\ WillRead(k) => WillRead(k)'
           /\ WillReadSts(k) => WillReadSts(k)'
           /\ ~shuttingDown => WillRead(j)' /\ WillReadSts(j)'
BY AddMarked, StillReads, WillReadNext
-----------------------------------------------------------------------------
(***************************************************************************)
(* No event is lost.                                                       *)
(***************************************************************************)
\* A goroutine that goes on from a stage behind the lister takes nothing away
\* from what will be read.
LEMMA BehindTheLister ==
    ASSUME TypeOK, NEW g \in Goroutines, gpc[g] \notin {"start", "got"},
           NEW stage, gpc' = [gpc EXCEPT ![g] = stage],
           dirty' = dirty, UNCHANGED worker,
           \A h \in Goroutines \ {g} : gkey'[h] = gkey[h],
           NEW k \in Keys
    PROVE  (WillRead(k) => WillRead(k)') /\ (WillReadSts(k) => WillReadSts(k)')
<1>1. \A h \in Goroutines \ {g} : gpc'[h] = gpc[h]
      BY DEF TypeOK
<1> QED
      BY <1>1, WillReadMeans, WillReadNext

\* A change of a cached RedisCluster leaves a notification behind.
LEMMA RedisClusterChangeKeepsEvents ==
    ASSUME TypeOK, NoLostEvent, NEW j \in Keys, RedisClusterChanges(j)
    PROVE  NoLostEvent'
<1> SUFFICES ASSUME NEW k \in Keys, rcPresent'[k], ~shuttingDown'
             PROVE  /\ rcSeen'[k] # rcVersion'[k] => rcNotes'[k] > 0 \/ WillRead(k)'
                    /\ stsSeen'[k] # stsVersion'[k] => NoteOnTheWay(k)' \/ WillReadSts(k)'
    BY DEF NoLostEvent
<1> USE DEF queueVars, procVars, seenVars
<1>1. UNCHANGED <<dirty, worker, gpc, gkey, shuttingDown, rcSeen, stsSeen, stsVersion, stsNotes>>
      BY DEF RedisClusterChanges
<1>2. CASE k = j
  <2>1. rcNotes'[k] > 0
        BY <1>2 DEF TypeOK, RedisClusterChanges
  <2> QED
        BY <2>1 DEF NoteOnTheWay
<1>3. CASE k # j
  <2>1. rcPresent[k] /\ rcVersion'[k] = rcVersion[k] /\ rcNotes'[k] = rcNotes[k]
        BY <1>3 DEF TypeOK, RedisClusterChanges
  <2>2. (WillRead(k) => WillRead(k)') /\ (WillReadSts(k) => WillReadSts(k)')
        BY <1>1, StillReads
  <2> QED
        BY <1>1, <2>1, <2>2 DEF NoLostEvent, NoteOnTheWay
<1> QED
      BY <1>2, <1>3

\* A change of a cached StatefulSet leaves a notification that is not dropped
\* for lack of a status change.
LEMMA StatefulSetChangeKeepsEvents ==
    ASSUME TypeOK, NoLostEvent, NEW j \in Keys, StatefulSetChanges(j)
    PROVE  NoLostEvent'
<1> SUFFICES ASSUME NEW k \in Keys, rcPresent'[k], ~shuttingDown'
             PROVE  /\ rcSeen'[k] # rcVersion'[k] => rcNotes'[k] > 0 \/ WillRead(k)'
                    /\ stsSeen'[k] # stsVersion'[k] => NoteOnTheWay(k)' \/ WillReadSts(k)'
    BY DEF NoLostEvent
<1> USE DEF queueVars, procVars, seenVars
<1>1. UNCHANGED <<dirty, worker, gpc, gkey, shuttingDown, rcSeen, stsSeen, rcPresent,
                  rcVersion, rcNotes>>
      BY DEF StatefulSetChanges
<1>2. (WillRead(k) => WillRead(k)') /\ (WillReadSts(k) => WillReadSts(k)')
      BY <1>1, StillReads
<1>3. rcSeen'[k] # rcVersion'[k] => rcNotes'[k] > 0 \/ WillRead(k)'
      BY <1>1, <1>2 DEF NoLostEvent
<1>4. PICK kind \in StsKinds :
         /\ stsVersion' = [stsVersion EXCEPT ![j] = IF kind = "other" THEN @ ELSE @ + 1]
         /\ stsNotes' = [stsNotes EXCEPT ![j] = Append(@, kind)]
      BY DEF StatefulSetChanges
<1>5. stsNotes[j] \in Seq(StsKinds) /\ stsNotes[k] \in Seq(StsKinds)
      BY DEF TypeOK
<1>6. /\ k = j => stsNotes'[k] = Append(stsNotes[k], kind)
      /\ k # j => stsNotes'[k] = stsNotes[k] /\ stsVersion'[k] = stsVersion[k]
      /\ k = j /\ kind = "other" => stsVersion'[k] = stsVersion[k]
      BY <1>4 DEF TypeOK
<1>7. NoteOnTheWay(k) => NoteOnTheWay(k)'
  <2>1. CASE k # j
        BY <1>1, <1>6, <2>1 DEF NoteOnTheWay
  <2>2. CASE k = j
    <3>1. \A i \in DOMAIN stsNotes[k] : i \in DOMAIN stsNotes'[k]
                                        /\ stsNotes'[k][i] = stsNotes[k][i]
          BY <1>5, <1>6, <2>2
    <3> QED
          BY <1>1, <3>1 DEF NoteOnTheWay
  <2> QED
        BY <2>1, <2>2
<1>8. ASSUME k = j, kind # "other" PROVE NoteOnTheWay(k)'
  <2>1. /\ Len(stsNotes[k]) + 1 \in DOMAIN stsNotes'[k]
        /\ stsNotes'[k][Len(stsNotes[k]) + 1] = kind
        BY <1>5, <1>6, <1>8
  <2> QED
        BY <1>8, <2>1 DEF NoteOnTheWay
<1>9. CASE k = j /\ kind # "other"
      BY <1>3, <1>8, <1>9
<1>10. CASE ~(k = j /\ kind # "other")
      BY <1>1, <1>2, <1>3, <1>6, <1>7, <1>10 DEF NoLostEvent
<1> QED
      BY <1>9, <1>10

\* A handler that takes a notification marks the key, unless the notification
\* says nothing new or its RedisCluster is gone.
LEMMA HandlersKeepEvents ==
    ASSUME TypeOK, NoLostEvent, NEW j \in Keys, HandleRedisCluster(j) \/ HandleStatefulSet(j)
    PROVE  NoLostEvent'
<1> SUFFICES ASSUME NEW k \in Keys, rcPresent'[k], ~shuttingDown'
             PROVE  /\ rcSeen'[k] # rcVersion'[k] => rcNotes'[k] > 0 \/ WillRead(k)'
                    /\ stsSeen'[k] # stsVersion'[k] => NoteOnTheWay(k)' \/ WillReadSts(k)'
    BY DEF NoLostEvent
<1> USE DEF queueVars, procVars, seenVars, storeVars
<1>1. UNCHANGED <<worker, gpc, gkey, shuttingDown, rcSeen, stsSeen, rcPresent,
                  rcVersion, stsVersion>>
      BY DEF HandleRedisCluster, HandleStatefulSet
<1>2. (WillRead(k) => WillRead(k)') /\ (WillReadSts(k) => WillReadSts(k)')
      BY <1>1, AddReads, StillReads DEF HandleRedisCluster, HandleStatefulSet
<1>3. CASE HandleRedisCluster(j)
  <2>1. CASE k = j
        BY <1>1, <1>3, <2>1, AddReads DEF HandleRedisCluster
  <2>2. CASE k # j
    <3>1. rcNotes'[k] = rcNotes[k] /\ stsNotes' = stsNotes
          BY <1>3, <2>2 DEF TypeOK, HandleRedisCluster
    <3> QED
          BY <1>1, <1>2, <3>1 DEF NoLostEvent, NoteOnTheWay
  <2> QED
        BY <2>1, <2>2
<1>4. CASE HandleStatefulSet(j)
  <2>1. CASE k = j /\ Head(stsNotes[j]) # "other"
        BY <1>1, <1>4, <2>1, AddReads DEF HandleStatefulSet
  <2>2. CASE ~(k = j /\ Head(stsNotes[j]) # "other")
    <3>1. rcNotes' = rcNotes
          BY <1>4 DEF HandleStatefulSet
    <3>2. NoteOnTheWay(k) => NoteOnTheWay(k)'
      <4>1. stsNotes[k] \in Seq(StsKinds)
            BY DEF TypeOK
      <4>2. CASE k # j
        <5>1. stsNotes'[k] = stsNotes[k]
              BY <1>4, <4>2 DEF TypeOK, HandleStatefulSet
        <5> QED
              BY <3>1, <5>1 DEF NoteOnTheWay
      <4>3. CASE k = j
        <5>1. stsNotes'[k] = Tail(stsNotes[k]) /\ stsNotes[k] # <<>>
              BY <1>4, <4>3 DEF TypeOK, HandleStatefulSet
        <5>2. Head(stsNotes[k]) = "other"
              BY <2>2, <4>3
        <5>3. stsNotes[k][1] = "other"
              BY <4>1, <5>1, <5>2
        <5>4. ASSUME NEW i \in DOMAIN stsNotes[k], stsNotes[k][i] # "other"
              PROVE  i - 1 \in DOMAIN stsNotes'[k] /\ stsNotes'[k][i - 1] = stsNotes[k][i]
              BY <4>1, <5>1, <5>3, <5>4
        <5> QED
              BY <3>1, <5>4 DEF NoteOnTheWay
      <4> QED
            BY <4>2, <4>3
    <3> QED
          BY <1>1, <1>2, <3>1, <3>2 DEF NoLostEvent
  <2> QED
        BY <2>1, <2>2
<1> QED
      BY <1>3, <1>4

\* Taking a key from the queue, and handing it to a goroutine, keeps it on its
\* way to the lister.
LEMMA WorkersKeepEvents ==
    ASSUME TypeOK, QueueDiscipline, NoLostEvent, NEW w \in Workers, WorkerStep(w)
    PROVE  NoLostEvent'
<1> SUFFICES ASSUME NEW k \in Keys, rcPresent'[k], ~shuttingDown'
             PROVE  /\ rcSeen'[k] # rcVersion'[k] => rcNotes'[k] > 0 \/ WillRead(k)'
                    /\ stsSeen'[k] # stsVersion'[k] => NoteOnTheWay(k)' \/ WillReadSts(k)'
    BY DEF NoLostEvent
<1> USE DEF queueVars, seenVars, storeVars, noteVars
<1>1. UNCHANGED <<shuttingDown, rcSeen, stsSeen, rcPresent, rcVersion, stsVersion,
                  rcNotes, stsNotes>>
      BY DEF WorkerStep, Get, processNextWorkItem
<1>2. k # NoKey
      BY ConstantsAssumption
<1>3. (WillRead(k) => WillRead(k)') /\ (WillReadSts(k) => WillReadSts(k)')
  <2>1. CASE Get(w)
    <3>1. /\ worker[w] = NoKey /\ dirty' = dirty \ {Head(queue)} /\ UNCHANGED <<gpc, gkey>>
          /\ worker'[w] = Head(queue) /\ \A v \in Workers \ {w} : worker'[v] = worker[v]
          BY <2>1 DEF TypeOK, Get
    <3>2. k \in dirty => k \in dirty' \/ worker'[w] = k
          BY <3>1
    <3>3. \A v \in Workers : worker[v] = k => worker'[v] = k
          BY <1>2, <3>1
    <3> QED
          BY <3>1, <3>2, <3>3, WillReadMeans, WillReadNext
  <2>2. CASE processNextWorkItem(w)
    <3>1. PICK g \in Goroutines :
             /\ gpc[g] = "free" /\ gpc' = [gpc EXCEPT ![g] = "start"]
             /\ gkey' = [gkey EXCEPT ![g] = worker[w]]
          BY <2>2 DEF processNextWorkItem
    <3>2. worker' = [worker EXCEPT ![w] = NoKey] /\ dirty' = dirty
          BY <2>2 DEF processNextWorkItem
    <3>3. /\ gpc'[g] = "start" /\ gkey'[g] = worker[w]
          /\ \A h \in Goroutines \ {g} : gpc'[h] = gpc[h] /\ gkey'[h] = gkey[h]
          /\ \A v \in Workers \ {w} : worker'[v] = worker[v]
          BY <3>1, <3>2 DEF TypeOK
    <3> QED
          BY <3>1, <3>2, <3>3, WillReadMeans, WillReadNext
  <2> QED
        BY <2>1, <2>2 DEF WorkerStep
<1> QED
      BY <1>1, <1>3 DEF NoLostEvent, NoteOnTheWay

\* A sync that comes to a lister reads the current version: what it held back
\* is now read.
LEMMA ListersKeepEvents ==
    ASSUME TypeOK, QueueDiscipline, NoLostEvent, NEW g \in Goroutines,
           GetRedisCluster(g) \/ GetStatefulSet(g)
    PROVE  NoLostEvent'
<1> SUFFICES ASSUME NEW k \in Keys, rcPresent'[k], ~shuttingDown'
             PROVE  /\ rcSeen'[k] # rcVersion'[k] => rcNotes'[k] > 0 \/ WillRead(k)'
                    /\ stsSeen'[k] # stsVersion'[k] => NoteOnTheWay(k)' \/ WillReadSts(k)'
    BY DEF NoLostEvent
<1> USE DEF queueVars, storeVars, noteVars
<1>1. UNCHANGED <<shuttingDown, dirty, worker, gkey, rcPresent, rcVersion, stsVersion,
                  rcNotes, stsNotes>>
      BY DEF GetRedisCluster, GetStatefulSet
<1>2. gkey[g] \in Keys
      BY DEF TypeOK, QueueDiscipline, StagesMatch, GetRedisCluster, GetStatefulSet
<1>3. NoteOnTheWay(k) => NoteOnTheWay(k)'
      BY <1>1 DEF NoteOnTheWay
<1>4. CASE GetRedisCluster(g)
  <2>1. /\ gpc[g] = "start" /\ stsSeen' = stsSeen
        /\ gpc' = [gpc EXCEPT ![g] = IF rcPresent[gkey[g]] THEN "got" ELSE "returned"]
        /\ rcSeen' = [rcSeen EXCEPT ![gkey[g]] = rcVersion[gkey[g]]]
        BY <1>4 DEF GetRedisCluster
  <2>2. \A h \in Goroutines \ {g} : gpc'[h] = gpc[h]
        BY <2>1 DEF TypeOK
  <2>3. CASE k = gkey[g]
    <3>1. rcSeen'[k] = rcVersion'[k]
          BY <1>1, <1>2, <2>1, <2>3 DEF TypeOK
    <3>2. gpc'[g] = "got" /\ gkey'[g] = k
          BY <1>1, <2>1, <2>3 DEF TypeOK
    <3> QED
          BY <3>1, <3>2, WillReadNext
  <2>4. CASE k # gkey[g]
    <3>1. rcSeen'[k] = rcSeen[k]
          BY <2>1, <2>4 DEF TypeOK
    <3>2. (WillRead(k) => WillRead(k)') /\ (WillReadSts(k) => WillReadSts(k)')
          BY <1>1, <2>2, <2>4, WillReadMeans, WillReadNext
    <3> QED
          BY <1>1, <1>3, <2>1, <3>1, <3>2 DEF NoLostEvent
  <2> QED
        BY <2>3, <2>4
<1>5. CASE GetStatefulSet(g)
  <2>1. /\ gpc[g] = "got" /\ rcSeen' = rcSeen
        /\ gpc' = [gpc EXCEPT ![g] = "sync"]
        /\ stsSeen' = [stsSeen EXCEPT ![gkey[g]] = stsVersion[gkey[g]]]
        BY <1>5 DEF GetStatefulSet
  <2>2. \A h \in Goroutines \ {g} : gpc'[h] = gpc[h]
        BY <2>1 DEF TypeOK
  <2>3. WillRead(k) => WillRead(k)'
        BY <1>1, <2>1, <2>2, WillReadMeans, WillReadNext
  <2>4. CASE k = gkey[g]
    <3>1. stsSeen'[k] = stsVersion'[k]
          BY <1>1, <1>2, <2>1, <2>4 DEF TypeOK
    <3> QED
          BY <1>1, <2>1, <2>3, <3>1 DEF NoLostEvent
  <2>5. CASE k # gkey[g]
    <3>1. stsSeen'[k] = stsSeen[k]
          BY <2>1, <2>5 DEF TypeOK
    <3>2. WillReadSts(k) => WillReadSts(k)'
          BY <1>1, <2>2, <2>3, <2>5, WillReadMeans, WillReadNext
    <3> QED
          BY <1>1, <1>3, <2>1, <2>3, <3>1, <3>2 DEF NoLostEvent
  <2> QED
        BY <2>4, <2>5
<1> QED
      BY <1>4, <1>5

\* The other steps change neither the stores nor the notifications, and take no
\* key away from the lister.
LEMMA OthersKeepEvents ==
    ASSUME NoLostEvent,
           \A k \in Keys : (WillRead(k) => WillRead(k)') /\ (WillReadSts(k) => WillReadSts(k)'),
           shuttingDown => shuttingDown',
           UNCHANGED <<storeVars, stsNotes, seenVars>>,
           \A k \in Keys : rcNotes[k] > 0 => rcNotes'[k] > 0
    PROVE  NoLostEvent'
BY DEF NoLostEvent, NoteOnTheWay, storeVars, seenVars

\* Every step keeps every unread change on its way to a sync.
LEMMA EventStep ==
    TypeOK /\ QueueDiscipline /\ NoLostEvent /\ [Next]_vars => NoLostEvent'
<1> SUFFICES ASSUME TypeOK, QueueDiscipline, NoLostEvent, [Next]_vars
             PROVE  NoLostEvent'
    OBVIOUS
<1> USE DEF queueVars, procVars, noteVars
<1>1. ASSUME NEW k \in Keys, RedisClusterChanges(k) PROVE NoLostEvent'
      BY <1>1, RedisClusterChangeKeepsEvents
<1>2. ASSUME NEW k \in Keys, StatefulSetChanges(k) PROVE NoLostEvent'
      BY <1>2, StatefulSetChangeKeepsEvents
<1>3. ASSUME NEW k \in Keys, Resync(k) PROVE NoLostEvent'
  <2>1. \A j \in Keys : rcNotes[j] > 0 => rcNotes'[j] > 0
        BY <1>3 DEF TypeOK, Resync
  <2> QED
        BY <1>3, <2>1, StillReads, OthersKeepEvents DEF Resync
<1>4. ASSUME NEW k \in Keys, HandleRedisCluster(k) \/ HandleStatefulSet(k) PROVE NoLostEvent'
      BY <1>4, HandlersKeepEvents
<1>5. ASSUME NEW k \in Keys, FireWaiting(k) PROVE NoLostEvent'
      BY <1>5, AddReads, OthersKeepEvents DEF FireWaiting
<1>6. CASE ReceiveWaiting
  <2>1. Head(waitingForAddCh) \in Keys
        BY <1>6 DEF TypeOK, ReceiveWaiting
  <2>2. Add(Head(waitingForAddCh)) \/ UNCHANGED queueVars
        BY <1>6 DEF ReceiveWaiting
  <2>3. /\ UNCHANGED <<worker, gpc, gkey, shuttingDown, rcNotes, stsNotes>>
        /\ UNCHANGED <<storeVars, seenVars>>
        BY <1>6 DEF ReceiveWaiting
  <2>4. \A k \in Keys : (WillRead(k) => WillRead(k)') /\ (WillReadSts(k) => WillReadSts(k)')
        BY <2>1, <2>2, <2>3, AddReads, StillReads
  <2> QED
        BY <2>3, <2>4, OthersKeepEvents
<1>7. ASSUME NEW w \in Workers, WorkerStep(w) PROVE NoLostEvent'
      BY <1>7, WorkersKeepEvents
<1>8. ASSUME NEW g \in Goroutines, GetRedisCluster(g) \/ GetStatefulSet(g) PROVE NoLostEvent'
      BY <1>8, ListersKeepEvents
<1>9. ASSUME NEW g \in Goroutines, SyncReturns(g) \/ SyncHangs(g) \/ handleErr(g)
      PROVE  NoLostEvent'
  <2>1. \E stage \in Stages : gpc' = [gpc EXCEPT ![g] = stage]
        BY <1>9 DEF SyncReturns, SyncHangs, handleErr, Stages
  <2>2. \A k \in Keys : (WillRead(k) => WillRead(k)') /\ (WillReadSts(k) => WillReadSts(k)')
        BY <1>9, <2>1, BehindTheLister DEF SyncReturns, SyncHangs, handleErr
  <2> QED
        BY <1>9, <2>2, OthersKeepEvents DEF SyncReturns, SyncHangs, handleErr
<1>10. ASSUME NEW g \in Goroutines, DeferredDone(g) PROVE NoLostEvent'
  <2>1. \A h \in Goroutines \ {g} : gkey'[h] = gkey[h]
        BY <1>10 DEF TypeOK, DeferredDone
  <2>2. \A k \in Keys : (WillRead(k) => WillRead(k)') /\ (WillReadSts(k) => WillReadSts(k)')
        BY <1>10, <2>1, BehindTheLister DEF DeferredDone, Done
  <2> QED
        BY <1>10, <2>2, OthersKeepEvents DEF DeferredDone
<1>11. CASE ShutDown
      BY <1>11 DEF ShutDown, NoLostEvent
<1>12. CASE Restart
  <2>1. ASSUME NEW k \in Keys, rcPresent'[k] PROVE rcNotes'[k] > 0
        BY <1>12, <2>1 DEF Restart, storeVars
  <2> QED
        BY <2>1 DEF NoLostEvent, NoteOnTheWay
<1>13. CASE UNCHANGED vars
      BY <1>13, StillReads, OthersKeepEvents DEF vars
<1> QED
    BY <1>1, <1>2, <1>3, <1>4, <1>5, <1>6, <1>7, <1>8, <1>9, <1>10, <1>11, <1>12, <1>13
    DEF Next, GoroutineStep

\* No event is lost: whatever the interleaving of the informers, the handlers, the
\* queue, the delayed retries and the running syncs, a change of a cached
\* RedisCluster, or of the status of its StatefulSet, that no sync has read still has
\* its notification, its mark or a sync that has not come to the lister yet.
THEOREM EventsAreKept == Spec => []NoLostEvent
<1>1. Init => NoLostEvent
      BY Zenon DEF Init, NoLostEvent
<1> QED
      BY <1>1, EventStep, DisciplineInvariant, PTL DEF Spec
-----------------------------------------------------------------------------
(***************************************************************************)
(* No retry is lost.                                                       *)
(***************************************************************************)
\* Steps that count no failure and take no key away from a place where it waits.
LEMMA OthersKeepRetries ==
    ASSUME RetryPending, failures' = failures, shuttingDown => shuttingDown',
           dirty \subseteq dirty', UNCHANGED <<worker, gpc, gkey>>,
           UNCHANGED <<waitingForAddCh, waitingForQueue>>
    PROVE  RetryPending'
BY DEF RetryPending, Holders, Syncing

\* A retry that arrives at the waiting loop, or that is due there, is kept or
\* becomes a mark.
LEMMA WaitingKeepsRetries ==
    ASSUME TypeOK, RetryPending, ReceiveWaiting \/ \E j \in Keys : FireWaiting(j)
    PROVE  RetryPending'
<1> SUFFICES ASSUME NEW k \in Keys, failures'[k] > 0, ~shuttingDown'
             PROVE  \/ k \in dirty' \cup waitingForQueue'
                    \/ \E i \in DOMAIN waitingForAddCh' : waitingForAddCh'[i] = k
                    \/ Holders(k)' # {}
                    \/ \E g \in Syncing(k)' : gpc'[g] # "handled"
    BY DEF RetryPending
<1>1. UNCHANGED <<failures, worker, gpc, gkey, shuttingDown>>
      BY DEF ReceiveWaiting, FireWaiting, procVars
<1>2. /\ Holders(k)' = Holders(k) /\ Syncing(k)' = Syncing(k)
      BY <1>1 DEF Holders, Syncing
<1>3. CASE ReceiveWaiting
  <2> DEFINE j == Head(waitingForAddCh)
  <2>1. waitingForAddCh \in Seq(Keys) /\ waitingForAddCh # <<>>
        BY <1>3 DEF TypeOK, ReceiveWaiting
  <2>2. j \in Keys /\ j = waitingForAddCh[1] /\ waitingForAddCh' = Tail(waitingForAddCh)
        BY <1>3, <2>1 DEF ReceiveWaiting
  <2>3. /\ dirty \subseteq dirty' /\ waitingForQueue \subseteq waitingForQueue'
        /\ j \in dirty' \cup waitingForQueue'
        BY <1>3, <2>2, AddMarked DEF ReceiveWaiting, queueVars
  <2>4. ASSUME NEW i \in DOMAIN waitingForAddCh, waitingForAddCh[i] = k, k # j
        PROVE  \E n \in DOMAIN waitingForAddCh' : waitingForAddCh'[n] = k
    <3>1. i - 1 \in DOMAIN waitingForAddCh' /\ waitingForAddCh'[i - 1] = k
          BY <2>1, <2>2, <2>4
    <3> QED
          BY <3>1
  <2> QED
        BY <1>1, <1>2, <2>3, <2>4 DEF RetryPending
<1>4. ASSUME NEW j \in Keys, FireWaiting(j)
      PROVE  \/ k \in dirty' \cup waitingForQueue'
             \/ \E i \in DOMAIN waitingForAddCh' : waitingForAddCh'[i] = k
             \/ Holders(k)' # {}
             \/ \E g \in Syncing(k)' : gpc'[g] # "handled"
  <2>1. /\ dirty \subseteq dirty' /\ j \in dirty' /\ waitingForQueue' = waitingForQueue \ {j}
        /\ waitingForAddCh' = waitingForAddCh
        BY <1>1, <1>4, AddMarked DEF FireWaiting
  <2> QED
        BY <1>1, <1>2, <2>1 DEF RetryPending
<1> QED
      BY <1>3, <1>4

\* The worker that takes a key, and the goroutine it starts, hold it.
LEMMA WorkersKeepRetries ==
    ASSUME TypeOK, QueueDiscipline, RetryPending, NEW w \in Workers, WorkerStep(w)
    PROVE  RetryPending'
<1> SUFFICES ASSUME NEW k \in Keys, failures'[k] > 0, ~shuttingDown'
             PROVE  \/ k \in dirty' \cup waitingForQueue'
                    \/ \E i \in DOMAIN waitingForAddCh' : waitingForAddCh'[i] = k
                    \/ Holders(k)' # {}
                    \/ \E g \in Syncing(k)' : gpc'[g] # "handled"
    BY DEF RetryPending
<1>1. UNCHANGED <<failures, shuttingDown, waitingForAddCh, waitingForQueue>>
      BY DEF WorkerStep, Get, processNextWorkItem, delayVars
<1>2. k # NoKey
      BY ConstantsAssumption
<1>3. CASE Get(w)
  <2>1. /\ dirty' = dirty \ {Head(queue)} /\ UNCHANGED <<gpc, gkey>>
        /\ worker[w] = NoKey /\ worker'[w] = Head(queue)
        /\ \A v \in Workers \ {w} : worker'[v] = worker[v]
        BY <1>3 DEF TypeOK, Get
  <2> QED
        BY <1>1, <1>2, <2>1 DEF RetryPending, Holders, Syncing
<1>4. CASE processNextWorkItem(w)
  <2>1. PICK g \in Goroutines :
           /\ gpc[g] = "free" /\ gpc' = [gpc EXCEPT ![g] = "start"]
           /\ gkey' = [gkey EXCEPT ![g] = worker[w]]
        BY <1>4 DEF processNextWorkItem
  <2>2. worker' = [worker EXCEPT ![w] = NoKey] /\ dirty' = dirty
        BY <1>4 DEF processNextWorkItem, queueVars
  <2>3. /\ gpc'[g] = "start" /\ gkey'[g] = worker[w] /\ gkey[g] = NoKey
        /\ \A h \in Goroutines \ {g} : gpc'[h] = gpc[h] /\ gkey'[h] = gkey[h]
        /\ \A v \in Workers \ {w} : worker'[v] = worker[v]
        BY <2>1, <2>2 DEF TypeOK, QueueDiscipline, StagesMatch
  <2> QED
        BY <1>1, <1>2, <2>2, <2>3 DEF RetryPending, Holders, Syncing
<1> QED
      BY <1>3, <1>4 DEF WorkerStep

\* A sync that goes on holds its key until it deals with its result.
LEMMA SyncKeepsRetries ==
    ASSUME TypeOK, RetryPending, NEW g \in Goroutines,
           GetRedisCluster(g) \/ GetStatefulSet(g) \/ SyncReturns(g) \/ SyncHangs(g)
    PROVE  RetryPending'
<1>1. /\ UNCHANGED <<failures, shuttingDown, dirty, waitingForAddCh, waitingForQueue,
                     worker, gkey>>
      /\ gpc'[g] # "handled" /\ \A h \in Goroutines \ {g} : gpc'[h] = gpc[h]
      BY DEF TypeOK, GetRedisCluster, GetStatefulSet, SyncReturns, SyncHangs, queueVars, delayVars
<1> QED
      BY <1>1 DEF RetryPending, Holders, Syncing

\* handleErr counts a failure only together with a retry, and forgets the
\* failures of a key it does not retry.
LEMMA HandleErrKeepsRetries ==
    ASSUME TypeOK, QueueDiscipline, RetryPending, NEW g \in Goroutines, handleErr(g)
    PROVE  RetryPending'
<1> SUFFICES ASSUME NEW k \in Keys, failures'[k] > 0, ~shuttingDown'
             PROVE  \/ k \in dirty' \cup waitingForQueue'
                    \/ \E i \in DOMAIN waitingForAddCh' : waitingForAddCh'[i] = k
                    \/ Holders(k)' # {}
                    \/ \E h \in Syncing(k)' : gpc'[h] # "handled"
    BY DEF RetryPending
<1>1. /\ UNCHANGED <<shuttingDown, dirty, waitingForQueue, worker, gkey>>
      /\ \A h \in Goroutines \ {g} : gpc'[h] = gpc[h]
      /\ waitingForAddCh \in Seq(Keys) /\ gkey[g] \in Keys
      BY DEF TypeOK, QueueDiscipline, StagesMatch, handleErr, queueVars
<1>2. CASE k = gkey[g]
  <2>1. waitingForAddCh' = Append(waitingForAddCh, k)
    <3>1. gerr[g] /\ failures[k] < MaxRetries
          BY <1>2 DEF TypeOK, handleErr
    <3> QED
          BY <1>1, <1>2, <3>1 DEF handleErr, AddAfter
  <2>2. /\ Len(waitingForAddCh) + 1 \in DOMAIN waitingForAddCh'
        /\ waitingForAddCh'[Len(waitingForAddCh) + 1] = k
        BY <1>1, <2>1
  <2> QED
        BY <2>2
<1>3. CASE k # gkey[g]
  <2>1. failures'[k] = failures[k]
        BY <1>3 DEF TypeOK, handleErr
  <2>2. waitingForAddCh' \in {waitingForAddCh, Append(waitingForAddCh, gkey[g])}
        BY DEF handleErr, AddAfter
  <2>3. \A i \in DOMAIN waitingForAddCh :
           i \in DOMAIN waitingForAddCh' /\ waitingForAddCh'[i] = waitingForAddCh[i]
        BY <1>1, <2>2
  <2> QED
        BY <1>1, <1>3, <2>1, <2>3 DEF RetryPending, Holders, Syncing
<1> QED
      BY <1>2, <1>3

\* Every step keeps every counted failure together with a coming sync.
LEMMA RetryStep ==
    TypeOK /\ QueueDiscipline /\ RetryPending /\ [Next]_vars => RetryPending'
<1> SUFFICES ASSUME TypeOK, QueueDiscipline, RetryPending, [Next]_vars
             PROVE  RetryPending'
    OBVIOUS
<1> USE DEF queueVars, delayVars, procVars
<1>1. ASSUME NEW k \in Keys, RedisClusterChanges(k) \/ StatefulSetChanges(k) \/ Resync(k)
      PROVE  RetryPending'
      BY <1>1, OthersKeepRetries DEF RedisClusterChanges, StatefulSetChanges, Resync
<1>2. ASSUME NEW k \in Keys, HandleRedisCluster(k) \/ HandleStatefulSet(k)
      PROVE  RetryPending'
      BY <1>2, AddMarked, OthersKeepRetries DEF HandleRedisCluster, HandleStatefulSet
<1>3. CASE ReceiveWaiting \/ \E k \in Keys : FireWaiting(k)
      BY <1>3, WaitingKeepsRetries
<1>4. ASSUME NEW w \in Workers, WorkerStep(w) PROVE RetryPending'
      BY <1>4, WorkersKeepRetries
<1>5. ASSUME NEW g \in Goroutines,
             GetRedisCluster(g) \/ GetStatefulSet(g) \/ SyncReturns(g) \/ SyncHangs(g)
      PROVE  RetryPending'
      BY <1>5, SyncKeepsRetries
<1>6. ASSUME NEW g \in Goroutines, handleErr(g) PROVE RetryPending'
      BY <1>6, HandleErrKeepsRetries
<1>7. ASSUME NEW g \in Goroutines, DeferredDone(g) PROVE RetryPending'
  <2>1. /\ UNCHANGED <<failures, shuttingDown, dirty, waitingForAddCh, waitingForQueue, worker>>
        /\ gpc[g] = "handled"
        /\ \A h \in Goroutines \ {g} : gpc'[h] = gpc[h] /\ gkey'[h] = gkey[h]
        BY <1>7 DEF TypeOK, DeferredDone, Done
  <2> QED
        BY <2>1 DEF RetryPending, Holders, Syncing
<1>8. CASE ShutDown
      BY <1>8 DEF ShutDown, RetryPending
<1>9. CASE Restart
      BY <1>9 DEF Restart, RetryPending
<1>10. CASE UNCHANGED vars
      BY <1>10, OthersKeepRetries DEF vars
<1> QED
    BY <1>1, <1>2, <1>3, <1>4, <1>5, <1>6, <1>7, <1>8, <1>9, <1>10
    DEF Next, GoroutineStep

\* A key with counted failures always has its next sync pending, or a sync that
\* will see to it still running, unless the queue is shut down: no retry is dropped between handleErr, the channel of the
\* waiting loop, its heap, the marks and the workers.
THEOREM RetriesAreKept == Spec => []RetryPending
<1>1. Init => RetryPending
      BY DEF Init, RetryPending
<1> QED
      BY <1>1, RetryStep, DisciplineInvariant, PTL DEF Spec
=============================================================================
