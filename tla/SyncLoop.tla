------------------------------- MODULE SyncLoop -------------------------------
(***************************************************************************)
(* The sync loop of RedisClusterOperator (pkg/operator/redis/              *)
(* redis_operator.go): informer events are turned into keys of a           *)
(* rate-limiting work queue, workers take a key and start one goroutine    *)
(* that syncs it, and the goroutine itself handles the error and marks the *)
(* key done.  The queue is client-go's (vendor/k8s.io/client-go/util/      *)
(* workqueue).  What a sync does to the cluster is left out: a sync reads  *)
(* the two informer caches and returns nil, returns an error, panics or    *)
(* never returns.                                                          *)
(***************************************************************************)
EXTENDS Naturals, Sequences

CONSTANTS Keys,         \* namespace/name of the RedisClusters
          Workers,      \* ConcurrentRedisClusterSyncs worker threads
          Goroutines,   \* identities for the goroutines the workers start
          NoKey,        \* a worker that holds no key
          MaxRetries,   \* maxRetries
          ChanCap,      \* capacity of waitingForAddCh
          MaxVersion,   \* bound: changes of one cached RedisCluster
          MaxStsVersion, \* bound: changes of one cached StatefulSet
          MaxNotes,     \* bound: undelivered notifications of one object
          MaxRestarts   \* bound: restarts of the operator process

ASSUME ConstantsAssumption ==
    /\ NoKey \notin Keys
    /\ MaxRetries \in Nat /\ ChanCap \in Nat \ {0}
    /\ MaxVersion \in Nat /\ MaxStsVersion \in Nat /\ MaxNotes \in Nat /\ MaxRestarts \in Nat

VARIABLES
    queue, dirty, processing, shuttingDown,      \* workqueue.Type
    waitingForAddCh, waitingForQueue,            \* delayingType
    failures,                                    \* ItemExponentialFailureRateLimiter
    rcPresent, rcVersion, stsPresent, stsVersion, \* the informers' stores
    rcNotes, stsNotes,                           \* notifications not yet handled
    worker,                                      \* key a worker has taken, or NoKey
    gpc, gkey, gerr,                             \* the goroutines
    rcSeen, stsSeen,                             \* versions the last sync of a key read
    restarts

queueVars == <<queue, dirty, processing>>
delayVars == <<waitingForAddCh, waitingForQueue>>
storeVars == <<rcPresent, rcVersion, stsPresent, stsVersion>>
noteVars  == <<rcNotes, stsNotes>>
procVars  == <<worker, gpc, gkey, gerr>>
seenVars  == <<rcSeen, stsSeen>>
vars == <<queueVars, shuttingDown, delayVars, failures, storeVars, noteVars,
          procVars, seenVars, restarts>>

\* "other": an update without a status change, a resync included.
StsKinds == {"add", "delete", "status", "other"}
\* "hung": a sync that never returns.
Stages == {"free", "start", "got", "sync", "hung", "returned", "handled"}

TypeOK ==
    /\ queue \in Seq(Keys)
    /\ dirty \in SUBSET Keys
    /\ processing \in SUBSET Keys
    /\ shuttingDown \in BOOLEAN
    /\ waitingForAddCh \in Seq(Keys)
    /\ waitingForQueue \in SUBSET Keys
    /\ failures \in [Keys -> 0..MaxRetries]
    /\ rcPresent \in [Keys -> BOOLEAN]
    /\ rcVersion \in [Keys -> Nat]
    /\ stsPresent \in [Keys -> BOOLEAN]
    /\ stsVersion \in [Keys -> Nat]
    /\ rcNotes \in [Keys -> Nat]
    /\ stsNotes \in [Keys -> Seq(StsKinds)]
    /\ worker \in [Workers -> Keys \cup {NoKey}]
    /\ gpc \in [Goroutines -> Stages]
    /\ gkey \in [Goroutines -> Keys \cup {NoKey}]
    /\ gerr \in [Goroutines -> BOOLEAN]
    /\ rcSeen \in [Keys -> Nat]
    /\ stsSeen \in [Keys -> Nat]
    /\ restarts \in Nat

Init ==
    /\ queue = <<>> /\ dirty = {} /\ processing = {} /\ shuttingDown = FALSE
    /\ waitingForAddCh = <<>> /\ waitingForQueue = {}
    /\ failures = [k \in Keys |-> 0]
    /\ rcPresent = [k \in Keys |-> FALSE]
    /\ rcVersion = [k \in Keys |-> 0]
    /\ stsPresent = [k \in Keys |-> FALSE]
    /\ stsVersion = [k \in Keys |-> 0]
    /\ rcNotes = [k \in Keys |-> 0]
    /\ stsNotes = [k \in Keys |-> <<>>]
    /\ worker = [w \in Workers |-> NoKey]
    /\ gpc = [g \in Goroutines |-> "free"]
    /\ gkey = [g \in Goroutines |-> NoKey]
    /\ gerr = [g \in Goroutines |-> FALSE]
    /\ rcSeen = [k \in Keys |-> 0]
    /\ stsSeen = [k \in Keys |-> 0]
    /\ restarts = 0
-----------------------------------------------------------------------------
(***************************************************************************)
(* The work queue.                                                         *)
(***************************************************************************)
\* Mutants of Add: one that queues a key that is being processed, and one
\* that ignores an event for it.
AddWhileProcessing(k) ==
    /\ UNCHANGED processing
    /\ IF shuttingDown \/ k \in dirty
       THEN UNCHANGED <<queue, dirty>>
       ELSE dirty' = dirty \cup {k} /\ queue' = Append(queue, k)
AddForgettingProcessing(k) ==
    /\ UNCHANGED processing
    /\ IF shuttingDown \/ k \in dirty \cup processing
       THEN UNCHANGED <<queue, dirty>>
       ELSE dirty' = dirty \cup {k} /\ queue' = Append(queue, k)

Add(k) ==
    /\ UNCHANGED processing
    /\ IF shuttingDown \/ k \in dirty
       THEN UNCHANGED <<queue, dirty>>
       ELSE /\ dirty' = dirty \cup {k}
            /\ queue' = IF k \in processing THEN queue ELSE Append(queue, k)

Get(w) ==
    /\ worker[w] = NoKey
    /\ queue # <<>>
    /\ LET k == Head(queue) IN
       /\ queue' = Tail(queue)
       /\ processing' = processing \cup {k}
       /\ dirty' = dirty \ {k}
       /\ worker' = [worker EXCEPT ![w] = k]
    /\ UNCHANGED <<shuttingDown, delayVars, failures, storeVars, noteVars,
                   gpc, gkey, gerr, seenVars, restarts>>

\* Mutant of Done: a key marked during its sync is not queued again.
DoneWithoutRequeue(k) == processing' = processing \ {k} /\ UNCHANGED <<queue, dirty>>

Done(k) ==
    /\ processing' = processing \ {k}
    /\ queue' = IF k \in dirty THEN Append(queue, k) ELSE queue
    /\ UNCHANGED dirty

\* AddAfter blocks while the channel to the waiting loop is full, and gives
\* up when the queue is shut down.
AddAfter(k) ==
    IF shuttingDown
    THEN UNCHANGED waitingForAddCh
    ELSE /\ Len(waitingForAddCh) < ChanCap
         /\ waitingForAddCh' = Append(waitingForAddCh, k)

\* The waiting loop takes an entry: it is kept until it is due (one entry
\* per key), or added at once when it is due already.
ReceiveWaiting ==
    /\ waitingForAddCh # <<>>
    /\ ~shuttingDown
    /\ LET k == Head(waitingForAddCh) IN
       /\ waitingForAddCh' = Tail(waitingForAddCh)
       /\ \/ waitingForQueue' = waitingForQueue \cup {k} /\ UNCHANGED queueVars
          \/ Add(k) /\ UNCHANGED waitingForQueue
    /\ UNCHANGED <<shuttingDown, failures, storeVars, noteVars, procVars,
                   seenVars, restarts>>

\* The delay of an entry is over.
FireWaiting(k) ==
    /\ k \in waitingForQueue
    /\ ~shuttingDown
    /\ waitingForQueue' = waitingForQueue \ {k}
    /\ Add(k)
    /\ UNCHANGED <<waitingForAddCh, shuttingDown, failures, storeVars, noteVars,
                   procVars, seenVars, restarts>>

\* Run returns from <-stopCh and its deferred ShutDown runs.
ShutDown ==
    /\ ~shuttingDown
    /\ shuttingDown' = TRUE
    /\ UNCHANGED <<queueVars, delayVars, failures, storeVars, noteVars,
                   procVars, seenVars, restarts>>
-----------------------------------------------------------------------------
(***************************************************************************)
(* The informers.  A store changes first; the handler is called later, in  *)
(* order, by the listener's goroutine.                                     *)
(***************************************************************************)
RedisClusterChanges(k) ==
    /\ rcVersion[k] < MaxVersion /\ rcNotes[k] < MaxNotes
    /\ rcVersion' = [rcVersion EXCEPT ![k] = @ + 1]
    /\ \E present \in BOOLEAN :
          /\ rcPresent[k] \/ present
          /\ rcPresent' = [rcPresent EXCEPT ![k] = present]
    /\ rcNotes' = [rcNotes EXCEPT ![k] = @ + 1]
    /\ UNCHANGED <<stsPresent, stsVersion, stsNotes, queueVars, shuttingDown, delayVars,
                   failures, procVars, seenVars, restarts>>

StatefulSetChanges(k) ==
    /\ Len(stsNotes[k]) < MaxNotes
    /\ \E kind \in StsKinds :
          /\ stsPresent[k] <=> kind # "add"
          /\ kind # "other" => stsVersion[k] < MaxStsVersion
          /\ stsPresent' = [stsPresent EXCEPT ![k] = (kind # "delete")]
          /\ stsVersion' = [stsVersion EXCEPT ![k] =
                               IF kind = "other" THEN @ ELSE @ + 1]
          /\ stsNotes' = [stsNotes EXCEPT ![k] = Append(@, kind)]
    /\ UNCHANGED <<rcPresent, rcVersion, rcNotes, queueVars, shuttingDown,
                   delayVars, failures, procVars, seenVars, restarts>>

\* Every ResyncPeriod the informer repeats an update for each cached object.
Resync(k) ==
    /\ rcPresent[k]
    /\ rcNotes[k] < MaxNotes
    /\ rcNotes' = [rcNotes EXCEPT ![k] = @ + 1]
    /\ UNCHANGED <<stsNotes, storeVars, queueVars, shuttingDown, delayVars,
                   failures, procVars, seenVars, restarts>>

\* addRedisCluster, updateRedisCluster and deleteRedisCluster all enqueue;
\* an update is enqueued even when the resource version did not change.
HandleRedisCluster(k) ==
    /\ rcNotes[k] > 0
    /\ rcNotes' = [rcNotes EXCEPT ![k] = @ - 1]
    /\ Add(k)
    /\ UNCHANGED <<stsNotes, storeVars, shuttingDown, delayVars, failures,
                   procVars, seenVars, restarts>>

\* addStatefulSet, deleteStatefulSet and updateStatefulSet look up the
\* RedisCluster of the StatefulSet in the cache and drop the event when it
\* is not there; an update without a status change is dropped too.
HandleStatefulSet(k) ==
    /\ stsNotes[k] # <<>>
    /\ stsNotes' = [stsNotes EXCEPT ![k] = Tail(@)]
    /\ IF Head(stsNotes[k]) # "other" /\ rcPresent[k]
       THEN Add(k)
       ELSE UNCHANGED queueVars
    /\ UNCHANGED <<rcNotes, storeVars, shuttingDown, delayVars, failures,
                   procVars, seenVars, restarts>>
-----------------------------------------------------------------------------
(***************************************************************************)
(* Workers and sync goroutines.                                            *)
(***************************************************************************)
\* Mutant of processNextWorkItem: the worker starts the goroutine without
\* letting go of the key.
ProcessKeepingKey(w) ==
    /\ worker[w] # NoKey
    /\ \E g \in Goroutines :
          /\ gpc[g] = "free"
          /\ gpc' = [gpc EXCEPT ![g] = "start"]
          /\ gkey' = [gkey EXCEPT ![g] = worker[w]]
          /\ gerr' = [gerr EXCEPT ![g] = FALSE]
    /\ UNCHANGED <<worker, queueVars, shuttingDown, delayVars, failures, storeVars,
                   noteVars, seenVars, restarts>>

\* go rco.syncHandler(key): the worker does not wait for the sync.
processNextWorkItem(w) ==
    /\ worker[w] # NoKey
    /\ \E g \in Goroutines :
          /\ gpc[g] = "free"
          /\ gpc' = [gpc EXCEPT ![g] = "start"]
          /\ gkey' = [gkey EXCEPT ![g] = worker[w]]
          /\ gerr' = [gerr EXCEPT ![g] = FALSE]
    /\ worker' = [worker EXCEPT ![w] = NoKey]
    /\ UNCHANGED <<queueVars, shuttingDown, delayVars, failures, storeVars,
                   noteVars, seenVars, restarts>>

\* sync reads the RedisCluster from the lister; a deleted one needs nothing.
GetRedisCluster(g) ==
    /\ gpc[g] = "start"
    /\ gpc' = [gpc EXCEPT ![g] = IF rcPresent[gkey[g]] THEN "got" ELSE "returned"]
    /\ rcSeen' = [rcSeen EXCEPT ![gkey[g]] = rcVersion[gkey[g]]]
    /\ UNCHANGED <<worker, gkey, gerr, stsSeen, queueVars, shuttingDown,
                   delayVars, failures, storeVars, noteVars, restarts>>

\* sync reads the StatefulSet from its lister.
GetStatefulSet(g) ==
    /\ gpc[g] = "got"
    /\ gpc' = [gpc EXCEPT ![g] = "sync"]
    /\ stsSeen' = [stsSeen EXCEPT ![gkey[g]] = stsVersion[gkey[g]]]
    /\ UNCHANGED <<worker, gkey, gerr, rcSeen, queueVars, shuttingDown,
                   delayVars, failures, storeVars, noteVars, restarts>>

\* Mutant of SyncReturns: the goroutine of a sync that panics ends without
\* handleErr and Done, as without the deferred calls.
PanicEndsGoroutine(g) ==
    /\ gpc[g] = "sync"
    /\ \E outcome \in {"nil", "error", "panic"} :
          /\ gpc' = [gpc EXCEPT ![g] = IF outcome = "panic" THEN "free" ELSE "returned"]
          /\ gkey' = [gkey EXCEPT ![g] = IF outcome = "panic" THEN NoKey ELSE @]
          /\ gerr' = [gerr EXCEPT ![g] = (outcome = "error")]
    /\ UNCHANGED <<worker, seenVars, queueVars, shuttingDown, delayVars,
                   failures, storeVars, noteVars, restarts>>

\* The rest of sync.  A panic is recovered before err is assigned, so
\* handleErr sees nil.
SyncReturns(g) ==
    /\ gpc[g] = "sync"
    /\ gpc' = [gpc EXCEPT ![g] = "returned"]
    /\ \E outcome \in {"nil", "error", "panic"} :
          gerr' = [gerr EXCEPT ![g] = (outcome = "error")]
    /\ UNCHANGED <<worker, gkey, seenVars, queueVars, shuttingDown, delayVars,
                   failures, storeVars, noteVars, restarts>>

\* The sync does not return: composeMasterSlaveIP spins for ever when it has no
\* address for slaves, and the stream of a remote command has no time limit.
SyncHangs(g) ==
    /\ gpc[g] = "sync"
    /\ gpc' = [gpc EXCEPT ![g] = "hung"]
    /\ UNCHANGED <<worker, gkey, gerr, seenVars, queueVars, shuttingDown, delayVars,
                   failures, storeVars, noteVars, restarts>>

\* Mutants of handleErr: one that drops a key without Forget, and one that
\* allows a retry too many.
HandleErrWithoutForget(g) ==
    /\ gpc[g] = "returned"
    /\ gpc' = [gpc EXCEPT ![g] = "handled"]
    /\ LET k == gkey[g] IN
       IF gerr[g] /\ failures[k] < MaxRetries
       THEN failures' = [failures EXCEPT ![k] = @ + 1] /\ AddAfter(k)
       ELSE /\ failures' = [failures EXCEPT ![k] = IF gerr[g] THEN @ ELSE 0]
            /\ UNCHANGED waitingForAddCh
    /\ UNCHANGED <<worker, gkey, gerr, seenVars, queueVars, shuttingDown,
                   waitingForQueue, storeVars, noteVars, restarts>>
HandleErrOneMoreRetry(g) ==
    /\ gpc[g] = "returned"
    /\ gpc' = [gpc EXCEPT ![g] = "handled"]
    /\ LET k == gkey[g] IN
       IF gerr[g] /\ failures[k] <= MaxRetries
       THEN failures' = [failures EXCEPT ![k] = @ + 1] /\ AddAfter(k)
       ELSE failures' = [failures EXCEPT ![k] = 0] /\ UNCHANGED waitingForAddCh
    /\ UNCHANGED <<worker, gkey, gerr, seenVars, queueVars, shuttingDown,
                   waitingForQueue, storeVars, noteVars, restarts>>

\* Deferred first: Forget on success or when the retries are used up,
\* AddRateLimited (When counts the failure) otherwise.
handleErr(g) ==
    /\ gpc[g] = "returned"
    /\ gpc' = [gpc EXCEPT ![g] = "handled"]
    /\ LET k == gkey[g] IN
       IF gerr[g] /\ failures[k] < MaxRetries
       THEN /\ failures' = [failures EXCEPT ![k] = @ + 1]
            /\ AddAfter(k)
       ELSE /\ failures' = [failures EXCEPT ![k] = 0]
            /\ UNCHANGED waitingForAddCh
    /\ UNCHANGED <<worker, gkey, gerr, seenVars, queueVars, shuttingDown,
                   waitingForQueue, storeVars, noteVars, restarts>>

\* Deferred last: queue.Done(key).
DeferredDone(g) ==
    /\ gpc[g] = "handled"
    /\ gpc' = [gpc EXCEPT ![g] = "free"]
    /\ gkey' = [gkey EXCEPT ![g] = NoKey]
    /\ Done(gkey[g])
    /\ UNCHANGED <<worker, gerr, seenVars, shuttingDown, delayVars, failures,
                   storeVars, noteVars, restarts>>

\* The process dies and is started again: every queue, counter and goroutine
\* is lost; the informers list all objects and report each as added.
Restart ==
    /\ restarts < MaxRestarts
    /\ restarts' = restarts + 1
    /\ queue' = <<>> /\ dirty' = {} /\ processing' = {} /\ shuttingDown' = FALSE
    /\ waitingForAddCh' = <<>> /\ waitingForQueue' = {}
    /\ failures' = [k \in Keys |-> 0]
    /\ rcNotes' = [k \in Keys |-> IF rcPresent[k] THEN 1 ELSE 0]
    /\ stsNotes' = [k \in Keys |-> IF stsPresent[k] THEN <<"add">> ELSE <<>>]
    /\ worker' = [w \in Workers |-> NoKey]
    /\ gpc' = [g \in Goroutines |-> "free"]
    /\ gkey' = [g \in Goroutines |-> NoKey]
    /\ gerr' = [g \in Goroutines |-> FALSE]
    /\ rcSeen' = [k \in Keys |-> 0]
    /\ stsSeen' = [k \in Keys |-> 0]
    /\ UNCHANGED storeVars
-----------------------------------------------------------------------------
WorkerStep(w) == Get(w) \/ processNextWorkItem(w)

GoroutineStep(g) ==
    \/ GetRedisCluster(g) \/ GetStatefulSet(g) \/ SyncReturns(g) \/ SyncHangs(g)
    \/ handleErr(g) \/ DeferredDone(g)

Next ==
    \/ \E k \in Keys :
          \/ RedisClusterChanges(k) \/ StatefulSetChanges(k) \/ Resync(k)
          \/ HandleRedisCluster(k) \/ HandleStatefulSet(k)
          \/ FireWaiting(k)
    \/ ReceiveWaiting
    \/ \E w \in Workers : WorkerStep(w)
    \/ \E g \in Goroutines : GoroutineStep(g)
    \/ ShutDown
    \/ Restart

Spec == Init /\ [][Next]_vars

\* The listener goroutines, the waiting loop, the workers and the sync
\* goroutines run until they block.  A sync goroutine may block for ever
\* (SyncHangs); the waits for pods and for the Redis cluster end after
\* ClusterTimeOut.  A channel serves blocked senders in order, so AddAfter is not
\* held up for ever by others.  Nothing is asked of changes, resyncs, restarts and ShutDown.
Fairness ==
    /\ \A k \in Keys : /\ WF_vars(HandleRedisCluster(k))
                       /\ WF_vars(HandleStatefulSet(k))
                       /\ WF_vars(FireWaiting(k))
    /\ WF_vars(ReceiveWaiting)
    /\ \A w \in Workers : WF_vars(WorkerStep(w))
    /\ \A g \in Goroutines : WF_vars(GoroutineStep(g)) /\ SF_vars(handleErr(g))

FairSpec == Spec /\ Fairness
-----------------------------------------------------------------------------
\* The keys being synced: held by a worker or by a goroutine it started.
Holders(k) == {w \in Workers : worker[w] = k}
Syncing(k) == {g \in Goroutines : gkey[g] = k}
Hung(k) == \E g \in Syncing(k) : gpc[g] = "hung"
Held == {k \in Keys : Holders(k) # {} \/ Syncing(k) # {}}

\* "It enforces that the syncHandler is never invoked concurrently with the
\* same key" (worker), although the worker no longer waits for the sync and
\* the key is marked done by the goroutine: no two workers or goroutines hold
\* one key.
OneSyncPerKey ==
    /\ \A w1, w2 \in Workers :
          worker[w1] = worker[w2] /\ worker[w1] # NoKey => w1 = w2
    /\ \A g1, g2 \in Goroutines :
          gkey[g1] = gkey[g2] /\ gkey[g1] # NoKey => g1 = g2
    /\ \A w \in Workers, g \in Goroutines : worker[w] = gkey[g] => worker[w] = NoKey

\* A goroutine has a key exactly while it runs.
StagesMatch == \A g \in Goroutines : gpc[g] = "free" <=> gkey[g] = NoKey

\* The queue lists, once, keys that are marked and not being processed.
QueueIsFresh ==
    /\ \A i \in 1..Len(queue) : queue[i] \in dirty /\ queue[i] \notin processing
    /\ \A i, j \in 1..Len(queue) : queue[i] = queue[j] => i = j

\* A key that a worker or a goroutine holds is being processed.
HeldAreProcessing ==
    /\ \A w \in Workers : worker[w] # NoKey => worker[w] \in processing
    /\ \A g \in Goroutines : gkey[g] # NoKey => gkey[g] \in processing

\* Why OneSyncPerKey holds: Get hands out only keys that nobody holds, because
\* a key in the queue is never in processing, and a key leaves processing only
\* when the goroutine that holds it calls Done.
QueueDiscipline == StagesMatch /\ QueueIsFresh /\ HeldAreProcessing /\ OneSyncPerKey

\* A sync of k that has not read the RedisCluster (the StatefulSet) yet.
WillRead(k) ==
    \/ k \in dirty
    \/ Holders(k) # {}
    \/ \E g \in Syncing(k) : gpc[g] = "start"
WillReadSts(k) == WillRead(k) \/ \E g \in Syncing(k) : gpc[g] = "got"

\* An event handler that will still enqueue k.
NoteOnTheWay(k) ==
    \/ rcNotes[k] > 0
    \/ \E i \in DOMAIN stsNotes[k] : stsNotes[k][i] # "other"

\* Whatever the interleaving of the two informers, the handlers, the queue and
\* a running sync, a change that no sync has read (of a cached RedisCluster, or
\* its StatefulSet created, deleted or with another status) is not forgotten: its
\* notification is on the way, the key is marked, or a sync that has not come to
\* the lister yet holds it.  (updateStatefulSet drops a change of spec alone.)
NoLostEvent ==
    \A k \in Keys :
       rcPresent[k] /\ ~shuttingDown =>
          /\ rcSeen[k] # rcVersion[k] => rcNotes[k] > 0 \/ WillRead(k)
          /\ stsSeen[k] # stsVersion[k] => NoteOnTheWay(k) \/ WillReadSts(k)

\* A key with counted failures is not left alone: the key is marked, its
\* retry waits in the delaying queue, or the sync that holds it has not dealt
\* with its result yet.  handleErr never leaves a failure counter behind without
\* a retry that would consume it, and a retry is not lost on its way through
\* the delaying queue.
RetryPending ==
    \A k \in Keys :
       failures[k] > 0 /\ ~shuttingDown =>
          \/ k \in dirty \cup waitingForQueue
          \/ \E i \in DOMAIN waitingForAddCh : waitingForAddCh[i] = k
          \/ Holders(k) # {}
          \/ \E g \in Syncing(k) : gpc[g] # "handled"

\* Every stored version of a RedisCluster, and every creation, deletion or change
\* of the status of its StatefulSet, is read by a later sync (or overtaken by one
\* that is) without a resync, unless the RedisCluster goes away, the operator is
\* stopped or a sync of this very key never returns.
ChangesAreObserved ==
    \A k \in Keys, v \in 1..(MaxVersion + MaxStsVersion) :
       /\ rcPresent[k] /\ rcVersion[k] >= v
             ~> rcSeen[k] >= v \/ ~rcPresent[k] \/ shuttingDown \/ Hung(k)
       /\ rcPresent[k] /\ stsVersion[k] >= v
             ~> stsSeen[k] >= v \/ ~rcPresent[k] \/ shuttingDown \/ Hung(k)

\* "start a goroutine that probes the health of the cluster all the time" (sync):
\* while the informer resyncs, a cached RedisCluster is synced again and again,
\* however its earlier syncs ended (a panic and the last retry included), unless
\* the operator is stopped or a sync of this very key never returns.
SyncsKeepComing ==
    (\A k \in Keys : WF_vars(Resync(k))) =>
       \A k \in Keys : []<>(\/ \E g \in Syncing(k) : gpc[g] = "start"
                            \/ ~rcPresent[k] \/ shuttingDown \/ Hung(k))

\* The loop implements the contract of KeyedSync: the marks are the dirty set
\* and a key is busy from Get until the goroutine's Done.
Contract == INSTANCE KeyedSync WITH pending <- dirty, busy <- Held
ImplementsKeyedSync == Contract!Spec
=============================================================================
