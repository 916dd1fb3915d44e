---------------------------- MODULE OperatorManager ----------------------------
(***************************************************************************)
(* The replicas of the operator-manager process (operatormanager.go): their *)
(* startup, the leader election of client-go that guards the operator, and *)
(* the start of the operator's informers and workers.                      *)
(*                                                                         *)
(* The lock is one Endpoints object.  Its resource version is kept as the  *)
(* set fresh: the replicas whose running try read (or wrote) the lock as   *)
(* it is now.  The record a replica last observed is kept as the set seen: *)
(* the replicas whose observedRecord is the one in the lock.  Times are    *)
(* ages, counted by Tick; tries start at any time, so that RetryPeriod and *)
(* its jitter need no constant of their own.                               *)
(***************************************************************************)
EXTENDS Naturals, Sequences

CONSTANTS Replicas,        \* processes; a replica's identity is its hostname
          Nobody,
          LeaseDuration,
          RenewDeadline,
          TryTime,         \* bound: duration of one tryAcquireOrRenew
          OperatorLists,   \* values of the --operators flag
          MaxFaults        \* bound: crashes and failed requests

ASSUME ManagerAssumption ==
    /\ Nobody \notin Replicas
    /\ LeaseDuration \in Nat /\ RenewDeadline \in Nat \ {0} /\ TryTime \in Nat \ {0}
    /\ RenewDeadline + 3 * TryTime <= LeaseDuration
    /\ MaxFaults \in Nat

VARIABLES flags,      \* leaderElect and operators, the same for all replicas
          crd,        \* the CustomResourceDefinition exists
          proc, op,   \* stage of each process and of the operator in it
          holder,     \* HolderIdentity in the lock
          orphans,    \* replicas with an Update nobody waits for any more
          pc,         \* step of the replica's tryAcquireOrRenew
          fresh, seen, expired, final,
          observed,   \* age of observedTime, up to LeaseDuration
          renewed,    \* time since the leader entered wait.Poll
          tried,      \* time since the running try began
          faults

procVars == <<proc, op>>
lockVars == <<holder, orphans>>
tryVars  == <<pc, fresh, expired, final, tried>>
obsVars  == <<seen, observed>>
vars == <<flags, crd, procVars, lockVars, tryVars, obsVars, renewed, faults>>

ProcStages == {"down", "starting", "candidate", "running"}
OpStages   == {"none", "begin", "waiting", "watching", "workers", "disabled"}
TrySteps   == {"idle", "get", "update", "updated"}

Init ==
    /\ flags \in [leaderElect : BOOLEAN, operators : OperatorLists]
    /\ crd \in BOOLEAN
    /\ proc = [r \in Replicas |-> "down"] /\ op = [r \in Replicas |-> "none"]
    /\ holder = Nobody /\ orphans = {}
    /\ pc = [r \in Replicas |-> "idle"]
    /\ fresh = {} /\ seen = {} /\ expired = {} /\ final = {}
    /\ observed = [r \in Replicas |-> 0] /\ renewed = [r \in Replicas |-> 0]
    /\ tried = [r \in Replicas |-> 0]
    /\ faults = 0
-----------------------------------------------------------------------------
Faulty  == faults < MaxFaults /\ faults' = faults + 1
NoFault == UNCHANGED faults

\* The first entry that names the operator decides, else "*" does.
IsOperatorEnabled(name, minusName, list) ==
    LET explicit == SelectSeq(list, LAMBDA c : c \in {name, minusName})
    IN  IF explicit # <<>> THEN Head(explicit) = name
        ELSE \E i \in DOMAIN list : list[i] = "*"

Enabled == IsOperatorEnabled("rediscluster", "-rediscluster", flags.operators)

Leading(r) == proc[r] = "running" /\ flags.leaderElect

EndTry(r) ==
    /\ pc' = [pc EXCEPT ![r] = "idle"]
    /\ fresh' = fresh \ {r} /\ expired' = expired \ {r} /\ final' = final \ {r}
    /\ tried' = [tried EXCEPT ![r] = 0]

\* Mutant of Exit: OnStoppedLeading leaves the operator running.
ExitKeepingOperator(r) ==
    /\ proc' = [proc EXCEPT ![r] = "down"] /\ UNCHANGED op
    /\ EndTry(r)
    /\ seen' = seen \ {r} /\ observed' = [observed EXCEPT ![r] = 0]
    /\ renewed' = [renewed EXCEPT ![r] = 0]

\* glog.Fatal and its kind: the process ends and all it knew is gone.
Exit(r) ==
    /\ proc' = [proc EXCEPT ![r] = "down"] /\ op' = [op EXCEPT ![r] = "none"]
    /\ EndTry(r)
    /\ seen' = seen \ {r} /\ observed' = [observed EXCEPT ![r] = 0]
    /\ renewed' = [renewed EXCEPT ![r] = 0]
-----------------------------------------------------------------------------
(***************************************************************************)
(* Startup.                                                                *)
(***************************************************************************)
\* The kubelet starts the container (restartPolicy Always).
StartProcess(r) ==
    /\ proc[r] = "down"
    /\ proc' = [proc EXCEPT ![r] = "starting"]
    /\ UNCHANGED <<flags, crd, op, lockVars, tryVars, obsVars, renewed, faults>>

\* Mutant of CreateRedisClusterCRD: AlreadyExists ends the process.
CreateOnlyOnce(r) ==
    /\ proc[r] = "starting" /\ crd' = TRUE
    /\ proc' = [proc EXCEPT ![r] = IF crd THEN "down"
                                   ELSE IF flags.leaderElect THEN "candidate" ELSE "running"]
    /\ op' = [op EXCEPT ![r] = IF crd \/ flags.leaderElect THEN "none" ELSE "begin"]
    /\ UNCHANGED <<flags, lockVars, tryVars, obsVars, renewed, faults>>

\* An existing definition is accepted, any other error ends the process.  With
\* leader election off, the operator runs at once.
CreateRedisClusterCRD(r) ==
    /\ proc[r] = "starting"
    /\ \/ /\ NoFault /\ crd' = TRUE
          /\ proc' = [proc EXCEPT ![r] = IF flags.leaderElect THEN "candidate" ELSE "running"]
          /\ op' = [op EXCEPT ![r] = IF flags.leaderElect THEN "none" ELSE "begin"]
       \/ /\ Faulty /\ crd' \in {crd, TRUE}
          /\ proc' = [proc EXCEPT ![r] = "down"] /\ UNCHANGED op
    /\ UNCHANGED <<flags, lockVars, tryVars, obsVars, renewed>>

\* CreateOperatorContext and StartOperators: the new operator registers its
\* informers with the factories; its Run waits for their caches.
StartOperators(r) ==
    /\ op[r] = "begin"
    /\ op' = [op EXCEPT ![r] = IF Enabled THEN "waiting" ELSE "disabled"]
    /\ UNCHANGED <<flags, crd, proc, lockVars, tryVars, obsVars, renewed, faults>>

\* The factories start the informers that are registered by now.
StartInformers(r) ==
    /\ op[r] = "waiting"
    /\ op' = [op EXCEPT ![r] = "watching"]
    /\ UNCHANGED <<flags, crd, proc, lockVars, tryVars, obsVars, renewed, faults>>

\* WaitForCacheSync has succeeded: the RedisClusters can be listed.
StartWorkers(r) ==
    /\ op[r] = "watching" /\ crd
    /\ op' = [op EXCEPT ![r] = "workers"]
    /\ UNCHANGED <<flags, crd, proc, lockVars, tryVars, obsVars, renewed, faults>>
-----------------------------------------------------------------------------
(***************************************************************************)
(* Leader election: acquire and renew call tryAcquireOrRenew.              *)
(***************************************************************************)
\* now is taken before the lock is read.  After RenewDeadline the condition of
\* wait.Poll is evaluated a last time.
BeginTry(r) ==
    /\ flags.leaderElect /\ proc[r] \in {"candidate", "running"} /\ pc[r] = "idle"
    /\ pc' = [pc EXCEPT ![r] = "get"]
    /\ expired' = IF observed[r] >= LeaseDuration THEN expired \cup {r} ELSE expired
    /\ final' = IF Leading(r) /\ renewed[r] >= RenewDeadline THEN final \cup {r} ELSE final
    /\ UNCHANGED <<flags, crd, procVars, lockVars, fresh, tried, obsVars, renewed, faults>>

\* tryAcquireOrRenew returns false: after the last try of a leader,
\* OnStoppedLeading ends the process.
TryFails(r) ==
    IF r \in final THEN Exit(r)
    ELSE EndTry(r) /\ UNCHANGED <<procVars, obsVars, renewed>>

\* A lock that does not exist is created, an own one renewed; another one is
\* taken over when the observed record has not changed for LeaseDuration.
MayTake(r) == holder \in {Nobody, r} \/ (r \in seen /\ r \in expired)

Observe(r) ==
    /\ seen' = IF holder = Nobody THEN seen ELSE seen \cup {r}
    /\ observed' = [observed EXCEPT ![r] = IF r \in seen THEN @ ELSE 0]

Get(r) ==
    /\ pc[r] = "get"
    /\ \/ /\ NoFault /\ MayTake(r) /\ Observe(r)
          /\ pc' = [pc EXCEPT ![r] = "update"] /\ fresh' = fresh \cup {r}
          /\ UNCHANGED <<procVars, expired, final, tried, renewed>>
       \/ /\ NoFault /\ ~MayTake(r)
          /\ IF r \in final THEN Exit(r)
             ELSE EndTry(r) /\ Observe(r) /\ UNCHANGED <<procVars, renewed>>
       \/ Faulty /\ TryFails(r)
    /\ UNCHANGED <<flags, crd, lockVars>>

\* Mutant of UpdateAccepted: the resource version is not sent.
AcceptAny(r) == TRUE

\* The API server accepts an update of the version that was read (a create, if
\* there is still no lock).
UpdateAccepted(r) == r \in fresh

\* The lock changes: every copy of it that was read before is old.
Written(r) ==
    /\ holder' = r /\ orphans' = {} /\ fresh' = {r} /\ seen' = {}

Update(r) ==
    /\ pc[r] = "update"
    /\ \/ /\ NoFault /\ UpdateAccepted(r) /\ Written(r)
          /\ pc' = [pc EXCEPT ![r] = "updated"]
          /\ UNCHANGED <<procVars, expired, final, tried, observed, renewed>>
       \/ NoFault /\ ~UpdateAccepted(r) /\ TryFails(r) /\ UNCHANGED lockVars
       \/ \* The request fails here; it may still be on its way.
          /\ Faulty /\ TryFails(r) /\ UNCHANGED holder
          /\ orphans' \in {orphans, orphans \cup (fresh \cap {r})}
    /\ UNCHANGED <<flags, crd>>

LateUpdate(r) ==
    /\ r \in orphans
    /\ holder' = r /\ orphans' = {} /\ fresh' = {} /\ seen' = {}
    /\ UNCHANGED <<flags, crd, procVars, pc, expired, final, tried, observed, renewed, faults>>

\* The try succeeds, or its answer is lost.  The first success starts run.
Reply(r) ==
    /\ pc[r] = "updated"
    /\ \/ /\ NoFault /\ EndTry(r)
          /\ seen' = IF r \in fresh THEN seen \cup {r} ELSE seen
          /\ observed' = [observed EXCEPT ![r] = 0] /\ renewed' = [renewed EXCEPT ![r] = 0]
          /\ proc' = [proc EXCEPT ![r] = "running"]
          /\ op' = [op EXCEPT ![r] = IF proc[r] = "candidate" THEN "begin" ELSE @]
       \/ Faulty /\ TryFails(r)
    /\ UNCHANGED <<flags, crd, lockVars>>
-----------------------------------------------------------------------------
\* A crash, or a Fatal of startHTTP, ClientOrDie or an initializer.
Crash(r) ==
    /\ proc[r] # "down" /\ Faulty /\ Exit(r)
    /\ orphans' \in {orphans, IF pc[r] = "update" THEN orphans \cup (fresh \cap {r}) ELSE orphans}
    /\ UNCHANGED <<flags, crd, holder>>

\* Time passes, but a try ends within TryTime and the last try begins when
\* RenewDeadline is over.  (The code keeps time stamps; ages beyond LeaseDuration
\* make no difference and are not counted.)
Tick ==
    /\ \A r \in Replicas : pc[r] # "idle" => tried[r] < TryTime
    /\ \A r \in Replicas : Leading(r) /\ pc[r] = "idle" => renewed[r] < RenewDeadline
    /\ observed' = [r \in Replicas |-> IF r \in seen /\ observed[r] < LeaseDuration
                                       THEN observed[r] + 1 ELSE observed[r]]
    /\ renewed' = [r \in Replicas |-> IF Leading(r) THEN renewed[r] + 1 ELSE renewed[r]]
    /\ tried' = [r \in Replicas |-> IF pc[r] # "idle" THEN tried[r] + 1 ELSE tried[r]]
    /\ UNCHANGED <<flags, crd, procVars, lockVars, pc, fresh, expired, final, seen, faults>>

ElectorStep(r) == BeginTry(r) \/ Get(r) \/ Update(r) \/ Reply(r)
StartupStep(r) == StartProcess(r) \/ CreateRedisClusterCRD(r)
OperatorStep(r) == StartOperators(r) \/ StartInformers(r) \/ StartWorkers(r)

Next ==
    \/ \E r \in Replicas :
          ElectorStep(r) \/ StartupStep(r) \/ OperatorStep(r) \/ LateUpdate(r) \/ Crash(r)
    \/ Tick

Spec == Init /\ [][Next]_vars

\* The kubelet restarts what ended, the goroutines of a process are scheduled
\* and time goes on.
FairSpec ==
    /\ Spec /\ WF_vars(Tick)
    /\ \A r \in Replicas :
          WF_vars(ElectorStep(r)) /\ WF_vars(StartupStep(r)) /\ WF_vars(OperatorStep(r))
-----------------------------------------------------------------------------
TypeOK ==
    /\ flags.leaderElect \in BOOLEAN /\ crd \in BOOLEAN
    /\ proc \in [Replicas -> ProcStages] /\ op \in [Replicas -> OpStages]
    /\ holder \in Replicas \cup {Nobody} /\ orphans \subseteq Replicas
    /\ pc \in [Replicas -> TrySteps]
    /\ fresh \subseteq Replicas /\ seen \subseteq Replicas
    /\ expired \subseteq Replicas /\ final \subseteq Replicas
    /\ observed \in [Replicas -> 0..LeaseDuration]
    /\ renewed \in [Replicas -> Nat] /\ tried \in [Replicas -> 0..TryTime]
    /\ faults \in 0..MaxFaults

\* With leader election, the operator (Run's run) is started in at most one
\* process at any time: over slow and lost requests, crashes, restarts and
\* updates of the lock that arrive late.
OneOperator ==
    flags.leaderElect =>
       \A p, q \in Replicas : op[p] # "none" /\ op[q] # "none" => p = q

\* The replica that leads, or will on the answer to its update.
Owner(r) == Leading(r) \/ pc[r] = "updated"

\* What a try knows is about this try.
TriesAreConsistent ==
    \A r \in Replicas :
       /\ pc[r] = "idle" => r \notin fresh \cup expired \cup final /\ tried[r] = 0
       /\ pc[r] = "get" => r \notin fresh
       /\ pc[r] # "idle" => flags.leaderElect /\ proc[r] \in {"candidate", "running"}
       /\ r \in final => Leading(r)

\* A leader gives up in time: the last try begins at RenewDeadline, or when the
\* try before it ends.
LeaderIsPunctual ==
    \A r \in Replicas : Leading(r) =>
       /\ pc[r] = "idle" => renewed[r] < RenewDeadline + TryTime
       /\ pc[r] # "idle" /\ r \notin final => renewed[r] < RenewDeadline + tried[r]
       /\ r \in final => renewed[r] < RenewDeadline + TryTime + tried[r]

\* While a replica owns the lock, nobody else can write it: no other update that
\* the server would accept is under way, and nobody has seen the record for as
\* long as a lease.
LockIsGuarded ==
    \A r \in Replicas : Owner(r) =>
       /\ holder = r
       /\ \A q \in Replicas \ {r} :
             /\ q \notin fresh \cup orphans
             /\ q \in seen =>
                   /\ ~(pc[q] = "get" /\ q \in expired)
                   /\ pc[r] = "updated" => observed[q] <= tried[r]
                   /\ Leading(r) => observed[q] <= renewed[r] + TryTime

\* The operator runs in a process that leads (or needs no lease).
OperatorNeedsProcess == \A r \in Replicas : op[r] # "none" => proc[r] = "running"

\* The lease does its work: a leader that cannot renew is gone before anybody
\* else may take the lock.
LeaseDiscipline ==
    TriesAreConsistent /\ LeaderIsPunctual /\ LockIsGuarded /\ OperatorNeedsProcess

\* In the end one process runs the operator's workers for good, whatever crashed
\* or got lost before.
Settles == Enabled => \E r \in Replicas : <>[](op[r] = "workers")
=============================================================================
