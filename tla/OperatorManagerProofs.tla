------------------------- MODULE OperatorManagerProofs -------------------------
(***************************************************************************)
(* The operator runs in one process at a time, for any number of replicas  *)
(* and every lease that satisfies ManagerAssumption.  TypeOK and           *)
(* LeaseDiscipline together are inductive.                                 *)
(***************************************************************************)
EXTENDS OperatorManager, TLAPS

Inductive == TypeOK /\ LeaseDiscipline

\* The moments at which nobody has begun a try yet satisfy the invariant.
LEMMA InitInductive == Init => Inductive
  BY ManagerAssumption DEF Init, Inductive, TypeOK, LeaseDiscipline, TriesAreConsistent,
     LeaderIsPunctual, LockIsGuarded, OperatorNeedsProcess, Owner, Leading,
     ProcStages, OpStages, TrySteps

\* tryAcquireOrRenew returns false in a leader that has time left, or in a
\* candidate: the try is forgotten.
LEMMA EndTryInductive ==
  ASSUME Inductive, NEW r \in Replicas, EndTry(r), r \notin final,
         UNCHANGED <<flags, crd, procVars, obsVars, renewed, holder>>,
         orphans' \subseteq orphans \cup (fresh \cap {r}),
         faults' \in 0..MaxFaults
  PROVE  Inductive'
<1>. USE ManagerAssumption DEF Inductive, LeaseDiscipline, EndTry, procVars, obsVars
<1>1. TypeOK'
  BY DEF TypeOK, TrySteps
<1>2. TriesAreConsistent' /\ OperatorNeedsProcess'
  BY DEF TypeOK, TriesAreConsistent, OperatorNeedsProcess, Leading
<1>3. LeaderIsPunctual'
  BY DEF TypeOK, TriesAreConsistent, LeaderIsPunctual, Leading
<1>4. LockIsGuarded'
  BY DEF TypeOK, LockIsGuarded, Owner, Leading
<1>. QED  BY <1>1, <1>2, <1>3, <1>4

\* The process ends, whatever it was doing: it owns nothing any more.  An update
\* it had sent may stay behind.
LEMMA ExitInductive ==
  ASSUME Inductive, NEW r \in Replicas, Exit(r),
         UNCHANGED <<flags, crd, holder>>,
         orphans' \subseteq orphans \cup (fresh \cap {r}),
         faults' \in 0..MaxFaults
  PROVE  Inductive'
<1>. USE ManagerAssumption DEF Inductive, LeaseDiscipline, Exit, EndTry
<1>1. TypeOK'
  BY DEF TypeOK, TrySteps, ProcStages, OpStages
<1>2. TriesAreConsistent' /\ OperatorNeedsProcess'
  BY DEF TypeOK, TriesAreConsistent, OperatorNeedsProcess, Leading
<1>3. LeaderIsPunctual'
  BY DEF TypeOK, LeaderIsPunctual, Leading
<1>4. LockIsGuarded'
  BY DEF TypeOK, LockIsGuarded, Owner, Leading
<1>. QED  BY <1>1, <1>2, <1>3, <1>4

\* The same for a try that fails: the last one of a leader ends the process.
LEMMA TryFailsInductive ==
  ASSUME Inductive, NEW r \in Replicas, TryFails(r),
         UNCHANGED <<flags, crd, holder>>,
         orphans' \subseteq orphans \cup (fresh \cap {r}),
         faults' \in 0..MaxFaults
  PROVE  Inductive'
  BY EndTryInductive, ExitInductive DEF TryFails

\* How long a leader can be behind: anybody who may take over has waited longer.
LEMMA LeaderIsInTime ==
  ASSUME Inductive, NEW r \in Replicas, Leading(r)
  PROVE  renewed[r] < RenewDeadline + 2 * TryTime
  BY ManagerAssumption DEF Inductive, TypeOK, LeaseDiscipline, LeaderIsPunctual

\* While r owns the lock, nobody else has seen its record for a whole lease.
LEMMA NoLeaseIsOver ==
  ASSUME Inductive, NEW r \in Replicas, Owner(r), NEW q \in Replicas \ {r}, q \in seen
  PROVE  observed[q] < LeaseDuration
<1>. USE ManagerAssumption DEF Inductive, TypeOK, LeaseDiscipline, LockIsGuarded
<1>1. CASE Leading(r)
  BY <1>1, LeaderIsInTime DEF Owner
<1>2. CASE pc[r] = "updated"
  BY <1>2 DEF Owner
<1>. QED  BY <1>1, <1>2 DEF Owner

\* Starting a process and the operator in it gives nobody the lock.
LEMMA StartupInductive ==
  ASSUME Inductive, NEW r \in Replicas, StartupStep(r) \/ OperatorStep(r)
  PROVE  Inductive'
<1>. USE ManagerAssumption
     DEF Inductive, LeaseDiscipline, lockVars, tryVars, obsVars, NoFault, Faulty
<1>1. CASE StartProcess(r)
  BY <1>1 DEF StartProcess, TypeOK, ProcStages, TriesAreConsistent, LeaderIsPunctual,
     LockIsGuarded, OperatorNeedsProcess, Owner, Leading
<1>2. CASE CreateRedisClusterCRD(r)
  <2>1. TypeOK'
    <3>1. crd \in BOOLEAN /\ crd' \in {crd, TRUE}
      BY <1>2 DEF CreateRedisClusterCRD, TypeOK
    <3>0. crd' \in BOOLEAN
      BY <3>1, Zenon
    <3>2. \/ faults' = faults
          \/ faults < MaxFaults /\ faults' = faults + 1
      BY <1>2, Zenon DEF CreateRedisClusterCRD
    <3>3. proc' \in [Replicas -> ProcStages] /\ op' \in [Replicas -> OpStages]
      BY <1>2 DEF CreateRedisClusterCRD, TypeOK, ProcStages, OpStages
    <3>. QED  BY <1>2, <3>0, <3>2, <3>3 DEF CreateRedisClusterCRD, TypeOK
  <2>2. TriesAreConsistent' /\ OperatorNeedsProcess'
    BY <1>2 DEF CreateRedisClusterCRD, TypeOK, TriesAreConsistent, OperatorNeedsProcess,
       Leading
  <2>3. \A p \in Replicas : Leading(p)' <=> Leading(p)
    BY <1>2 DEF CreateRedisClusterCRD, TypeOK, Leading
  <2>4. LeaderIsPunctual' /\ LockIsGuarded'
    BY <1>2, <2>3 DEF CreateRedisClusterCRD, LeaderIsPunctual, LockIsGuarded, Owner
  <2>. QED  BY <2>1, <2>2, <2>4
<1>3. CASE OperatorStep(r)
  <2>1. TypeOK'
    BY <1>3 DEF OperatorStep, StartOperators, StartInformers, StartWorkers, TypeOK, OpStages
  <2>2. OperatorNeedsProcess'
    BY <1>3 DEF OperatorStep, StartOperators, StartInformers, StartWorkers, TypeOK,
       OperatorNeedsProcess
  <2>3. TriesAreConsistent' /\ LeaderIsPunctual' /\ LockIsGuarded'
    BY <1>3 DEF OperatorStep, StartOperators, StartInformers, StartWorkers,
       TriesAreConsistent, LeaderIsPunctual, LockIsGuarded, Owner, Leading
  <2>. QED  BY <2>1, <2>2, <2>3
<1>. QED  BY <1>1, <1>2, <1>3 DEF StartupStep

\* A try begins: a replica that finds its lease time over is not one of those
\* that see the record of a live owner.
LEMMA BeginTryInductive ==
  ASSUME Inductive, NEW r \in Replicas, BeginTry(r)
  PROVE  Inductive'
<1>. USE ManagerAssumption DEF Inductive, LeaseDiscipline, BeginTry, procVars, lockVars, obsVars
<1>1. TypeOK'
  BY DEF TypeOK, TrySteps
<1>2. TriesAreConsistent' /\ OperatorNeedsProcess'
  BY DEF TypeOK, TriesAreConsistent, OperatorNeedsProcess, Leading
<1>3. LeaderIsPunctual'
  BY DEF TypeOK, TriesAreConsistent, LeaderIsPunctual, Leading
<1>4. LockIsGuarded'
  <2>1. \A p \in Replicas : Owner(p)' => Owner(p)
    BY DEF TypeOK, Owner, Leading
  <2>2. \A p \in Replicas : Owner(p) =>
           \A q \in Replicas \ {p} : q \in seen => ~(observed[q] >= LeaseDuration)
    BY NoLeaseIsOver DEF TypeOK
  <2>. QED
    BY <2>1, <2>2 DEF TypeOK, LockIsGuarded, TriesAreConsistent, Leading
<1>. QED  BY <1>1, <1>2, <1>3, <1>4

\* Reading the lock: whoever finds that it may be taken is its owner, or there
\* is none.
LEMMA GetInductive ==
  ASSUME Inductive, NEW r \in Replicas, Get(r)
  PROVE  Inductive'
<1>. USE ManagerAssumption
<1>1. CASE /\ NoFault /\ MayTake(r) /\ Observe(r)
           /\ pc' = [pc EXCEPT ![r] = "update"] /\ fresh' = fresh \cup {r}
           /\ UNCHANGED <<procVars, expired, final, tried, renewed>>
           /\ UNCHANGED <<flags, crd, lockVars>>
  <2>. USE <1>1 DEF Inductive, LeaseDiscipline, Get, Observe, NoFault, procVars, lockVars
  <2>1. TypeOK'
    BY DEF TypeOK, TrySteps
  <2>2. TriesAreConsistent' /\ OperatorNeedsProcess'
    BY DEF TypeOK, TriesAreConsistent, OperatorNeedsProcess, Leading
  <2>3. LeaderIsPunctual'
    BY DEF TypeOK, LeaderIsPunctual, Leading
  <2>4. \A p \in Replicas : Owner(p)' => Owner(p)
    BY DEF TypeOK, Owner, Leading
  <2>5. \A p \in Replicas : Owner(p) => p = r
    BY DEF LockIsGuarded, MayTake
  <2>6. LockIsGuarded'
    BY <2>4, <2>5 DEF TypeOK, LockIsGuarded, Leading
  <2>. QED  BY <2>1, <2>2, <2>3, <2>6
<1>2. CASE /\ NoFault /\ r \notin final /\ EndTry(r) /\ Observe(r)
           /\ UNCHANGED <<procVars, renewed>>
           /\ UNCHANGED <<flags, crd, lockVars>>
  <2>. USE <1>2 DEF Inductive, LeaseDiscipline, Observe, EndTry, NoFault, procVars, lockVars
  <2>1. TypeOK'
    BY DEF TypeOK, TrySteps
  <2>2. TriesAreConsistent' /\ OperatorNeedsProcess'
    BY DEF TypeOK, TriesAreConsistent, OperatorNeedsProcess, Leading
  <2>3. LeaderIsPunctual'
    BY DEF Get, TypeOK, TriesAreConsistent, LeaderIsPunctual, Leading
  <2>4. \A p \in Replicas : Owner(p)' => Owner(p)
    BY DEF TypeOK, Owner, Leading
  <2>5. LockIsGuarded'
    BY <2>4 DEF TypeOK, LockIsGuarded, Leading
  <2>. QED  BY <2>1, <2>2, <2>3, <2>5
<1>3. CASE NoFault /\ r \in final /\ Exit(r) /\ UNCHANGED <<flags, crd, lockVars>>
  BY <1>3, ExitInductive DEF NoFault, lockVars, Inductive, TypeOK
<1>4. CASE Faulty /\ TryFails(r) /\ UNCHANGED <<flags, crd, lockVars>>
  BY <1>4, TryFailsInductive DEF Faulty, lockVars, Inductive, TypeOK
<1>. QED  BY <1>1, <1>2, <1>3, <1>4 DEF Get

\* Writing the lock: an update that is accepted leaves one owner and no copy of
\* the lock that could be written back.
LEMMA UpdateInductive ==
  ASSUME Inductive, NEW r \in Replicas, Update(r)
  PROVE  Inductive'
<1>. USE ManagerAssumption
<1>1. CASE /\ NoFault /\ UpdateAccepted(r) /\ Written(r)
           /\ pc' = [pc EXCEPT ![r] = "updated"]
           /\ UNCHANGED <<procVars, expired, final, tried, observed, renewed>>
           /\ UNCHANGED <<flags, crd>>
  <2>. USE <1>1 DEF Inductive, LeaseDiscipline, Update, Written, NoFault, procVars
  <2>1. TypeOK'
    BY DEF TypeOK, TrySteps
  <2>2. TriesAreConsistent' /\ OperatorNeedsProcess'
    BY DEF TypeOK, TriesAreConsistent, OperatorNeedsProcess, Leading
  <2>3. LeaderIsPunctual'
    BY DEF TypeOK, LeaderIsPunctual, Leading
  <2>4. \A p \in Replicas \ {r} : ~Owner(p)
    BY DEF LockIsGuarded, UpdateAccepted
  <2>5. \A p \in Replicas \ {r} : ~Owner(p)'
    BY <2>4 DEF TypeOK, Owner, Leading
  <2>6. LockIsGuarded'
    BY <2>5 DEF TypeOK, LockIsGuarded
  <2>. QED  BY <2>1, <2>2, <2>3, <2>6
<1>2. CASE NoFault /\ TryFails(r) /\ UNCHANGED lockVars /\ UNCHANGED <<flags, crd>>
  BY <1>2, TryFailsInductive DEF NoFault, lockVars, Inductive, TypeOK
<1>3. CASE /\ Faulty /\ TryFails(r) /\ UNCHANGED holder
           /\ orphans' \in {orphans, orphans \cup (fresh \cap {r})}
           /\ UNCHANGED <<flags, crd>>
  BY <1>3, TryFailsInductive DEF Faulty, Inductive, TypeOK
<1>. QED  BY <1>1, <1>2, <1>3 DEF Update

\* An update nobody waits for arrives: nobody owned the lock, or its sender did.
LEMMA LateUpdateInductive ==
  ASSUME Inductive, NEW r \in Replicas, LateUpdate(r)
  PROVE  Inductive'
<1>. USE ManagerAssumption DEF Inductive, LeaseDiscipline, LateUpdate, procVars
<1>1. TypeOK'
  BY DEF TypeOK
<1>2. TriesAreConsistent' /\ OperatorNeedsProcess' /\ LeaderIsPunctual'
  BY DEF TriesAreConsistent, OperatorNeedsProcess, LeaderIsPunctual, Leading
<1>3. \A p \in Replicas : Owner(p)' => Owner(p)
  BY DEF Owner, Leading
<1>4. \A p \in Replicas : Owner(p) => p = r
  BY DEF LockIsGuarded
<1>5. LockIsGuarded'
  BY <1>3, <1>4 DEF LockIsGuarded
<1>. QED  BY <1>1, <1>2, <1>5

\* The answer to an update: its sender was the owner before, and now leads.
LEMMA ReplyInductive ==
  ASSUME Inductive, NEW r \in Replicas, Reply(r)
  PROVE  Inductive'
<1>. USE ManagerAssumption
<1>1. CASE /\ NoFault /\ EndTry(r)
           /\ seen' = IF r \in fresh THEN seen \cup {r} ELSE seen
           /\ observed' = [observed EXCEPT ![r] = 0] /\ renewed' = [renewed EXCEPT ![r] = 0]
           /\ proc' = [proc EXCEPT ![r] = "running"]
           /\ op' = [op EXCEPT ![r] = IF proc[r] = "candidate" THEN "begin" ELSE @]
           /\ UNCHANGED <<flags, crd, lockVars>>
  <2>. USE <1>1 DEF Inductive, LeaseDiscipline, Reply, EndTry, NoFault, lockVars
  <2>1. TypeOK'
    BY DEF TypeOK, TrySteps, ProcStages, OpStages
  <2>2. TriesAreConsistent' /\ OperatorNeedsProcess'
    BY DEF TypeOK, TriesAreConsistent, OperatorNeedsProcess, Leading
  <2>3. LeaderIsPunctual'
    BY DEF TypeOK, TriesAreConsistent, LeaderIsPunctual, Leading
  <2>4. Owner(r) /\ \A p \in Replicas : Owner(p) => p = r
    BY DEF LockIsGuarded, Owner
  <2>5. \A p \in Replicas : Owner(p)' => p = r
    BY <2>4 DEF TypeOK, Owner, Leading
  <2>6. \A q \in Replicas \ {r} : q \in seen => observed[q] <= TryTime
    BY <2>4 DEF TypeOK, LockIsGuarded
  <2>7. LockIsGuarded'
    BY <2>4, <2>5, <2>6 DEF TypeOK, LockIsGuarded
  <2>. QED  BY <2>1, <2>2, <2>3, <2>7
<1>2. CASE Faulty /\ TryFails(r) /\ UNCHANGED <<flags, crd, lockVars>>
  BY <1>2, TryFailsInductive DEF Faulty, lockVars, Inductive, TypeOK
<1>. QED  BY <1>1, <1>2 DEF Reply

\* Time passes: what an owner's age and a candidate's wait differ by stays.
LEMMA TickInductive ==
  ASSUME Inductive, Tick
  PROVE  Inductive'
<1>. USE ManagerAssumption DEF Inductive, LeaseDiscipline, Tick, procVars, lockVars
<1>1. TypeOK'
  BY DEF TypeOK
<1>2. TriesAreConsistent' /\ OperatorNeedsProcess'
  BY DEF TypeOK, TriesAreConsistent, OperatorNeedsProcess, Leading
<1>3. LeaderIsPunctual'
  BY DEF TypeOK, LeaderIsPunctual, Leading
<1>4. \A p \in Replicas : Owner(p)' => Owner(p)
  BY DEF Owner, Leading
<1>5. LockIsGuarded'
  BY <1>4 DEF TypeOK, LockIsGuarded, Leading
<1>. QED  BY <1>1, <1>2, <1>3, <1>5

LEMMA StepInductive == Inductive /\ [Next]_vars => Inductive'
<1>. SUFFICES ASSUME Inductive, [Next]_vars PROVE Inductive'
  OBVIOUS
<1>1. ASSUME NEW r \in Replicas, ElectorStep(r) PROVE Inductive'
  BY <1>1, BeginTryInductive, GetInductive, UpdateInductive, ReplyInductive DEF ElectorStep
<1>2. ASSUME NEW r \in Replicas, StartupStep(r) \/ OperatorStep(r) PROVE Inductive'
  BY <1>2, StartupInductive
<1>3. ASSUME NEW r \in Replicas, LateUpdate(r) PROVE Inductive'
  BY <1>3, LateUpdateInductive
<1>4. ASSUME NEW r \in Replicas, Crash(r) PROVE Inductive'
  <2>1. orphans' \subseteq orphans \cup (fresh \cap {r})
    BY <1>4 DEF Crash
  <2>2. faults' \in 0..MaxFaults
    BY <1>4, ManagerAssumption DEF Crash, Faulty, Inductive, TypeOK
  <2>. QED  BY <1>4, <2>1, <2>2, ExitInductive DEF Crash
<1>5. CASE Tick
  BY <1>5, TickInductive
<1>6. CASE UNCHANGED vars
  BY <1>6 DEF vars, procVars, lockVars, tryVars, obsVars, Inductive, TypeOK, LeaseDiscipline,
     TriesAreConsistent, LeaderIsPunctual, LockIsGuarded, OperatorNeedsProcess, Owner, Leading
<1>. QED  BY <1>1, <1>2, <1>3, <1>4, <1>5, <1>6 DEF Next

\* The lease protocol of the replicas keeps its discipline: a leader that cannot
\* renew ends before anybody else may take the lock (leaderelection.go).
THEOREM DisciplineOfTheLease == Spec => []LeaseDiscipline
<1>1. Inductive => LeaseDiscipline
  BY DEF Inductive
<1>. QED  BY InitInductive, StepInductive, <1>1, PTL DEF Spec

\* Type correctness of the replicas and the lock.
THEOREM ManagerTypeCorrect == Spec => []TypeOK
<1>1. Inductive => TypeOK
  BY DEF Inductive
<1>. QED  BY InitInductive, StepInductive, <1>1, PTL DEF Spec

\* With leader election the operator (run, operatormanager.go) is started in at
\* most one process at any time.
THEOREM OperatorIsUnique == Spec => []OneOperator
<1>1. Inductive => OneOperator
  BY DEF Inductive, LeaseDiscipline, LockIsGuarded, OperatorNeedsProcess, Owner, Leading,
     OneOperator
<1>. QED  BY InitInductive, StepInductive, <1>1, PTL DEF Spec
=============================================================================
