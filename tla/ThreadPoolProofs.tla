--------------------------- MODULE ThreadPoolProofs ---------------------------
(***************************************************************************)
(* Theorems about ThreadPool, for every value of its constants.            *)
(*                                                                         *)
(* The thread budget is inductive with the types: it only needs the        *)
(* counting lemmas.  That no thread outlives its worker object is not: the *)
(* invariant IInv says how far a stopping operation has come (OpInv), that *)
(* only the worker being joined may be live with running_ down             *)
(* (LiveRuns), and that the workers and groups it has passed are dead      *)
(* (PassedAreDead).                                                        *)
(***************************************************************************)
EXTENDS ThreadPool, FiniteSetTheorems, TLAPS

EmptyUnlessInitialized == ~initialized => Groups = {}

Stopping == op.kind \in {"remove", "shutdown", "shrink"}

OpInv ==
  /\ Stopping => op.tenant \in Groups
  /\ ToldToStop => op.at \in 1..(size[op.tenant] + 1)
  /\ op.kind = "shrink" => op.at = size[op.tenant] /\ op.target <= op.at
  /\ op.kind = "shutdown" => op.rest \subseteq Groups \ {op.tenant}
  /\ op.joining => /\ Stopping
                   /\ op.at \in 1..size[op.tenant]
                   /\ op.kind = "shrink" => op.target < op.at

LiveRuns ==
  \A w \in Slots : LiveThread(w) =>
     /\ w \in Workers
     /\ running[w] \/ (op.joining /\ w = Cursor)

PassedAreDead ==
  /\ ToldToStop => \A w \in Slots : w[1] = op.tenant /\ w[2] < op.at => ~LiveThread(w)
  /\ op.kind = "shutdown" =>
       \A w \in Slots : w[1] \notin op.rest \cup {op.tenant} => ~LiveThread(w)

IInv == /\ TypeOK /\ EmptyUnlessInitialized /\ ThreadBudget
        /\ CgroupReady /\ OpInv /\ LiveRuns /\ PassedAreDead
-------------------------------------------------------------------------------
(***************************************************************************)
(* Counting workers                                                        *)
(***************************************************************************)

\* There are finitely many slots, so the sets of workers can be counted.
LEMMA SlotsFinite == IsFiniteSet(Slots)
<1>1. IsFiniteSet(1..MaxThreads)
  BY ThreadPoolAssumption, FS_Interval
<1> QED  BY <1>1, ThreadPoolAssumption, FS_Product DEF Slots

LEMMA WorkersFinite ==
  /\ IsFiniteSet(Workers) /\ Allocated \in Nat
  /\ \A t : IsFiniteSet(WorkersOtherThan(t)) /\ AllocatedToOthers(t) \in Nat
<1>1. Workers \in SUBSET Slots
  BY DEF Workers
<1>2. IsFiniteSet(Workers)
  BY <1>1, SlotsFinite, FS_Subset
<1>3. ASSUME NEW t PROVE IsFiniteSet(WorkersOtherThan(t))
  <2>1. WorkersOtherThan(t) \in SUBSET Workers
    BY DEF WorkersOtherThan
  <2> QED  BY <1>2, <2>1, FS_Subset
<1> QED  BY <1>2, <1>3, FS_CardinalityType DEF Allocated, AllocatedToOthers

\* The n slots of one group are n.
LEMMA GroupCount ==
  ASSUME NEW t \in Tenants, NEW n \in Nat
  PROVE  IsFiniteSet(NewWorkers(t, 0, n)) /\ Cardinality(NewWorkers(t, 0, n)) = n
<1>1. IsFiniteSet(1..n) /\ Cardinality(1..n) = n
  BY FS_Interval
<1>2. IsFiniteSet({t}) /\ Cardinality({t}) = 1
  BY FS_Singleton
<1>3. IsFiniteSet({t} \X (1..n)) /\ Cardinality({t} \X (1..n)) = n
  <2>1. 1 * n = n
    OBVIOUS
  <2>2. /\ IsFiniteSet({t} \X (1..n))
        /\ Cardinality({t} \X (1..n)) = Cardinality({t}) * Cardinality(1..n)
    BY <1>1, <1>2, FS_Product
  <2> QED  BY <1>1, <1>2, <2>1, <2>2
<1>4. NewWorkers(t, 0, n) = {t} \X (1..n)
  BY DEF NewWorkers
<1> QED  BY <1>3, <1>4

\* Adding a group of n to a set S of workers adds at most n.
LEMMA AddGroupCount ==
  ASSUME NEW t \in Tenants, NEW n \in Nat, NEW S, IsFiniteSet(S),
         NEW T \in SUBSET (S \cup NewWorkers(t, 0, n))
  PROVE  IsFiniteSet(T) /\ Cardinality(T) <= Cardinality(S) + n
<1> DEFINE N == NewWorkers(t, 0, n)
<1>1. IsFiniteSet(N) /\ Cardinality(N) = n
  BY GroupCount
<1>2. /\ IsFiniteSet(S \cup N)
      /\ Cardinality(S \cup N) = Cardinality(S) + Cardinality(N) - Cardinality(S \cap N)
  BY <1>1, FS_Union
<1>3. IsFiniteSet(S \cap N)
  <2>1. S \cap N \in SUBSET S
    OBVIOUS
  <2> QED  BY <2>1, FS_Subset
<1>4. Cardinality(S) \in Nat /\ Cardinality(S \cap N) \in Nat /\ Cardinality(S \cup N) \in Nat
  BY <1>2, <1>3, FS_CardinalityType
<1>5. IsFiniteSet(T) /\ Cardinality(T) <= Cardinality(S \cup N) /\ Cardinality(T) \in Nat
  BY <1>2, FS_Subset, FS_CardinalityType
<1> QED  BY <1>1, <1>2, <1>4, <1>5
-------------------------------------------------------------------------------
(***************************************************************************)
(* Steps that leave threads_ of every group as it is, or shrink one        *)
(***************************************************************************)

\* Fewer workers in the same pool stay within the budget.
LEMMA BudgetOfSubset ==
  ASSUME ThreadBudget, totalThreads \in Nat, totalThreads' = totalThreads,
         Workers' \subseteq Workers
  PROVE  ThreadBudget'
<1>1. IsFiniteSet(Workers) /\ Cardinality(Workers) \in Nat
  BY WorkersFinite DEF Allocated
<1>2. Cardinality(Workers') <= Cardinality(Workers) /\ IsFiniteSet(Workers')
  <2>1. Workers' \in SUBSET Workers
    OBVIOUS
  <2> QED  BY <1>1, <2>1, FS_Subset
<1>3. Cardinality(Workers') \in Nat
  BY <1>2, FS_CardinalityType
<1> QED  BY <1>1, <1>2, <1>3 DEF ThreadBudget, SystemThreads, Allocated

\* Without groups the budget holds of any number of threads.
LEMMA BudgetOfEmpty ==
  ASSUME Groups' = {}, totalThreads' \in Nat
  PROVE  ThreadBudget'
<1>1. Workers' = {}
  BY DEF Workers
<1>2. Cardinality(Workers') = 0 /\ Cardinality(Workers') \in Nat
  BY <1>1, FS_EmptySet
<1>3. totalThreads' - Cardinality(Workers') >= 0
  <2> DEFINE n == totalThreads'
             c == Cardinality(Workers')
  <2>1. n \in Nat /\ c = 0
    BY <1>2
  <2> HIDE DEF n, c
  <2>2. n - c >= 0
    BY <2>1
  <2> QED  BY <2>2 DEF n, c
<1> QED  BY <1>3 DEF ThreadBudget, SystemThreads, Allocated

LEMMA InitIInv == Init => IInv
<1> SUFFICES ASSUME Init PROVE IInv
  OBVIOUS
<1> USE DEF Init
<1>1. Groups = {}
  BY DEF Groups
<1>2. TypeOK
  <2>1. DOMAIN cgroups = {} /\ DOMAIN size = {} /\ DOMAIN queue = {}
    OBVIOUS
  <2>2. cgroups \in [DOMAIN cgroups -> SUBSET ThreadIds]
    BY <2>1
  <2>3. size \in [Groups -> 0..MaxThreads] /\ queue \in [Groups -> Seq(Tasks)]
    BY <1>1, <2>1
  <2>4. op \in OpType
    BY ThreadPoolAssumption DEF OpType, NoOp
  <2> QED  BY <1>1, <2>1, <2>2, <2>3, <2>4 DEF TypeOK
<1>3. ThreadBudget
  <2>1. Workers = {}
    BY <1>1 DEF Workers
  <2>2. Cardinality(Workers) = 0
    BY <2>1, FS_EmptySet
  <2> QED  BY <2>2 DEF ThreadBudget, SystemThreads, Allocated
<1>4. EmptyUnlessInitialized /\ CgroupReady
  BY <1>1 DEF EmptyUnlessInitialized, CgroupReady
<1>5. OpInv /\ PassedAreDead /\ LiveRuns
  BY DEF OpInv, NoOp, Stopping, ToldToStop, PassedAreDead, LiveRuns, LiveThread
<1> QED  BY <1>2, <1>3, <1>4, <1>5 DEF IInv

\* A worker's own step changes neither objects nor flags, and a thread that
\* has left its loop stays out of it.
LEMMA WorkerStepIInv ==
  ASSUME IInv, NEW w \in Slots, WorkerStep(w)
  PROVE  IInv'
<1> USE DEF IInv
<1>1. UNCHANGED <<poolVars, cgroupVars, size, running, op>>
  BY DEF WorkerStep, CheckRunning, Sleep, Take, Discard, Executed, groupVars, taskVars
<1>2. \A v \in Slots : LiveThread(v)' => LiveThread(v)
  BY DEF TypeOK, WorkerStep, CheckRunning, Sleep, Take, Discard, Executed, LiveThread
<1>3. w[1] \in Groups /\ w[1] \in Tenants
  BY DEF LiveRuns, LiveThread, Workers, WorkerStep, CheckRunning, Sleep, Take, Discard, Executed, Slots
<1>4. TypeOK'
  <2>1. CASE CheckRunning(w) \/ Sleep(w)
    BY <2>1, <1>1 DEF TypeOK, CheckRunning, Sleep, groupVars, taskVars, poolVars, cgroupVars, Groups
  <2>2. CASE Take(w) \/ Discard(w)
    <3>1. queue[w[1]] \in Seq(Tasks) /\ queue[w[1]] # <<>>
      BY <1>3, <2>2 DEF TypeOK, Take, Discard
    <3>2. Head(queue[w[1]]) \in Tasks /\ Tail(queue[w[1]]) \in Seq(Tasks)
      BY <3>1
    <3>3. queue' \in [Groups -> Seq(Tasks)] /\ Groups' = Groups
      <4>1. queue \in [Groups -> Seq(Tasks)]
        BY DEF TypeOK
      <4>2. queue' = [queue EXCEPT ![w[1]] = Tail(queue[w[1]])]
        BY <2>2 DEF Take, Discard
      <4> HIDE DEF IInv
      <4>3. queue' \in [Groups -> Seq(Tasks)]
        BY <1>3, <3>2, <4>1, <4>2
      <4> QED  BY <1>1, <4>3 DEF Groups
    <3>4. CASE Take(w)
      BY <1>1, <3>2, <3>3, <3>4 DEF TypeOK, Take, taskVars, poolVars, cgroupVars
    <3>5. CASE Discard(w)
      BY <1>1, <3>2, <3>3, <3>5 DEF TypeOK, Discard, poolVars, cgroupVars
    <3> QED  BY <2>2, <3>4, <3>5
  <2>3. CASE Executed(w)
    BY <2>3, <1>1 DEF TypeOK, Executed, groupVars, poolVars, cgroupVars, Groups
  <2> QED  BY <2>1, <2>2, <2>3 DEF WorkerStep
<1>5. Groups' = Groups /\ Workers' = Workers
  BY <1>1 DEF Groups, Workers
<1>6. ThreadBudget'
  BY <1>1, <1>5, BudgetOfSubset DEF TypeOK, poolVars
<1>7. EmptyUnlessInitialized' /\ CgroupReady'
  BY <1>1, <1>5 DEF EmptyUnlessInitialized, CgroupReady, poolVars, cgroupVars
<1>8. OpInv'
  BY <1>1, <1>5 DEF OpInv, Stopping, ToldToStop
<1>9. LiveRuns' /\ PassedAreDead'
  BY <1>1, <1>2, <1>5 DEF LiveRuns, PassedAreDead, ToldToStop, Cursor
<1> QED  BY <1>4, <1>6, <1>7, <1>8, <1>9

LEMMA SubmitIInv ==
  ASSUME IInv, NEW t \in Tenants, NEW k \in Tasks, Submit(t, k)
  PROVE  IInv'
<1> USE DEF IInv
<1>1. UNCHANGED <<poolVars, cgroupVars, size, workerVars, op>> /\ t \in Groups
  BY DEF Submit
<1>2. Groups' = Groups /\ Workers' = Workers
  BY <1>1 DEF Groups, Workers
<1>3. TypeOK'
  <2>1. queue[t] \in Seq(Tasks)
    BY <1>1 DEF TypeOK
  <2>2. Append(queue[t], k) \in Seq(Tasks)
    BY <2>1
  <2>3. queue' \in [Groups -> Seq(Tasks)]
    BY <1>1, <2>2 DEF TypeOK, Submit
  <2> QED  BY <1>1, <1>2, <2>3 DEF TypeOK, Submit, poolVars, cgroupVars, workerVars
<1>4. ThreadBudget'
  BY <1>1, <1>2, BudgetOfSubset DEF TypeOK, poolVars
<1>5. EmptyUnlessInitialized' /\ CgroupReady'
  BY <1>1, <1>2 DEF EmptyUnlessInitialized, CgroupReady, poolVars, cgroupVars
<1>6. OpInv' /\ LiveRuns' /\ PassedAreDead'
  BY <1>1, <1>2 DEF OpInv, Stopping, LiveRuns, LiveThread, PassedAreDead, ToldToStop, Cursor, workerVars
<1> QED  BY <1>3, <1>4, <1>5, <1>6

LEMMA InitializeIInv ==
  ASSUME IInv, NEW total \in Totals, NEW enable \in CgroupModes, Initialize(total, enable)
  PROVE  IInv'
<1> USE DEF IInv
<1>1. UNCHANGED <<groupVars, workerVars, op, taskVars>>
  BY DEF Initialize
<1>2. Groups = {} /\ Groups' = {} /\ Workers' = Workers
  BY <1>1 DEF Initialize, EmptyUnlessInitialized, Groups, Workers, groupVars
<1>3. TypeOK'
  <2>1. total \in Nat /\ enable \in BOOLEAN /\ CgroupIO \subseteq BOOLEAN
    BY ThreadPoolAssumption
  <2>2. initialized' \in BOOLEAN /\ controller' \in BOOLEAN
    BY <2>1 DEF Initialize, TypeOK
  <2>3. DOMAIN cgroups' \subseteq Tenants /\ cgroups' \in [DOMAIN cgroups' -> SUBSET ThreadIds]
    <3>1. CASE enable
      <4>1. cgroups' = <<>> /\ DOMAIN cgroups' = {}
        BY <3>1 DEF Initialize
      <4> QED  BY <4>1
    <3>2. CASE ~enable
      BY <3>2 DEF Initialize, TypeOK
    <3> QED  BY <3>1, <3>2
  <2> QED  BY <1>1, <1>2, <2>1, <2>2, <2>3 DEF TypeOK, Initialize, groupVars, workerVars, taskVars
<1>4. ThreadBudget'
  BY <1>2, <1>3, BudgetOfEmpty DEF TypeOK
<1>5. EmptyUnlessInitialized' /\ CgroupReady'
  BY <1>2 DEF EmptyUnlessInitialized, CgroupReady, Initialize
<1>6. OpInv' /\ LiveRuns' /\ PassedAreDead'
  BY <1>1, <1>2 DEF OpInv, Stopping, LiveRuns, LiveThread, PassedAreDead, ToldToStop, Cursor,
                    workerVars, groupVars
<1> QED  BY <1>3, <1>4, <1>5, <1>6

\* Once the loop over a group's workers is through, none of them is live.
LEMMA StoppedGroupIsDead ==
  ASSUME IInv, ToldToStop, GroupStopped
  PROVE  \A w \in Slots : w[1] = op.tenant => ~LiveThread(w)
<1> USE DEF IInv
<1> SUFFICES ASSUME NEW w \in Slots, w[1] = op.tenant, LiveThread(w) PROVE FALSE
  OBVIOUS
<1>0. MaxThreads \in Nat
  BY ThreadPoolAssumption
<1>1. w[2] \in Nat /\ w[2] <= size[op.tenant]
  BY <1>0 DEF LiveRuns, Workers, Slots
<1>2. op.tenant \in Groups
  BY DEF OpInv, Stopping, ToldToStop
<1>3. size[op.tenant] \in Nat /\ op.at \in Nat
  BY <1>0, <1>2 DEF TypeOK, OpType
<1>4. w[2] < op.at
  BY <1>1, <1>3 DEF GroupStopped
<1> QED  BY <1>4 DEF PassedAreDead

\* The first and the last step of an operation that stops workers, and the
\* move of shutdown to its next group: only op changes.
LEMMA BeginIInv ==
  ASSUME IInv,
         \/ \E t \in Tenants : BeginRemove(t) \/ BeginShutdown(t)
         \/ \E t \in Tenants, n \in ThreadCounts : BeginShrink(t, n)
         \/ FinishShrink
         \/ \E t \in Tenants : NextGroup(t)
  PROVE  IInv'
<1> USE DEF IInv
<1>0. MaxThreads \in Nat /\ ThreadCounts \subseteq 0..MaxThreads
  BY ThreadPoolAssumption
<1>1. UNCHANGED <<poolVars, cgroupVars, groupVars, workerVars, taskVars>>
  BY DEF BeginRemove, BeginShutdown, BeginShrink, FinishShrink, NextGroup
<1>2. Groups' = Groups /\ Workers' = Workers
  BY <1>1 DEF Groups, Workers, groupVars
<1>3. ThreadBudget' /\ EmptyUnlessInitialized' /\ CgroupReady'
  <2>1. ThreadBudget'
    BY <1>1, <1>2, BudgetOfSubset DEF TypeOK, poolVars
  <2> QED  BY <1>1, <1>2, <2>1 DEF EmptyUnlessInitialized, CgroupReady, poolVars, cgroupVars
<1>4. \A t \in Groups : size[t] \in 0..MaxThreads /\ size[t] \in Nat /\ t \in Tenants
  BY <1>0 DEF TypeOK
<1>5. SUFFICES op' \in OpType /\ OpInv' /\ LiveRuns' /\ PassedAreDead'
  BY <1>1, <1>2, <1>3 DEF TypeOK, poolVars, cgroupVars, groupVars, workerVars, taskVars
<1>6. CASE \E t \in Tenants : BeginRemove(t)
  <2>1. PICK t \in Tenants : BeginRemove(t)
    BY <1>6
  <2>2. t \in Groups /\ Idle /\ size[t] \in Nat
    BY <1>4, <2>1 DEF BeginRemove
  <2>3. op' = [kind |-> "remove", tenant |-> t, at |-> 1, target |-> 0, rest |-> {}, joining |-> FALSE]
    BY <2>1 DEF BeginRemove, NoOp
  <2>4. op' \in OpType
    BY <1>0, <2>3 DEF OpType
  <2>5. OpInv'
    BY <1>1, <1>2, <2>2, <2>3 DEF OpInv, Stopping, ToldToStop, groupVars
  <2>6. LiveRuns'
    BY <1>1, <1>2, <2>2 DEF Idle, OpInv, Stopping, LiveRuns, LiveThread, workerVars
  <2>7. PassedAreDead'
    BY <2>3 DEF PassedAreDead, ToldToStop, Slots
  <2> QED  BY <2>4, <2>5, <2>6, <2>7
<1>7. CASE \E t \in Tenants : BeginShutdown(t)
  <2>1. PICK t \in Tenants : BeginShutdown(t)
    BY <1>7
  <2>2. t \in Groups /\ Idle /\ size[t] \in Nat
    BY <1>4, <2>1 DEF BeginShutdown
  <2>3. op' = [kind |-> "shutdown", tenant |-> t, at |-> 1, target |-> 0,
               rest |-> Groups \ {t}, joining |-> FALSE]
    BY <2>1 DEF BeginShutdown, NoOp
  <2>4. op' \in OpType
    BY <1>0, <1>4, <2>3 DEF OpType
  <2>5. OpInv'
    BY <1>1, <1>2, <2>2, <2>3 DEF OpInv, Stopping, ToldToStop, groupVars
  <2>6. LiveRuns'
    BY <1>1, <1>2, <2>2 DEF Idle, OpInv, Stopping, LiveRuns, LiveThread, workerVars
  <2>7. \A w \in Slots : LiveThread(w)' => w[1] \in Groups
    BY <1>1 DEF LiveRuns, LiveThread, workerVars, Workers
  <2>8. PassedAreDead'
    BY <2>3, <2>7 DEF PassedAreDead, ToldToStop, Slots
  <2> QED  BY <2>4, <2>5, <2>6, <2>8
<1>8. CASE \E t \in Tenants, n \in ThreadCounts : BeginShrink(t, n)
  <2>1. PICK t \in Tenants, n \in ThreadCounts : BeginShrink(t, n)
    BY <1>8
  <2>2. t \in Groups /\ Idle /\ size[t] \in 0..MaxThreads /\ n \in 0..MaxThreads /\ n < size[t]
    BY <1>0, <1>4, <2>1 DEF BeginShrink
  <2>3. op' = [kind |-> "shrink", tenant |-> t, at |-> size[t], target |-> n,
               rest |-> {}, joining |-> FALSE]
    BY <2>1 DEF BeginShrink, NoOp
  <2>4. op' \in OpType
    BY <1>0, <2>2, <2>3 DEF OpType
  <2>5. OpInv'
    BY <1>1, <1>2, <2>2, <2>3 DEF OpInv, Stopping, ToldToStop, groupVars
  <2>6. LiveRuns'
    BY <1>1, <1>2, <2>2 DEF Idle, OpInv, Stopping, LiveRuns, LiveThread, workerVars
  <2>7. PassedAreDead'
    BY <2>3 DEF PassedAreDead, ToldToStop
  <2> QED  BY <2>4, <2>5, <2>6, <2>7
<1>9. CASE FinishShrink
  <2>1. op' \in OpType /\ OpInv'
    BY <1>0, <1>9 DEF FinishShrink, NoOp, OpType, OpInv, Stopping, ToldToStop
  <2>2. LiveRuns' /\ PassedAreDead'
    BY <1>1, <1>2, <1>9 DEF FinishShrink, NoOp, LiveRuns, LiveThread, PassedAreDead, ToldToStop, workerVars
  <2> QED  BY <2>1, <2>2
<1>10. CASE \E t \in Tenants : NextGroup(t)
  <2>1. PICK t \in Tenants : NextGroup(t)
    BY <1>10
  <2>2. /\ op.kind = "shutdown" /\ ~op.joining /\ op.at > size[op.tenant]
        /\ t \in op.rest /\ op.rest \subseteq Groups \ {op.tenant} /\ op.tenant \in Groups
    BY <2>1 DEF NextGroup, GroupStopped, OpInv, Stopping
  <2>3. op' = [kind |-> "shutdown", tenant |-> t, at |-> 1, target |-> op.target,
               rest |-> op.rest \ {t}, joining |-> FALSE]
    <3>1. op \in OpType
      BY DEF TypeOK
    <3> QED  BY <2>1, <2>2, <3>1 DEF NextGroup, OpType
  <2>4. op' \in OpType
    <3>1. op.target \in 0..MaxThreads /\ op.rest \subseteq Tenants
      BY DEF TypeOK, OpType
    <3> QED  BY <1>0, <2>3, <3>1 DEF OpType
  <2>5. OpInv'
    BY <1>1, <1>2, <1>4, <2>2, <2>3 DEF OpInv, Stopping, ToldToStop, groupVars
  <2>6. LiveRuns'
    BY <1>1, <1>2, <2>2 DEF LiveRuns, LiveThread, workerVars
  <2>7. \A w \in Slots : w[1] = op.tenant => ~LiveThread(w)
    BY <2>1, <2>2, StoppedGroupIsDead DEF NextGroup, ToldToStop
  <2>8. PassedAreDead'
    <3>1. \A w \in Slots : w[1] \notin op'.rest \cup {op'.tenant} => ~LiveThread(w)
      BY <2>2, <2>3, <2>7 DEF PassedAreDead
    <3> QED  BY <1>1, <2>3, <3>1 DEF PassedAreDead, ToldToStop, LiveThread, workerVars, Slots
  <2> QED  BY <2>4, <2>5, <2>6, <2>8
<1> QED  BY <1>6, <1>7, <1>8, <1>9, <1>10
-------------------------------------------------------------------------------
(***************************************************************************)
(* Steps that start workers                                                *)
(***************************************************************************)

\* start() brings the workers in S to life and takes down no flag.
LEMMA StartEffect ==
  ASSUME TypeOK, NEW S \in SUBSET Slots, NEW ids \in FreshIds(S), NEW broken,
         Start(S, ids, broken)
  PROVE  /\ ids \in [S -> ThreadIds]
         /\ running' \in [Slots -> BOOLEAN] /\ held' = held
         /\ pc' \in [Slots -> {"absent", "check", "dequeue", "execute", "exited"}]
         /\ tid' \in [Slots -> ThreadIds \cup {NoThread}]
         /\ \A w \in Slots : LiveThread(w)' => LiveThread(w) \/ w \in S
         /\ \A w \in Slots : running[w] \/ w \in S => running'[w]
<1>1. ids \in [S -> ThreadIds]
  BY DEF FreshIds, FreeIds
<1>2. running' \in [Slots -> BOOLEAN] /\ \A w \in Slots : running[w] \/ w \in S => running'[w]
  BY DEF Start, TypeOK
<1>3. /\ pc' \in [Slots -> {"absent", "check", "dequeue", "execute", "exited"}]
      /\ \A w \in Slots : LiveThread(w)' => LiveThread(w) \/ w \in S
  BY DEF Start, TypeOK, LiveThread
<1>4. tid' \in [Slots -> ThreadIds \cup {NoThread}]
  BY <1>1 DEF Start, TypeOK
<1> QED  BY <1>1, <1>2, <1>3, <1>4 DEF Start

\* addThread keeps the thread lists a map from tenants to sets of ids.
LEMMA WriteTasksEffect ==
  ASSUME TypeOK, NEW t \in Tenants, NEW S \in SUBSET Slots, NEW ids \in [S -> ThreadIds],
         NEW list \in SUBSET ThreadIds, WriteTasks(t, S, ids, list)
  PROVE  /\ DOMAIN cgroups' = DOMAIN cgroups \cup {t}
         /\ cgroups' \in [DOMAIN cgroups' -> SUBSET ThreadIds]
         /\ confined' \in [Slots -> BOOLEAN]
<1>1. PICK written \in SUBSET S : AddThreads(t, S, ids, list, written)
  BY DEF WriteTasks
<1>2. list \cup {ids[w] : w \in S \cap written} \in SUBSET ThreadIds
  OBVIOUS
<1>3. /\ DOMAIN cgroups' = DOMAIN cgroups \cup {t}
      /\ cgroups' \in [DOMAIN cgroups' -> SUBSET ThreadIds]
  BY <1>1, <1>2 DEF AddThreads, With, TypeOK
<1>4. confined' \in [Slots -> BOOLEAN]
  BY <1>1 DEF AddThreads, TypeOK
<1> QED  BY <1>3, <1>4

LEMMA CreateGroupIInv ==
  ASSUME IInv, NEW t \in Tenants, NEW n \in ThreadCounts, CreateGroup(t, n)
  PROVE  IInv'
<1> USE DEF IInv
<1> DEFINE S == NewWorkers(t, 0, n)
<1>0. MaxThreads \in Nat /\ n \in 0..MaxThreads /\ n \in Nat
  BY ThreadPoolAssumption
<1>1. /\ UNCHANGED <<poolVars, controller, op, taskVars>> /\ Idle /\ initialized
      /\ t \notin Groups /\ FitsNewGroup(n)
  BY DEF CreateGroup
<1>2. S \in SUBSET Slots
  BY <1>0 DEF NewWorkers, Slots
<1>3. PICK ids \in FreshIds(S) :
        /\ Start(S, ids, {})
        /\ IF cgroupEnabled THEN WriteTasks(t, S, ids, {}) ELSE UNCHANGED <<cgroups, confined>>
  BY DEF CreateGroup
<1>4. /\ ids \in [S -> ThreadIds] /\ held' = held
      /\ running' \in [Slots -> BOOLEAN]
      /\ pc' \in [Slots -> {"absent", "check", "dequeue", "execute", "exited"}]
      /\ tid' \in [Slots -> ThreadIds \cup {NoThread}]
      /\ \A w \in Slots : LiveThread(w)' => LiveThread(w) \/ w \in S
      /\ \A w \in Slots : running[w] \/ w \in S => running'[w]
  BY <1>2, <1>3, StartEffect
<1>5. /\ DOMAIN cgroups' \subseteq Tenants
      /\ cgroups' \in [DOMAIN cgroups' -> SUBSET ThreadIds]
      /\ confined' \in [Slots -> BOOLEAN]
      /\ cgroupEnabled => DOMAIN cgroups' = DOMAIN cgroups \cup {t}
  <2>1. CASE cgroupEnabled
    <3>1. /\ DOMAIN cgroups' = DOMAIN cgroups \cup {t}
          /\ cgroups' \in [DOMAIN cgroups' -> SUBSET ThreadIds]
          /\ confined' \in [Slots -> BOOLEAN]
      <4>1. TypeOK /\ WriteTasks(t, S, ids, {}) /\ {} \in SUBSET ThreadIds /\ ids \in [S -> ThreadIds]
        BY <1>3, <1>4, <2>1
      <4> HIDE DEF S
      <4> QED  BY <1>2, <4>1, WriteTasksEffect, Zenon
    <3> QED  BY <3>1 DEF TypeOK
  <2>2. CASE ~cgroupEnabled
    BY <1>3, <2>2 DEF TypeOK
  <2> QED  BY <2>1, <2>2
<1>6. /\ Groups' = Groups \cup {t}
      /\ size' \in [Groups' -> 0..MaxThreads] /\ queue' \in [Groups' -> Seq(Tasks)]
      /\ size'[t] = n /\ \A u \in Groups : size'[u] = size[u]
  BY <1>0, <1>1 DEF CreateGroup, With, Groups, TypeOK
<1>7. Workers' = Workers \cup S
  <2>1. ASSUME NEW w \in Slots
        PROVE  (w[1] \in Groups' /\ w[2] <= size'[w[1]])
                <=> (w[1] \in Groups /\ w[2] <= size[w[1]]) \/ w \in S
    BY <1>0, <1>1, <1>6 DEF NewWorkers, Slots
  <2> QED  BY <1>2, <2>1 DEF Workers
<1>8. TypeOK'
  BY <1>1, <1>4, <1>5, <1>6 DEF TypeOK, poolVars, taskVars
<1>9. ThreadBudget'
  <2>1. IsFiniteSet(Workers) /\ Cardinality(Workers) \in Nat
    BY WorkersFinite DEF Allocated
  <2>2. IsFiniteSet(Workers') /\ Cardinality(Workers') <= Cardinality(Workers) + n
    BY <1>0, <1>7, <2>1, AddGroupCount
  <2>3. Cardinality(Workers') \in Nat
    BY <2>2, FS_CardinalityType
  <2>4. Cardinality(Workers) + n <= totalThreads /\ totalThreads \in Nat /\ totalThreads' = totalThreads
    BY <1>1 DEF FitsNewGroup, Allocated, TypeOK, poolVars
  <2> QED  BY <1>0, <2>1, <2>2, <2>3, <2>4 DEF ThreadBudget, SystemThreads, Allocated
<1>10. EmptyUnlessInitialized' /\ CgroupReady'
  <2>1. cgroupEnabled => controller
    BY <1>1 DEF CgroupReady, CreateGroup
  <2> QED  BY <1>1, <1>5, <1>6, <2>1 DEF EmptyUnlessInitialized, CgroupReady, poolVars
<1>11. OpInv' /\ PassedAreDead'
  BY <1>1 DEF OpInv, PassedAreDead, Idle, Stopping, ToldToStop
<1>12. LiveRuns'
  BY <1>1, <1>4, <1>7 DEF LiveRuns, OpInv, Stopping, Idle
<1> QED  BY <1>8, <1>9, <1>10, <1>11, <1>12

\* An exception while the first threads are spawned leaves a cgroup behind,
\* no worker and no group.
LEMMA CreateSpawnFailsIInv ==
  ASSUME IInv, NEW t \in Tenants, NEW n \in ThreadCounts, CreateSpawnFails(t, n)
  PROVE  IInv'
<1> USE DEF IInv
<1>1. UNCHANGED <<poolVars, controller, groupVars, workerVars, op, taskVars>>
  BY DEF CreateSpawnFails
<1>2. Groups' = Groups /\ Workers' = Workers
  BY <1>1 DEF Groups, Workers, groupVars
<1>3. PICK listed \in SUBSET FreeIds : cgroups' = With(cgroups, t, listed)
  BY DEF CreateSpawnFails
<1>4. listed \in SUBSET ThreadIds
  BY <1>3 DEF FreeIds
<1>5. /\ DOMAIN cgroups' = DOMAIN cgroups \cup {t}
      /\ cgroups' \in [DOMAIN cgroups' -> SUBSET ThreadIds]
  BY <1>3, <1>4 DEF With, TypeOK
<1>6. TypeOK'
  BY <1>1, <1>2, <1>5 DEF TypeOK, poolVars, groupVars, workerVars, taskVars
<1>7. ThreadBudget'
  BY <1>1, <1>2, BudgetOfSubset DEF TypeOK, poolVars
<1>8. EmptyUnlessInitialized' /\ CgroupReady'
  BY <1>1, <1>2, <1>5 DEF EmptyUnlessInitialized, CgroupReady, poolVars
<1>9. OpInv' /\ LiveRuns' /\ PassedAreDead'
  BY <1>1, <1>2 DEF OpInv, Stopping, LiveRuns, LiveThread, PassedAreDead, ToldToStop, Cursor,
                    workerVars, groupVars
<1> QED  BY <1>6, <1>7, <1>8, <1>9

LEMMA GrowIInv ==
  ASSUME IInv, NEW t \in Tenants, NEW n \in ThreadCounts, Grow(t, n)
  PROVE  IInv'
<1> USE DEF IInv
<1>0. MaxThreads \in Nat /\ n \in 0..MaxThreads /\ n \in Nat
  BY ThreadPoolAssumption
<1>1. /\ UNCHANGED <<poolVars, controller, queue, op, taskVars>> /\ Idle
      /\ t \in Groups /\ n > size[t] /\ FitsResized(t, n)
      /\ size' = [size EXCEPT ![t] = n]
  BY DEF Grow
<1>2. size[t] \in Nat /\ initialized
  BY <1>0, <1>1 DEF TypeOK, EmptyUnlessInitialized
<1>31. PICK last \in size[t]..n :
        \E ids \in FreshIds(NewWorkers(t, size[t], last)) :
          /\ \E broken : Start(NewWorkers(t, size[t], last), ids, broken)
          /\ IF cgroupEnabled THEN WriteTasks(t, NewWorkers(t, size[t], last), ids, cgroups[t])
             ELSE UNCHANGED <<cgroups, confined>>
  BY DEF Grow
<1> DEFINE S == NewWorkers(t, size[t], last)
<1>32. PICK ids \in FreshIds(S) :
        /\ \E broken : Start(S, ids, broken)
        /\ IF cgroupEnabled THEN WriteTasks(t, S, ids, cgroups[t])
           ELSE UNCHANGED <<cgroups, confined>>
  BY <1>31
<1>3. PICK broken :
        /\ Start(S, ids, broken)
        /\ IF cgroupEnabled THEN WriteTasks(t, S, ids, cgroups[t])
           ELSE UNCHANGED <<cgroups, confined>>
  BY <1>32
<1>4. S \in SUBSET Slots /\ S \subseteq NewWorkers(t, 0, n)
  BY <1>0, <1>2 DEF NewWorkers, Slots
<1>5. /\ ids \in [S -> ThreadIds] /\ held' = held
      /\ running' \in [Slots -> BOOLEAN]
      /\ pc' \in [Slots -> {"absent", "check", "dequeue", "execute", "exited"}]
      /\ tid' \in [Slots -> ThreadIds \cup {NoThread}]
      /\ \A w \in Slots : LiveThread(w)' => LiveThread(w) \/ w \in S
      /\ \A w \in Slots : running[w] \/ w \in S => running'[w]
  <2> HIDE DEF S
  <2> QED  BY <1>3, <1>4, StartEffect DEF S
<1>6. /\ DOMAIN cgroups' = DOMAIN cgroups
      /\ cgroups' \in [DOMAIN cgroups' -> SUBSET ThreadIds]
      /\ confined' \in [Slots -> BOOLEAN]
  <2>1. CASE cgroupEnabled
    <3>1. t \in DOMAIN cgroups /\ cgroups[t] \in SUBSET ThreadIds
      BY <1>1, <1>2, <2>1 DEF CgroupReady, TypeOK
    <3>2. WriteTasks(t, S, ids, cgroups[t])
      BY <1>3, <2>1
    <3> HIDE DEF S
    <3>3. /\ DOMAIN cgroups' = DOMAIN cgroups \cup {t}
          /\ cgroups' \in [DOMAIN cgroups' -> SUBSET ThreadIds]
          /\ confined' \in [Slots -> BOOLEAN]
      BY <1>4, <1>5, <3>1, <3>2, WriteTasksEffect, Zenon
    <3> QED  BY <3>1, <3>3
  <2>2. CASE ~cgroupEnabled
    BY <1>3, <2>2 DEF TypeOK
  <2> QED  BY <2>1, <2>2
<1>7. /\ Groups' = Groups /\ size' \in [Groups' -> 0..MaxThreads]
      /\ size'[t] = n /\ \A u \in Groups : u # t => size'[u] = size[u]
  BY <1>0, <1>1 DEF Groups, TypeOK
<1>8. Workers \cup S \subseteq Workers' /\ Workers' \subseteq WorkersOtherThan(t) \cup NewWorkers(t, 0, n)
  <2>1. ASSUME NEW w \in Slots
        PROVE  /\ (w[1] \in Groups /\ w[2] <= size[w[1]]) \/ w \in S
                    => w[1] \in Groups' /\ w[2] <= size'[w[1]]
               /\ w[1] \in Groups' /\ w[2] <= size'[w[1]]
                    => (w[1] \in Groups /\ w[2] <= size[w[1]] /\ w[1] # t) \/ w \in NewWorkers(t, 0, n)
    <3>1. w[2] \in Nat /\ w[2] >= 1 /\ w = <<w[1], w[2]>>
      BY <1>0 DEF Slots
    <3>2. CASE w[1] = t
      BY <1>0, <1>1, <1>2, <1>3, <1>7, <3>1, <3>2 DEF NewWorkers
    <3>3. CASE w[1] # t
      BY <1>7, <3>3 DEF NewWorkers
    <3> QED  BY <3>2, <3>3
  <2> QED  BY <1>4, <2>1 DEF Workers, WorkersOtherThan
<1>9. TypeOK'
  BY <1>1, <1>5, <1>6, <1>7 DEF TypeOK, poolVars, taskVars
<1>10. ThreadBudget'
  <2>1. IsFiniteSet(WorkersOtherThan(t)) /\ Cardinality(WorkersOtherThan(t)) \in Nat
    BY WorkersFinite DEF AllocatedToOthers
  <2>2. IsFiniteSet(Workers') /\ Cardinality(Workers') <= Cardinality(WorkersOtherThan(t)) + n
    BY <1>0, <1>8, <2>1, AddGroupCount
  <2>3. Cardinality(Workers') \in Nat
    BY <2>2, FS_CardinalityType
  <2>4. /\ Cardinality(WorkersOtherThan(t)) + n <= totalThreads
        /\ totalThreads \in Nat /\ totalThreads' = totalThreads
    BY <1>1 DEF FitsResized, AllocatedToOthers, TypeOK, poolVars
  <2> QED  BY <1>0, <2>1, <2>2, <2>3, <2>4 DEF ThreadBudget, SystemThreads, Allocated
<1>11. EmptyUnlessInitialized' /\ CgroupReady'
  BY <1>1, <1>6, <1>7 DEF EmptyUnlessInitialized, CgroupReady, poolVars
<1>12. OpInv' /\ PassedAreDead'
  BY <1>1 DEF OpInv, PassedAreDead, Idle, Stopping, ToldToStop
<1>13. LiveRuns'
  BY <1>1, <1>5, <1>8 DEF LiveRuns, OpInv, Stopping, Idle
<1> QED  BY <1>9, <1>10, <1>11, <1>12, <1>13
-------------------------------------------------------------------------------
(***************************************************************************)
(* Steps that stop workers                                                 *)
(***************************************************************************)

\* What the invariant says of the operation while it is at a worker.
LEMMA AtCursor ==
  ASSUME TypeOK, OpInv, AtWorker \/ op.joining
  PROVE  /\ Stopping /\ op \in OpType
         /\ op.tenant \in Groups /\ op.tenant \in Tenants
         /\ op.at \in Nat /\ op.at >= 1 /\ op.at <= size[op.tenant]
         /\ size[op.tenant] \in 0..MaxThreads /\ size[op.tenant] \in Nat
         /\ Cursor \in Slots /\ Cursor[1] = op.tenant /\ Cursor[2] = op.at
         /\ op.kind = "shrink" => op.target < op.at /\ op.at = size[op.tenant] /\ op.target \in Nat
<1>0. MaxThreads \in Nat
  BY ThreadPoolAssumption
<1>1. op \in OpType /\ op.at \in Nat /\ op.target \in Nat
  BY <1>0 DEF TypeOK, OpType
<1>2. Stopping
  BY DEF OpInv, AtWorker, Stopping, ToldToStop
<1>3. /\ op.tenant \in Groups /\ op.tenant \in Tenants
      /\ size[op.tenant] \in 0..MaxThreads /\ size[op.tenant] \in Nat
  BY <1>0, <1>2 DEF OpInv, TypeOK
<1>4. op.at >= 1 /\ op.at <= size[op.tenant]
  BY <1>1, <1>3 DEF OpInv, AtWorker, Stopping, ToldToStop
<1>5. op.kind = "shrink" => op.target < op.at /\ op.at = size[op.tenant]
  BY <1>1, <1>3 DEF OpInv, AtWorker, Stopping, ToldToStop
<1>6. Cursor \in Slots /\ Cursor[1] = op.tenant /\ Cursor[2] = op.at
  BY <1>0, <1>1, <1>3, <1>4 DEF Cursor, Slots
<1> QED  BY <1>1, <1>2, <1>3, <1>4, <1>5, <1>6

\* Moving past a worker without a live thread keeps the bookkeeping, whether
\* the loop of stop() moves on or the loop of resize() pops it.
LEMMA PassIInv ==
  ASSUME IInv, AtWorker \/ op.joining, Pass,
         \A w \in Slots : LiveThread(w)' => LiveThread(w) /\ w # Cursor,
         UNCHANGED <<initialized, running>>
  PROVE  /\ op' \in OpType /\ Groups' = Groups /\ size' \in [Groups -> 0..MaxThreads]
         /\ Workers' \subseteq Workers
         /\ OpInv' /\ LiveRuns' /\ PassedAreDead'
<1> USE DEF IInv
<1> DEFINE t == op.tenant
<1>0. MaxThreads \in Nat
  BY ThreadPoolAssumption
<1>1. /\ Stopping /\ op \in OpType
      /\ t \in Groups /\ t \in Tenants
      /\ op.at \in Nat /\ op.at >= 1 /\ op.at <= size[t]
      /\ size[t] \in 0..MaxThreads /\ size[t] \in Nat
      /\ Cursor \in Slots /\ Cursor[1] = t /\ Cursor[2] = op.at
      /\ op.kind = "shrink" => op.target < op.at /\ op.at = size[t] /\ op.target \in Nat
  BY AtCursor
<1>2. \A w \in Slots : /\ w[1] \in Tenants /\ w[2] \in Nat /\ w[2] >= 1
                       /\ w = Cursor <=> w[1] = t /\ w[2] = op.at
  BY <1>0, <1>1 DEF Slots, Cursor
<1>3. \A w \in Slots : LiveThread(w)' => running'[w] /\ w \in Workers
  BY DEF LiveRuns
<1>4. CASE op.kind = "shrink"
  <2>1. op' = [op EXCEPT !.at = op.at - 1, !.joining = FALSE] /\ size' = [size EXCEPT ![t] = op.at - 1]
    BY <1>4 DEF Pass
  <2>2. /\ op'.kind = "shrink" /\ op'.tenant = t /\ op'.at = op.at - 1 /\ ~op'.joining
        /\ op'.target = op.target /\ op' \in OpType
    <3>1. op.at - 1 \in 0..(MaxThreads + 1) /\ op \in OpType
      BY <1>0, <1>1
    <3> HIDE DEF IInv
    <3> QED  BY <1>4, <2>1, <3>1 DEF OpType
  <2>3. Groups' = Groups /\ size' \in [Groups -> 0..MaxThreads] /\ size'[t] = size[t] - 1
    BY <1>0, <1>1, <1>4, <2>1 DEF TypeOK, Groups
  <2>4. \A w \in Slots : w \in Workers' <=> w \in Workers /\ w # Cursor
    <3> SUFFICES ASSUME NEW w \in Slots PROVE w \in Workers' <=> w \in Workers /\ w # Cursor
      OBVIOUS
    <3>1. CASE w[1] = t
      BY <1>1, <1>2, <1>4, <2>3, <3>1 DEF Workers
    <3>2. CASE w[1] # t
      <4>1. w[1] \in Groups => size'[w[1]] = size[w[1]]
        BY <2>1, <3>2 DEF TypeOK
      <4> QED  BY <1>2, <2>3, <3>2, <4>1 DEF Workers
    <3> QED  BY <3>1, <3>2
  <2>5. OpInv'
    BY <1>1, <1>4, <2>2, <2>3 DEF OpInv, Stopping, ToldToStop
  <2>6. LiveRuns'
    BY <1>3, <2>4 DEF LiveRuns
  <2>7. PassedAreDead'
    BY <2>2 DEF PassedAreDead, ToldToStop
  <2>8. Workers' \subseteq Workers
    BY <2>4 DEF Workers
  <2> QED  BY <2>2, <2>3, <2>5, <2>6, <2>7, <2>8
<1>5. CASE op.kind # "shrink"
  <2>1. op' = [op EXCEPT !.at = op.at + 1, !.joining = FALSE] /\ size' = size
    BY <1>5 DEF Pass
  <2>2. /\ op'.kind = op.kind /\ op'.tenant = t /\ op'.at = op.at + 1 /\ ~op'.joining
        /\ op'.rest = op.rest /\ op' \in OpType
    <3>1. op.at + 1 \in 0..(MaxThreads + 1) /\ op \in OpType
      BY <1>0, <1>1
    <3> HIDE DEF IInv
    <3> QED  BY <2>1, <3>1 DEF OpType
  <2>3. Groups' = Groups /\ Workers' = Workers /\ size' \in [Groups -> 0..MaxThreads]
    BY <2>1 DEF Groups, Workers, TypeOK
  <2>4. OpInv'
    BY <1>1, <1>5, <2>1, <2>2, <2>3 DEF OpInv, Stopping, ToldToStop
  <2>5. LiveRuns'
    BY <1>3, <2>3 DEF LiveRuns
  <2>6. ASSUME NEW w \in Slots, w[1] = t, w[2] < op.at + 1 PROVE ~LiveThread(w)'
    <3>1. CASE w = Cursor
      BY <3>1
    <3>2. CASE w # Cursor
      <4>1. w[2] < op.at
        BY <1>1, <1>2, <2>6, <3>2
      <4> QED  BY <1>1, <1>5, <2>6, <4>1 DEF PassedAreDead, ToldToStop, Stopping
    <3> QED  BY <3>1, <3>2
  <2>7. PassedAreDead'
    BY <2>2, <2>6 DEF PassedAreDead, ToldToStop
  <2> QED  BY <2>2, <2>3, <2>4, <2>5, <2>7
<1> QED  BY <1>4, <1>5

LEMMA SkipWorkerIInv == ASSUME IInv, SkipWorker PROVE IInv'
<1> USE DEF IInv
<1>1. /\ AtWorker /\ Pass /\ ~running[Cursor] /\ ~op.joining
      /\ UNCHANGED <<poolVars, cgroupVars, queue, workerVars, taskVars>>
  BY DEF SkipWorker, AtWorker
<1>2. Cursor \in Slots
  BY <1>1, AtCursor
<1>3. \A w \in Slots : LiveThread(w)' => LiveThread(w) /\ w # Cursor
  BY <1>1, <1>2 DEF LiveRuns, LiveThread, workerVars
<1>4. /\ op' \in OpType /\ Groups' = Groups /\ size' \in [Groups -> 0..MaxThreads]
      /\ Workers' \subseteq Workers
      /\ OpInv' /\ LiveRuns' /\ PassedAreDead'
  BY <1>1, <1>3, PassIInv DEF poolVars, workerVars
<1>5. TypeOK'
  BY <1>1, <1>4 DEF TypeOK, poolVars, cgroupVars, workerVars, taskVars
<1>6. ThreadBudget'
  BY <1>1, <1>4, BudgetOfSubset DEF TypeOK, poolVars
<1>7. EmptyUnlessInitialized' /\ CgroupReady'
  BY <1>1, <1>4 DEF EmptyUnlessInitialized, CgroupReady, poolVars, cgroupVars
<1> QED  BY <1>4, <1>5, <1>6, <1>7

LEMMA SignalWorkerIInv == ASSUME IInv, SignalWorker PROVE IInv'
<1> USE DEF IInv
<1>1. /\ AtWorker /\ ~op.joining
      /\ running' = [running EXCEPT ![Cursor] = FALSE]
      /\ op' = [op EXCEPT !.joining = TRUE]
      /\ UNCHANGED <<poolVars, cgroupVars, groupVars, pc, tid, held, confined, taskVars>>
  BY DEF SignalWorker, AtWorker
<1>2. /\ Stopping /\ op \in OpType /\ op.tenant \in Groups
      /\ op.at \in Nat /\ op.at >= 1 /\ op.at <= size[op.tenant] /\ size[op.tenant] \in Nat
      /\ op.kind = "shrink" => op.target < op.at
  BY <1>1, AtCursor
<1>3. /\ op' \in OpType /\ op'.kind = op.kind /\ op'.tenant = op.tenant /\ op'.at = op.at
      /\ op'.target = op.target /\ op'.rest = op.rest /\ op'.joining
  <2> HIDE DEF IInv
  <2> QED  BY <1>1, <1>2 DEF OpType
<1>4. Groups' = Groups /\ Workers' = Workers
  BY <1>1 DEF Groups, Workers, groupVars
<1>5. TypeOK'
  BY <1>1, <1>3, <1>4 DEF TypeOK, poolVars, cgroupVars, groupVars, taskVars
<1>6. ThreadBudget'
  BY <1>1, <1>4, BudgetOfSubset DEF TypeOK, poolVars
<1>7. EmptyUnlessInitialized' /\ CgroupReady'
  BY <1>1, <1>4 DEF EmptyUnlessInitialized, CgroupReady, poolVars, cgroupVars
<1>8. OpInv'
  BY <1>1, <1>2, <1>3, <1>4 DEF OpInv, Stopping, ToldToStop, groupVars
<1>9. LiveRuns'
  BY <1>1, <1>3, <1>4 DEF LiveRuns, LiveThread, Cursor, TypeOK
<1>10. PassedAreDead'
  BY <1>1, <1>3 DEF PassedAreDead, ToldToStop, LiveThread
<1> QED  BY <1>5, <1>6, <1>7, <1>8, <1>9, <1>10

LEMMA JoinWorkerIInv == ASSUME IInv, JoinWorker PROVE IInv'
<1> USE DEF IInv
<1>1. /\ op.joining /\ Pass
      /\ pc' = [pc EXCEPT ![Cursor] = "absent"]
      /\ tid' = [tid EXCEPT ![Cursor] = NoThread]
      /\ confined' = [confined EXCEPT ![Cursor] = FALSE]
      /\ cgroups' = IF cgroupEnabled
                    THEN [cgroups EXCEPT ![op.tenant] = cgroups[op.tenant] \ {tid'[Cursor]}] ELSE cgroups
      /\ UNCHANGED <<poolVars, controller, queue, running, held, taskVars>>
  BY DEF JoinWorker
<1>2. Cursor \in Slots
  BY <1>1, AtCursor
<1>3. \A w \in Slots : LiveThread(w)' => LiveThread(w) /\ w # Cursor
  BY <1>1, <1>2 DEF LiveThread, TypeOK
<1>4. /\ op' \in OpType /\ Groups' = Groups /\ size' \in [Groups -> 0..MaxThreads]
      /\ Workers' \subseteq Workers
      /\ OpInv' /\ LiveRuns' /\ PassedAreDead'
  BY <1>1, <1>3, PassIInv DEF poolVars
<1>5. DOMAIN cgroups' = DOMAIN cgroups /\ cgroups' \in [DOMAIN cgroups -> SUBSET ThreadIds]
  BY <1>1 DEF TypeOK
<1>6. TypeOK'
  <2>1. /\ pc' \in [Slots -> {"absent", "check", "dequeue", "execute", "exited"}]
        /\ tid' \in [Slots -> ThreadIds \cup {NoThread}]
        /\ confined' \in [Slots -> BOOLEAN]
    BY <1>1, <1>2 DEF TypeOK
  <2> QED  BY <1>1, <1>4, <1>5, <2>1 DEF TypeOK, poolVars, taskVars
<1>7. ThreadBudget'
  BY <1>1, <1>4, BudgetOfSubset DEF TypeOK, poolVars
<1>8. EmptyUnlessInitialized' /\ CgroupReady'
  BY <1>1, <1>4, <1>5 DEF EmptyUnlessInitialized, CgroupReady, poolVars
<1> QED  BY <1>4, <1>6, <1>7, <1>8

\* Destroying stopped groups strands no thread.
LEMMA DestroyEffect ==
  ASSUME TypeOK, NEW S \in SUBSET Groups, Destroy(S)
  PROVE  /\ Groups' = Groups \ S
         /\ size' \in [Groups' -> 0..MaxThreads] /\ queue' \in [Groups' -> Seq(Tasks)]
         /\ outcome' \in [Tasks -> {"unsubmitted", "pending", "executed", "discarded", "lost"}]
         /\ Workers' = {w \in Workers : w[1] \notin S}
<1>1. /\ Groups' = Groups \ S
      /\ size' \in [Groups' -> 0..MaxThreads] /\ queue' \in [Groups' -> Seq(Tasks)]
      /\ \A t \in Groups' : size'[t] = size[t]
  BY DEF Destroy, Without, TypeOK, Groups
<1>2. outcome' \in [Tasks -> {"unsubmitted", "pending", "executed", "discarded", "lost"}]
  BY DEF Destroy, TypeOK
<1>3. Workers' = {w \in Workers : w[1] \notin S}
  BY <1>1 DEF Workers
<1> QED  BY <1>1, <1>2, <1>3

LEMMA FinishRemoveIInv == ASSUME IInv, FinishRemove PROVE IInv'
<1> USE DEF IInv
<1>1. /\ op.kind = "remove" /\ GroupStopped /\ Destroy({op.tenant}) /\ op' = NoOp
      /\ UNCHANGED <<poolVars, controller, workerVars, owner>>
  BY DEF FinishRemove
<1>2. op.tenant \in Groups
  BY <1>1 DEF OpInv, Stopping
<1>3. /\ Groups' = Groups \ {op.tenant}
      /\ size' \in [Groups' -> 0..MaxThreads] /\ queue' \in [Groups' -> Seq(Tasks)]
      /\ outcome' \in [Tasks -> {"unsubmitted", "pending", "executed", "discarded", "lost"}]
      /\ Workers' = {w \in Workers : w[1] \notin {op.tenant}}
  BY <1>1, <1>2, DestroyEffect
<1>4. /\ DOMAIN cgroups' \subseteq DOMAIN cgroups /\ DOMAIN cgroups \ {op.tenant} \subseteq DOMAIN cgroups'
      /\ cgroups' \in [DOMAIN cgroups' -> SUBSET ThreadIds]
  <2>1. cgroups' = cgroups \/ cgroups' = Without(cgroups, {op.tenant})
    BY DEF FinishRemove
  <2> QED  BY <2>1 DEF TypeOK, Without
<1>5. op' \in OpType /\ ~op'.joining /\ op'.kind = "none"
  BY <1>1, ThreadPoolAssumption DEF NoOp, OpType
<1>6. TypeOK'
  BY <1>1, <1>3, <1>4, <1>5 DEF TypeOK, poolVars, workerVars
<1>7. ThreadBudget'
  <2>1. Workers' \subseteq Workers
    BY <1>3
  <2> QED  BY <1>1, <2>1, BudgetOfSubset DEF TypeOK, poolVars
<1>8. EmptyUnlessInitialized' /\ CgroupReady'
  BY <1>1, <1>3, <1>4 DEF EmptyUnlessInitialized, CgroupReady, poolVars
<1>9. OpInv' /\ PassedAreDead'
  BY <1>5 DEF OpInv, PassedAreDead, Stopping, ToldToStop
<1>10. LiveRuns'
  <2>1. \A w \in Slots : w[1] = op.tenant => ~LiveThread(w)
    BY <1>1, StoppedGroupIsDead DEF ToldToStop
  <2>2. ~op.joining
    BY <1>1 DEF GroupStopped
  <2>3. \A w \in Slots : LiveThread(w)' => w \in Workers' /\ running'[w]
    BY <1>1, <1>3, <2>1, <2>2 DEF LiveRuns, LiveThread, workerVars
  <2> QED  BY <2>3 DEF LiveRuns
<1> QED  BY <1>6, <1>7, <1>8, <1>9, <1>10

\* reset() of the controller ends the operation, well or not.
LEMMA ResetEffect ==
  ASSUME ResetController
  PROVE  /\ ~controller' /\ ~initialized'
         /\ DOMAIN cgroups' = {} /\ cgroups' \in [DOMAIN cgroups' -> SUBSET ThreadIds]
         /\ op' \in OpType /\ ~op'.joining /\ op'.kind \in {"none", "crashed"}
         /\ controller' \in BOOLEAN /\ initialized' \in BOOLEAN
<1>1. ~controller' /\ ~initialized' /\ controller' \in BOOLEAN /\ initialized' \in BOOLEAN
  BY DEF ResetController
<1>2. cgroups' = <<>> /\ DOMAIN cgroups' = {}
  BY DEF ResetController
<1>3. cgroups' \in [DOMAIN cgroups' -> SUBSET ThreadIds]
  BY <1>2
<1>4. op' = NoOp \/ op' = [NoOp EXCEPT !.kind = "crashed"]
  BY DEF ResetController
<1>5. op' \in OpType /\ ~op'.joining /\ op'.kind \in {"none", "crashed"}
  <2>1. MaxThreads \in Nat
    BY ThreadPoolAssumption
  <2>2. CASE op' = NoOp
    BY <2>1, <2>2 DEF NoOp, OpType
  <2>3. CASE op' = [NoOp EXCEPT !.kind = "crashed"]
    <3>1. op' = [kind |-> "crashed", tenant |-> NoTenant, at |-> 0, target |-> 0,
                 rest |-> {}, joining |-> FALSE]
      BY <2>3 DEF NoOp
    <3> QED  BY <2>1, <3>1 DEF OpType
  <2> QED  BY <1>4, <2>2, <2>3
<1> QED  BY <1>1, <1>2, <1>3, <1>5

LEMMA ShutdownIInv == ASSUME IInv, FinishShutdown \/ ShutdownEmpty PROVE IInv'
<1> USE DEF IInv
<1>1. ResetController /\ UNCHANGED <<totalThreads, cgroupEnabled, workerVars, owner>>
  BY DEF FinishShutdown, ShutdownEmpty, taskVars
<1>2. /\ ~controller' /\ ~initialized'
      /\ DOMAIN cgroups' = {} /\ cgroups' \in [DOMAIN cgroups' -> SUBSET ThreadIds]
      /\ op' \in OpType /\ ~op'.joining /\ op'.kind \in {"none", "crashed"}
      /\ controller' \in BOOLEAN /\ initialized' \in BOOLEAN
  BY <1>1, ResetEffect
<1>3. /\ Groups' = {}
      /\ size' \in [Groups' -> 0..MaxThreads] /\ queue' \in [Groups' -> Seq(Tasks)]
      /\ outcome' \in [Tasks -> {"unsubmitted", "pending", "executed", "discarded", "lost"}]
  <2>1. CASE FinishShutdown
    <3>1. Destroy(Groups)
      BY <2>1 DEF FinishShutdown
    <3> QED  BY <3>1, DestroyEffect
  <2>2. CASE ShutdownEmpty
    BY <2>2 DEF ShutdownEmpty, groupVars, taskVars, TypeOK, Groups
  <2> QED  BY <2>1, <2>2
<1>4. TypeOK'
  BY <1>1, <1>2, <1>3 DEF TypeOK, workerVars
<1>5. ThreadBudget'
  BY <1>3, <1>4, BudgetOfEmpty DEF TypeOK
<1>6. EmptyUnlessInitialized' /\ CgroupReady'
  BY <1>2, <1>3 DEF EmptyUnlessInitialized, CgroupReady
<1>7. OpInv' /\ PassedAreDead'
  BY <1>2 DEF OpInv, PassedAreDead, Stopping, ToldToStop
<1>8. LiveRuns'
  <2>1. \A w \in Slots : ~LiveThread(w)
    <3>1. CASE FinishShutdown
      <4>1. ToldToStop /\ GroupStopped /\ op.kind = "shutdown" /\ op.rest = {}
        BY <3>1 DEF FinishShutdown, ToldToStop
      <4>2. \A w \in Slots : w[1] = op.tenant => ~LiveThread(w)
        BY <4>1, StoppedGroupIsDead
      <4> QED  BY <4>1, <4>2 DEF PassedAreDead
    <3>2. CASE ShutdownEmpty
      BY <3>2 DEF ShutdownEmpty, LiveRuns, Workers
    <3> QED  BY <3>1, <3>2
  <2> QED  BY <1>1, <2>1 DEF LiveRuns, LiveThread, workerVars
<1> QED  BY <1>4, <1>5, <1>6, <1>7, <1>8
-------------------------------------------------------------------------------
(***************************************************************************)
(* The theorems                                                            *)
(***************************************************************************)
LEMMA StutterIInv == ASSUME IInv, UNCHANGED vars PROVE IInv'
<1> USE DEF IInv
<1>1. UNCHANGED <<poolVars, cgroupVars, groupVars, workerVars, op, taskVars>>
  BY DEF vars
<1>2. Groups' = Groups /\ Workers' = Workers
  BY <1>1 DEF Groups, Workers, groupVars
<1>3. TypeOK'
  BY <1>1, <1>2 DEF TypeOK, poolVars, cgroupVars, groupVars, workerVars, taskVars
<1>4. ThreadBudget'
  BY <1>1, <1>2, BudgetOfSubset DEF TypeOK, poolVars
<1>5. EmptyUnlessInitialized' /\ CgroupReady'
  BY <1>1, <1>2 DEF EmptyUnlessInitialized, CgroupReady, poolVars, cgroupVars
<1>6. OpInv' /\ LiveRuns' /\ PassedAreDead'
  BY <1>1, <1>2 DEF OpInv, Stopping, LiveRuns, LiveThread, PassedAreDead, ToldToStop, Cursor,
                    workerVars, groupVars
<1> QED  BY <1>3, <1>4, <1>5, <1>6

LEMMA NextIInv == ASSUME IInv, [Next]_vars PROVE IInv'
<1>1. CASE Call
  BY <1>1, InitializeIInv, BeginIInv, CreateGroupIInv, CreateSpawnFailsIInv, GrowIInv, SubmitIInv,
     ShutdownIInv DEF Call
<1>2. CASE HolderStep
  BY <1>2, SkipWorkerIInv, SignalWorkerIInv, JoinWorkerIInv, BeginIInv, FinishRemoveIInv,
     ShutdownIInv DEF HolderStep
<1>3. CASE \E w \in Slots : WorkerStep(w)
  BY <1>3, WorkerStepIInv
<1>4. CASE UNCHANGED vars
  BY <1>4, StutterIInv
<1> QED  BY <1>1, <1>2, <1>3, <1>4 DEF Next

\* The inductive invariant, for any tenants, bounds and cgroup behaviour.
THEOREM ThreadPoolInvariant == Spec => []IInv
<1>1. Init => IInv
  BY InitIInv
<1>2. IInv /\ [Next]_vars => IInv'
  BY NextIInv
<1> QED  BY <1>1, <1>2, PTL DEF Spec

\* Every variable keeps its type, and the maps of one group their common domain.
THEOREM ThreadPoolTypeOK == Spec => []TypeOK
<1>1. IInv => TypeOK
  BY DEF IInv
<1> QED  BY <1>1, ThreadPoolInvariant, PTL

\* getSystemThreadInfo never subtracts below zero: the groups' workers fit in
\* the pool, whatever is created, grown, shrunk and removed.
THEOREM ThreadPoolBudget == Spec => []ThreadBudget
<1>1. IInv => ThreadBudget
  BY DEF IInv
<1> QED  BY <1>1, ThreadPoolInvariant, PTL

\* No live thread ever outlives the worker object and the queue it uses.
THEOREM ThreadPoolNoDangling == Spec => []NoDanglingThread
<1>1. IInv => NoDanglingThread
  BY DEF IInv, LiveRuns, NoDanglingThread
<1> QED  BY <1>1, ThreadPoolInvariant, PTL

\* A pool with cgroups on has the controller, and a cgroup for every group.
THEOREM ThreadPoolCgroupReady == Spec => []CgroupReady
<1>1. IInv => CgroupReady
  BY DEF IInv
<1> QED  BY <1>1, ThreadPoolInvariant, PTL

-------------------------------------------------------------------------------
(***************************************************************************)
(* Where every task is, that the pool keeps the promise of TaskService,    *)
(* and that no group is understaffed.                                      *)
(*                                                                         *)
(* TaskInv is inductive on top of IInv, which is what says that a task is  *)
(* never lost with a worker: a group that ends has no live worker, so what *)
(* it loses is what its queue holds.                                       *)
(***************************************************************************)

(***************************************************************************)
(* Where the tasks are.  TaskConservation counts; TaskInv says the same    *)
(* without counting: every pending task has a place, each place holds a    *)
(* pending task of its own tenant, and no two places hold the same one.    *)
(***************************************************************************)
HeldWhileExecuting == \A w \in Slots : held[w] # NoTask <=> pc[w] = "execute"
QueuedPending ==
  \A t \in Groups : \A i \in DOMAIN queue[t] :
    outcome[queue[t][i]] = "pending" /\ owner[queue[t][i]] = t
QueuedOnce ==
  \A t \in Groups : \A i, j \in DOMAIN queue[t] : queue[t][i] = queue[t][j] => i = j
HeldPending ==
  \A w \in Slots : held[w] # NoTask => outcome[held[w]] = "pending" /\ owner[held[w]] = w[1]
HeldOnce ==
  \A v, w \in Slots : held[v] = held[w] /\ held[v] # NoTask => v = w
HeldNotQueued ==
  \A w \in Slots : \A t \in Groups : \A i \in DOMAIN queue[t] : queue[t][i] # held[w]
PendingPlaced ==
  \A k \in Tasks : outcome[k] = "pending" =>
    \/ \E w \in Slots : held[w] = k
    \/ owner[k] \in Groups /\ \E i \in DOMAIN queue[owner[k]] : queue[owner[k]][i] = k

TaskInv == /\ HeldWhileExecuting /\ QueuedPending /\ QueuedOnce /\ HeldPending
           /\ HeldOnce /\ HeldNotQueued /\ PendingPlaced

-------------------------------------------------------------------------------
(***************************************************************************)
(* Steps that move no task                                                 *)
(***************************************************************************)

\* A step that leaves the queues of the groups, the workers' hands and the
\* record of the tasks alone, and opens groups with empty queues only.
LEMMA TaskFrame ==
  ASSUME TypeOK, TypeOK', TaskInv, UNCHANGED <<held, taskVars>>,
         Groups \subseteq Groups',
         \A t \in Groups : queue'[t] = queue[t],
         \A t \in Groups' \ Groups : queue'[t] = <<>>,
         \A w \in Slots : pc'[w] = "execute" <=> pc[w] = "execute"
  PROVE  TaskInv'
<1> USE DEF TaskInv
<1>1. DOMAIN <<>> = {}
  OBVIOUS
<1>2. \A t \in Groups' : \A i \in DOMAIN queue'[t] : t \in Groups /\ queue'[t] = queue[t]
  BY <1>1
<1>3. UNCHANGED <<held, owner, outcome>>
  BY DEF taskVars
<1>4. HeldWhileExecuting' /\ HeldPending' /\ HeldOnce'
  BY <1>3 DEF HeldWhileExecuting, HeldPending, HeldOnce
<1>5. QueuedPending' /\ QueuedOnce' /\ HeldNotQueued'
  BY <1>2, <1>3 DEF QueuedPending, QueuedOnce, HeldNotQueued
<1>6. PendingPlaced'
  BY <1>3 DEF PendingPlaced
<1> QED  BY <1>4, <1>5, <1>6

Quiet ==
  /\ UNCHANGED <<queue, held, taskVars>> /\ Groups' = Groups
  /\ \A w \in Slots : pc'[w] = "execute" <=> pc[w] = "execute"

LEMMA QuietTaskInv == ASSUME IInv, IInv', TaskInv, Quiet PROVE TaskInv'
  BY TaskFrame DEF IInv, Quiet

\* The steps that only count threads, flags, cgroups and the operation.
LEMMA QuietSteps ==
  ASSUME IInv,
         \/ \E total \in Totals, enable \in CgroupModes : Initialize(total, enable)
         \/ \E t \in Tenants : BeginRemove(t) \/ BeginShutdown(t) \/ NextGroup(t)
         \/ \E t \in Tenants, n \in ThreadCounts : CreateSpawnFails(t, n) \/ BeginShrink(t, n)
         \/ ShutdownEmpty \/ SkipWorker \/ SignalWorker \/ FinishShrink
         \/ \E w \in Slots : CheckRunning(w) \/ Sleep(w)
         \/ UNCHANGED vars
  PROVE  Quiet
<1>1. CASE \/ SkipWorker
  BY <1>1 DEF SkipWorker, Pass, Quiet, Groups, workerVars, IInv, TypeOK
<1>2. CASE \E w \in Slots : CheckRunning(w) \/ Sleep(w)
  BY <1>2 DEF CheckRunning, Sleep, Quiet, Groups, groupVars, IInv, TypeOK
<1>3. CASE \E t \in Tenants, n \in ThreadCounts : CreateSpawnFails(t, n) \/ BeginShrink(t, n)
  BY <1>3 DEF CreateSpawnFails, BeginShrink, Quiet, Groups, groupVars, workerVars
<1>4. CASE \E t \in Tenants : BeginRemove(t) \/ BeginShutdown(t) \/ NextGroup(t)
  BY <1>4 DEF BeginRemove, BeginShutdown, NextGroup, Quiet, Groups, groupVars, workerVars
<1>5. CASE \/ \E total \in Totals, enable \in CgroupModes : Initialize(total, enable)
           \/ ShutdownEmpty \/ SignalWorker \/ FinishShrink \/ UNCHANGED vars
  BY <1>5 DEF Initialize, ShutdownEmpty, SignalWorker, FinishShrink, vars, Quiet, Groups,
              groupVars, workerVars
<1> QED  BY <1>1, <1>2, <1>3, <1>4, <1>5

\* join() returns for a thread that is past its loop: it executes nothing.
LEMMA JoinQuiet == ASSUME IInv, JoinWorker PROVE Quiet
<1>1. Cursor \in Slots /\ op.tenant \in Groups
  BY AtCursor DEF IInv, JoinWorker
<1>2. UNCHANGED <<queue, held, taskVars>>
  BY DEF JoinWorker
<1>3. Groups' = Groups
  BY <1>1 DEF JoinWorker, Pass, Groups
<1>4. \A w \in Slots : pc'[w] = "execute" <=> pc[w] = "execute"
  BY <1>1 DEF JoinWorker, IInv, TypeOK
<1> QED  BY <1>2, <1>3, <1>4 DEF Quiet

\* A worker that is started had no thread before, so it held nothing.
LEMMA StartedWereIdle ==
  ASSUME IInv, NEW S \in SUBSET Slots, S \cap Workers = {}, NEW ids, NEW broken,
         Start(S, ids, broken)
  PROVE  \A w \in Slots : pc'[w] = "execute" <=> pc[w] = "execute"
  BY DEF Start, IInv, LiveRuns, LiveThread

LEMMA GrowQuiet ==
  ASSUME IInv, NEW t \in Tenants, NEW n \in ThreadCounts, Grow(t, n)
  PROVE  Quiet
<1>0. MaxThreads \in Nat /\ n \in 0..MaxThreads
  BY ThreadPoolAssumption
<1>1. t \in Groups /\ size[t] \in Nat /\ UNCHANGED <<queue, taskVars>> /\ Groups' = Groups
  BY <1>0 DEF Grow, Groups, IInv, TypeOK
<1>2. PICK last \in size[t]..n :
        \E ids, broken : Start(NewWorkers(t, size[t], last), ids, broken)
  BY DEF Grow
<1>3. /\ NewWorkers(t, size[t], last) \in SUBSET Slots
      /\ NewWorkers(t, size[t], last) \cap Workers = {}
  BY <1>0, <1>1, <1>2 DEF NewWorkers, Slots, Workers
<1>4. held' = held /\ \A w \in Slots : pc'[w] = "execute" <=> pc[w] = "execute"
  BY <1>2, <1>3, StartedWereIdle DEF Start
<1> QED  BY <1>1, <1>4 DEF Quiet

\* What createTenantThreadGroup does to the groups; nobody executes in a slot
\* of a tenant without a group.
LEMMA CreateGroupEffect ==
  ASSUME IInv, NEW t \in Tenants, NEW n \in ThreadCounts, CreateGroup(t, n)
  PROVE  /\ t \notin Groups /\ Groups' = Groups \cup {t}
         /\ UNCHANGED <<held, taskVars>>
         /\ \A u \in Groups : queue'[u] = queue[u]
         /\ queue'[t] = <<>>
         /\ \A w \in Slots : pc'[w] = "execute" <=> pc[w] = "execute"
<1>0. MaxThreads \in Nat /\ n \in 0..MaxThreads
  BY ThreadPoolAssumption
<1>1. t \notin Groups /\ UNCHANGED taskVars /\ DOMAIN queue = Groups
  BY DEF CreateGroup, IInv, TypeOK
<1>2. /\ Groups' = Groups \cup {t}
      /\ \A u \in Groups : queue'[u] = queue[u]
      /\ queue'[t] = <<>>
  BY <1>1 DEF CreateGroup, With, Groups
<1>3. PICK ids : Start(NewWorkers(t, 0, n), ids, {})
  BY DEF CreateGroup
<1>4. NewWorkers(t, 0, n) \in SUBSET Slots /\ NewWorkers(t, 0, n) \cap Workers = {}
  BY <1>0, <1>1 DEF NewWorkers, Slots, Workers
<1>5. held' = held /\ \A w \in Slots : pc'[w] = "execute" <=> pc[w] = "execute"
  BY <1>3, <1>4, StartedWereIdle DEF Start
<1> QED  BY <1>1, <1>2, <1>5
-------------------------------------------------------------------------------
(***************************************************************************)
(* Steps that move a task                                                  *)
(***************************************************************************)

\* The tasks of a queue are its head and those of its tail.
LEMMA QueueHead ==
  ASSUME NEW q \in Seq(Tasks), q # <<>>, NEW r, r = Tail(q)
  PROVE  /\ Head(q) = q[1] /\ Head(q) \in Tasks /\ 1 \in DOMAIN q
         /\ \A i \in DOMAIN r : i + 1 \in DOMAIN q /\ r[i] = q[i + 1] /\ i \in Nat \ {0}
         /\ \A i \in DOMAIN q : i = 1 \/ (i - 1 \in DOMAIN r /\ r[i - 1] = q[i])
<1>1. /\ Head(q) = q[1] /\ Head(q) \in Tasks /\ Len(q) \in Nat \ {0}
      /\ r \in Seq(Tasks) /\ Len(r) = Len(q) - 1
      /\ DOMAIN q = 1..Len(q) /\ DOMAIN r = 1..Len(r)
  OBVIOUS
<1>2. \A i \in 1..(Len(q) - 1) : r[i] = q[i + 1]
  OBVIOUS
<1> QED  BY <1>1, <1>2

\* A queue that takes one more task at its end.
LEMMA QueueAppend ==
  ASSUME NEW q \in Seq(Tasks), NEW k \in Tasks, NEW r, r = Append(q, k)
  PROVE  /\ \A i \in DOMAIN q : i \in DOMAIN r /\ r[i] = q[i]
         /\ \E i \in DOMAIN r : r[i] = k
         /\ \A i \in DOMAIN r : (i \in DOMAIN q /\ r[i] = q[i]) \/ r[i] = k
         /\ \A i, j \in DOMAIN r : i \notin DOMAIN q /\ j \notin DOMAIN q => i = j
<1>1. /\ Len(q) \in Nat /\ DOMAIN q = 1..Len(q)
      /\ DOMAIN r = 1..(Len(q) + 1)
      /\ r[Len(q) + 1] = k
      /\ \A i \in 1..Len(q) : r[i] = q[i]
  OBVIOUS
<1>2. \E i \in DOMAIN r : r[i] = k
  <2> WITNESS Len(q) + 1 \in DOMAIN r
  <2> QED  BY <1>1
<1>3. \A i \in DOMAIN r : (i \in DOMAIN q /\ r[i] = q[i]) \/ (i = Len(q) + 1 /\ r[i] = k)
  BY <1>1
<1> QED  BY <1>1, <1>2, <1>3

LEMMA SubmitTaskInv ==
  ASSUME IInv, TaskInv, NEW t \in Tenants, NEW k \in Tasks, Submit(t, k)
  PROVE  TaskInv'
<1> USE DEF TaskInv
<1>1. /\ t \in Groups /\ Groups' = Groups /\ UNCHANGED <<pc, held>>
      /\ outcome[k] = "unsubmitted" /\ NoTask \notin Tasks
  BY ThreadPoolAssumption DEF Submit, Groups, workerVars
<1>2. /\ queue[t] \in Seq(Tasks) /\ queue'[t] = Append(queue[t], k)
      /\ \A u \in Groups : u # t => queue'[u] = queue[u]
  BY <1>1 DEF Submit, IInv, TypeOK
<1>3. /\ owner'[k] = t /\ outcome'[k] = "pending"
      /\ \A j \in Tasks : j # k => owner'[j] = owner[j] /\ outcome'[j] = outcome[j]
  BY DEF Submit, IInv, TypeOK
<1>4. /\ \A i \in DOMAIN queue[t] : i \in DOMAIN queue'[t] /\ queue'[t][i] = queue[t][i]
      /\ \E i \in DOMAIN queue'[t] : queue'[t][i] = k
      /\ \A i \in DOMAIN queue'[t] :
           (i \in DOMAIN queue[t] /\ queue'[t][i] = queue[t][i]) \/ queue'[t][i] = k
      /\ \A i, j \in DOMAIN queue'[t] : i \notin DOMAIN queue[t] /\ j \notin DOMAIN queue[t] => i = j
  <2> DEFINE q == queue[t]
             r == queue'[t]
  <2>1. q \in Seq(Tasks) /\ r = Append(q, k)
    BY <1>2
  <2> HIDE DEF q, r
  <2>2. /\ \A i \in DOMAIN q : i \in DOMAIN r /\ r[i] = q[i]
        /\ \E i \in DOMAIN r : r[i] = k
        /\ \A i \in DOMAIN r : (i \in DOMAIN q /\ r[i] = q[i]) \/ r[i] = k
        /\ \A i, j \in DOMAIN r : i \notin DOMAIN q /\ j \notin DOMAIN q => i = j
    BY <2>1, QueueAppend
  <2> QED  BY <2>2 DEF q, r
<1>5. \A u \in Groups : \A i \in DOMAIN queue[u] : queue[u][i] # k /\ queue[u][i] \in Tasks
  <2>1. \A u \in Groups : queue[u] \in Seq(Tasks)
    BY DEF IInv, TypeOK
  <2>2. \A u \in Groups : \A i \in DOMAIN queue[u] : queue[u][i] \in Tasks
    BY <2>1
  <2> QED  BY <1>1, <2>2 DEF QueuedPending
<1>6. \A w \in Slots : held[w] # k /\ (held[w] # NoTask => held[w] \in Tasks)
  BY <1>1 DEF IInv, TypeOK, HeldPending
<1>7. HeldWhileExecuting' /\ HeldOnce'
  BY <1>1 DEF HeldWhileExecuting, HeldOnce
<1>8. HeldPending'
  BY <1>1, <1>3, <1>6 DEF HeldPending
<1>9. QueuedPending'
  <2> SUFFICES ASSUME NEW u \in Groups, NEW i \in DOMAIN queue'[u]
               PROVE  outcome'[queue'[u][i]] = "pending" /\ owner'[queue'[u][i]] = u
    BY <1>1 DEF QueuedPending
  <2>1. CASE u = t /\ queue'[t][i] = k
    BY <1>3, <2>1
  <2>2. CASE i \in DOMAIN queue[u] /\ queue'[u][i] = queue[u][i]
    BY <1>3, <1>5, <2>2 DEF QueuedPending
  <2> QED  BY <1>2, <1>4, <2>1, <2>2
<1>10. QueuedOnce'
  <2> SUFFICES ASSUME NEW u \in Groups, NEW i \in DOMAIN queue'[u], NEW j \in DOMAIN queue'[u],
                      queue'[u][i] = queue'[u][j]
               PROVE  i = j
    BY <1>1 DEF QueuedOnce
  <2>1. CASE u # t
    BY <1>2, <2>1 DEF QueuedOnce
  <2>2. CASE u = t
    <3>1. i \in DOMAIN queue[t] <=> j \in DOMAIN queue[t]
      BY <1>1, <1>4, <1>5, <2>2
    <3> QED  BY <1>1, <1>4, <2>2, <3>1 DEF QueuedOnce
  <2> QED  BY <2>1, <2>2
<1>11. HeldNotQueued'
  <2> SUFFICES ASSUME NEW w \in Slots, NEW u \in Groups, NEW i \in DOMAIN queue'[u]
               PROVE  queue'[u][i] # held[w]
    BY <1>1 DEF HeldNotQueued
  <2>1. CASE u = t /\ queue'[t][i] = k
    BY <1>6, <2>1
  <2>2. CASE i \in DOMAIN queue[u] /\ queue'[u][i] = queue[u][i]
    BY <2>2 DEF HeldNotQueued
  <2> QED  BY <1>2, <1>4, <2>1, <2>2
<1>12. PendingPlaced'
  <2> SUFFICES ASSUME NEW j \in Tasks, outcome'[j] = "pending", \A w \in Slots : held[w] # j
               PROVE  owner'[j] \in Groups /\ \E i \in DOMAIN queue'[owner'[j]] : queue'[owner'[j]][i] = j
    BY <1>1 DEF PendingPlaced
  <2>1. CASE j = k
    BY <1>1, <1>3, <1>4, <2>1
  <2>2. CASE j # k
    <3>1. owner[j] \in Groups /\ \E i \in DOMAIN queue[owner[j]] : queue[owner[j]][i] = j
      BY <1>3, <2>2 DEF PendingPlaced
    <3> QED  BY <1>2, <1>3, <1>4, <2>2, <3>1
  <2> QED  BY <2>1, <2>2
<1> QED  BY <1>7, <1>8, <1>9, <1>10, <1>11, <1>12

\* The queue loses its head, which is then in no queue.
LEMMA DequeueEffect ==
  ASSUME IInv, TaskInv, NEW w \in Slots, pc[w] = "dequeue", queue[w[1]] # <<>>,
         queue' = [queue EXCEPT ![w[1]] = Tail(@)], Groups' = Groups
  PROVE  LET k == Head(queue[w[1]]) IN
         /\ w[1] \in Groups /\ k \in Tasks /\ outcome[k] = "pending" /\ owner[k] = w[1]
         /\ held[w] = NoTask /\ \A v \in Slots : held[v] # k
         /\ \A u \in Groups : \A i \in DOMAIN queue'[u] :
              /\ queue'[u][i] # k
              /\ \E j \in DOMAIN queue[u] : queue[u][j] = queue'[u][i]
         /\ QueuedOnce'
         /\ \A u \in Groups : \A i \in DOMAIN queue[u] :
              queue[u][i] # k => \E j \in DOMAIN queue'[u] : queue'[u][j] = queue[u][i]
<1> DEFINE t == w[1]
           k == Head(queue[t])
<1>1. t \in Groups
  BY DEF IInv, LiveRuns, LiveThread, Workers
<1>2. queue[t] \in Seq(Tasks) /\ queue'[t] = Tail(queue[t]) /\ \A u \in Groups : u # t => queue'[u] = queue[u]
  BY <1>1 DEF IInv, TypeOK
<1>3. /\ k = queue[t][1] /\ k \in Tasks /\ 1 \in DOMAIN queue[t]
      /\ \A i \in DOMAIN queue'[t] : i + 1 \in DOMAIN queue[t] /\ queue'[t][i] = queue[t][i + 1] /\ i \in Nat \ {0}
      /\ \A i \in DOMAIN queue[t] : i = 1 \/ (i - 1 \in DOMAIN queue'[t] /\ queue'[t][i - 1] = queue[t][i])
  <2> DEFINE q == queue[t]
             r == queue'[t]
  <2>1. q \in Seq(Tasks) /\ q # <<>> /\ r = Tail(q)
    BY <1>2
  <2> HIDE DEF q, r
  <2>2. /\ Head(q) = q[1] /\ Head(q) \in Tasks /\ 1 \in DOMAIN q
        /\ \A i \in DOMAIN r : i + 1 \in DOMAIN q /\ r[i] = q[i + 1] /\ i \in Nat \ {0}
        /\ \A i \in DOMAIN q : i = 1 \/ (i - 1 \in DOMAIN r /\ r[i - 1] = q[i])
    BY <2>1, QueueHead
  <2> QED  BY <2>2 DEF q, r
<1>4. outcome[k] = "pending" /\ owner[k] = t
  BY <1>1, <1>3 DEF TaskInv, QueuedPending
<1>5. held[w] = NoTask /\ \A v \in Slots : held[v] # k
  BY <1>1, <1>3 DEF TaskInv, HeldWhileExecuting, HeldNotQueued
<1>6. ASSUME NEW u \in Groups, NEW i \in DOMAIN queue'[u]
      PROVE  queue'[u][i] # k /\ \E j \in DOMAIN queue[u] : queue[u][j] = queue'[u][i]
  <2>1. CASE u = t
    <3>1. i + 1 \in DOMAIN queue[t] /\ queue'[t][i] = queue[t][i + 1] /\ i \in Nat \ {0}
      BY <1>3, <2>1
    <3>2. i + 1 # 1
      BY <3>1
    <3> QED  BY <1>1, <1>3, <2>1, <3>1, <3>2 DEF TaskInv, QueuedOnce
  <2>2. CASE u # t
    BY <1>2, <1>4, <1>6, <2>2 DEF TaskInv, QueuedPending
  <2> QED  BY <2>1, <2>2
<1>7. QueuedOnce'
  <2> SUFFICES ASSUME NEW u \in Groups, NEW i \in DOMAIN queue'[u], NEW j \in DOMAIN queue'[u],
                      queue'[u][i] = queue'[u][j]
               PROVE  i = j
    BY DEF QueuedOnce
  <2>1. CASE u = t
    <3>1. /\ i + 1 \in DOMAIN queue[t] /\ queue'[t][i] = queue[t][i + 1] /\ i \in Nat \ {0}
          /\ j + 1 \in DOMAIN queue[t] /\ queue'[t][j] = queue[t][j + 1] /\ j \in Nat
      BY <1>3, <2>1
    <3>2. i + 1 = j + 1
      BY <1>1, <2>1, <3>1 DEF TaskInv, QueuedOnce
    <3> QED  BY <3>1, <3>2
  <2>2. CASE u # t
    BY <1>2, <2>2 DEF TaskInv, QueuedOnce
  <2> QED  BY <2>1, <2>2
<1>8. ASSUME NEW u \in Groups, NEW i \in DOMAIN queue[u], queue[u][i] # k
      PROVE  \E j \in DOMAIN queue'[u] : queue'[u][j] = queue[u][i]
  <2>1. CASE u = t
    BY <1>3, <1>8, <2>1
  <2>2. CASE u # t
    BY <1>2, <1>8, <2>2
  <2> QED  BY <2>1, <2>2
<1> QED  BY <1>1, <1>3, <1>4, <1>5, <1>6, <1>7, <1>8

\* The head of the queue is taken: into the worker's hands or, when it is not
\* valid, out of the system.
LEMMA TakeTaskInv == ASSUME IInv, TaskInv, NEW w \in Slots, Take(w) PROVE TaskInv'
<1> DEFINE k == Head(queue[w[1]])
<1>1. /\ pc[w] = "dequeue" /\ queue[w[1]] # <<>>
      /\ queue' = [queue EXCEPT ![w[1]] = Tail(@)] /\ Groups' = Groups
      /\ UNCHANGED <<owner, outcome>>
      /\ pc'[w] = "execute" /\ \A v \in Slots : v # w => pc'[v] = pc[v]
      /\ held'[w] = k /\ \A v \in Slots : v # w => held'[v] = held[v]
  BY DEF Take, Groups, taskVars, IInv, TypeOK
<1>2. /\ w[1] \in Groups /\ k \in Tasks /\ outcome[k] = "pending" /\ owner[k] = w[1]
      /\ held[w] = NoTask /\ \A v \in Slots : held[v] # k
      /\ \A u \in Groups : \A i \in DOMAIN queue'[u] :
           /\ queue'[u][i] # k
           /\ \E j \in DOMAIN queue[u] : queue[u][j] = queue'[u][i]
      /\ QueuedOnce'
      /\ \A u \in Groups : \A i \in DOMAIN queue[u] :
           queue[u][i] # k => \E j \in DOMAIN queue'[u] : queue'[u][j] = queue[u][i]
  BY <1>1, DequeueEffect
<1> HIDE DEF k
<1>3. k # NoTask
  BY <1>2, ThreadPoolAssumption
<1>4. HeldWhileExecuting' /\ HeldPending' /\ HeldOnce'
  BY <1>1, <1>2, <1>3 DEF TaskInv, HeldWhileExecuting, HeldPending, HeldOnce
<1>5. QueuedPending' /\ HeldNotQueued'
  BY <1>1, <1>2 DEF TaskInv, QueuedPending, HeldNotQueued
<1>6. PendingPlaced'
  <2> SUFFICES ASSUME NEW j \in Tasks, outcome[j] = "pending", \A v \in Slots : held'[v] # j
               PROVE  owner[j] \in Groups /\ \E i \in DOMAIN queue'[owner[j]] : queue'[owner[j]][i] = j
    BY <1>1 DEF PendingPlaced
  <2>1. j # k /\ \A v \in Slots : held[v] # j
    BY <1>1, <1>2, <1>3, ThreadPoolAssumption
  <2>2. owner[j] \in Groups /\ \E i \in DOMAIN queue[owner[j]] : queue[owner[j]][i] = j
    BY <2>1 DEF TaskInv, PendingPlaced
  <2> QED  BY <1>2, <2>1, <2>2
<1> QED  BY <1>2, <1>4, <1>5, <1>6 DEF TaskInv

LEMMA DiscardTaskInv == ASSUME IInv, TaskInv, NEW w \in Slots, Discard(w) PROVE TaskInv'
<1> DEFINE k == Head(queue[w[1]])
<1>1. /\ pc[w] = "dequeue" /\ queue[w[1]] # <<>>
      /\ queue' = [queue EXCEPT ![w[1]] = Tail(@)] /\ Groups' = Groups
      /\ UNCHANGED <<owner, held>>
      /\ outcome' = [outcome EXCEPT ![k] = "discarded"]
      /\ \A v \in Slots : pc'[v] = "execute" <=> pc[v] = "execute"
  BY DEF Discard, Groups, IInv, TypeOK
<1>2. /\ w[1] \in Groups /\ k \in Tasks /\ outcome[k] = "pending" /\ owner[k] = w[1]
      /\ held[w] = NoTask /\ \A v \in Slots : held[v] # k
      /\ \A u \in Groups : \A i \in DOMAIN queue'[u] :
           /\ queue'[u][i] # k
           /\ \E j \in DOMAIN queue[u] : queue[u][j] = queue'[u][i]
      /\ QueuedOnce'
      /\ \A u \in Groups : \A i \in DOMAIN queue[u] :
           queue[u][i] # k => \E j \in DOMAIN queue'[u] : queue'[u][j] = queue[u][i]
  BY <1>1, DequeueEffect
<1> HIDE DEF k
<1>3. outcome'[k] = "discarded" /\ \A j : j # k => outcome'[j] = outcome[j]
  BY <1>1, <1>2 DEF IInv, TypeOK
<1>4. HeldWhileExecuting' /\ HeldPending' /\ HeldOnce'
  BY <1>1, <1>2, <1>3 DEF TaskInv, HeldWhileExecuting, HeldPending, HeldOnce
<1>5. QueuedPending' /\ HeldNotQueued'
  BY <1>1, <1>2, <1>3 DEF TaskInv, QueuedPending, HeldNotQueued
<1>6. PendingPlaced'
  BY <1>1, <1>2, <1>3 DEF TaskInv, PendingPlaced
<1> QED  BY <1>2, <1>4, <1>5, <1>6 DEF TaskInv

\* The task a worker has executed was in its hands only.
LEMMA ExecutedTaskInv == ASSUME IInv, TaskInv, NEW w \in Slots, Executed(w) PROVE TaskInv'
<1> DEFINE k == held[w]
<1>1. /\ pc[w] = "execute" /\ UNCHANGED <<queue, owner>> /\ Groups' = Groups
      /\ outcome' = [outcome EXCEPT ![k] = "executed"]
      /\ pc'[w] # "execute" /\ \A v \in Slots : v # w => pc'[v] = pc[v]
      /\ held'[w] = NoTask /\ \A v \in Slots : v # w => held'[v] = held[v]
  BY DEF Executed, Groups, groupVars, IInv, TypeOK
<1>2. k # NoTask /\ k \in Tasks
  BY <1>1 DEF TaskInv, HeldWhileExecuting, IInv, TypeOK
<1>3. /\ outcome'[k] = "executed" /\ \A j : j # k => outcome'[j] = outcome[j]
      /\ \A v \in Slots : held[v] = k => v = w
      /\ \A t \in Groups : \A i \in DOMAIN queue[t] : queue[t][i] # k
  BY <1>1, <1>2 DEF IInv, TypeOK, TaskInv, HeldOnce, HeldNotQueued
<1>4. HeldWhileExecuting' /\ HeldPending' /\ HeldOnce'
  BY <1>1, <1>2, <1>3 DEF TaskInv, HeldWhileExecuting, HeldPending, HeldOnce
<1>5. HeldNotQueued'
  <2> SUFFICES ASSUME NEW v \in Slots, NEW t \in Groups, NEW i \in DOMAIN queue[t]
               PROVE  queue[t][i] # held'[v]
    BY <1>1 DEF HeldNotQueued
  <2>1. queue[t] \in Seq(Tasks)
    BY DEF IInv, TypeOK
  <2>2. queue[t][i] \in Tasks
    BY <2>1
  <2> QED  BY <1>1, <2>2, ThreadPoolAssumption DEF TaskInv, HeldNotQueued
<1>6. QueuedPending' /\ QueuedOnce'
  BY <1>1, <1>3 DEF TaskInv, QueuedPending, QueuedOnce
<1>7. PendingPlaced'
  BY <1>1, <1>2, <1>3 DEF TaskInv, PendingPlaced
<1> QED  BY <1>4, <1>5, <1>6, <1>7 DEF TaskInv

\* Groups whose threads have all gone end with their queues.  What they lose
\* is what was pending for their tenants.
LEMMA DestroyTaskInv ==
  ASSUME IInv, TaskInv, NEW S \in SUBSET Groups, Destroy(S),
         \A w \in Slots : w[1] \in S => ~LiveThread(w),
         UNCHANGED <<workerVars, owner>>
  PROVE  /\ TaskInv' /\ Groups' = Groups \ S
         /\ \A k \in Tasks : k \in QueuedIn(S) <=> owner[k] \in S /\ outcome[k] = "pending"
<1>1. \A w \in Slots : held[w] # NoTask => w[1] \notin S
  BY DEF TaskInv, HeldWhileExecuting, LiveThread
<1>2. \A k : k \in QueuedIn(S) <=> \E t \in S : \E i \in DOMAIN queue[t] : queue[t][i] = k
  BY DEF QueuedIn
<1>3. /\ Groups' = Groups \ S
      /\ \A t \in Groups' : queue'[t] = queue[t]
      /\ \A k \in Tasks : outcome'[k] = IF k \in QueuedIn(S) THEN "lost" ELSE outcome[k]
      /\ UNCHANGED <<pc, held, owner>>
  BY DEF Destroy, Without, Groups, IInv, TypeOK, workerVars
<1>4. ASSUME NEW k \in Tasks
      PROVE  k \in QueuedIn(S) <=> owner[k] \in S /\ outcome[k] = "pending"
  <2>1. ASSUME k \in QueuedIn(S) PROVE owner[k] \in S /\ outcome[k] = "pending"
    BY <1>2, <2>1 DEF TaskInv, QueuedPending
  <2>2. ASSUME owner[k] \in S, outcome[k] = "pending" PROVE k \in QueuedIn(S)
    <3>1. \A w \in Slots : held[w] # k
      BY <1>1, <2>2, ThreadPoolAssumption DEF TaskInv, HeldPending
    <3> QED  BY <1>2, <2>2, <3>1 DEF TaskInv, PendingPlaced
  <2> QED  BY <2>1, <2>2
<1>5. \A t \in Groups : \A i \in DOMAIN queue[t] : queue[t][i] \in Tasks
  <2>1. \A t \in Groups : queue[t] \in Seq(Tasks)
    BY DEF IInv, TypeOK
  <2> QED  BY <2>1
<1>6. \A w \in Slots : held[w] # NoTask => held[w] \in Tasks
  BY DEF IInv, TypeOK
<1>7. HeldWhileExecuting' /\ HeldOnce' /\ HeldNotQueued' /\ QueuedOnce'
  BY <1>3 DEF TaskInv, HeldWhileExecuting, HeldOnce, HeldNotQueued, QueuedOnce
<1>8. HeldPending'
  BY <1>1, <1>3, <1>4, <1>6 DEF TaskInv, HeldPending
<1>9. QueuedPending'
  BY <1>3, <1>4, <1>5 DEF TaskInv, QueuedPending
<1>10. PendingPlaced'
  BY <1>3, <1>4 DEF TaskInv, PendingPlaced
<1> QED  BY <1>3, <1>4, <1>7, <1>8, <1>9, <1>10 DEF TaskInv

LEMMA FinishRemoveTaskInv ==
  ASSUME IInv, TaskInv, FinishRemove
  PROVE  /\ TaskInv' /\ Groups' = Groups \ {op.tenant} /\ op.tenant \in Groups
         /\ \A k \in Tasks : k \in QueuedIn({op.tenant})
                               <=> owner[k] \in {op.tenant} /\ outcome[k] = "pending"
<1>1. op.kind = "remove" /\ GroupStopped /\ Destroy({op.tenant}) /\ UNCHANGED <<workerVars, owner>>
  BY DEF FinishRemove
<1>2. op.tenant \in Groups
  BY <1>1 DEF IInv, OpInv, Stopping
<1>3. \A w \in Slots : w[1] \in {op.tenant} => ~LiveThread(w)
  BY <1>1, StoppedGroupIsDead DEF ToldToStop
<1> QED  BY <1>1, <1>2, <1>3, DestroyTaskInv

LEMMA FinishShutdownTaskInv ==
  ASSUME IInv, TaskInv, FinishShutdown
  PROVE  /\ TaskInv' /\ Groups' = {} /\ op.tenant \in Groups
         /\ \A k \in Tasks : k \in QueuedIn(Groups)
                               <=> owner[k] \in Groups /\ outcome[k] = "pending"
<1>1. /\ op.kind = "shutdown" /\ GroupStopped /\ Destroy(Groups) /\ op.rest = {}
      /\ UNCHANGED <<workerVars, owner>>
  BY DEF FinishShutdown
<1>2. op.tenant \in Groups
  BY <1>1 DEF IInv, OpInv, Stopping
<1>3. \A w \in Slots : w[1] = op.tenant => ~LiveThread(w)
  BY <1>1, StoppedGroupIsDead DEF ToldToStop
<1>4. \A w \in Slots : w[1] \in Groups => ~LiveThread(w)
  BY <1>1, <1>3 DEF IInv, PassedAreDead
<1>5. Groups' = Groups \ Groups
  BY <1>1, <1>4, DestroyTaskInv
<1> QED  BY <1>1, <1>2, <1>4, <1>5, DestroyTaskInv
-------------------------------------------------------------------------------
(***************************************************************************)
(* Every step                                                              *)
(***************************************************************************)
LEMMA InitTaskInv == Init => TaskInv
<1> SUFFICES ASSUME Init PROVE TaskInv
  OBVIOUS
<1>1. Groups = {}
  BY DEF Init, Groups
<1> QED  BY <1>1 DEF Init, TaskInv, HeldWhileExecuting, QueuedPending, QueuedOnce, HeldPending,
                     HeldOnce, HeldNotQueued, PendingPlaced

LEMMA CreateGroupTaskInv ==
  ASSUME IInv, IInv', TaskInv, NEW t \in Tenants, NEW n \in ThreadCounts, CreateGroup(t, n)
  PROVE  TaskInv'
<1>1. /\ Groups' = Groups \cup {t} /\ UNCHANGED <<held, taskVars>>
      /\ \A u \in Groups : queue'[u] = queue[u]
      /\ queue'[t] = <<>>
      /\ \A w \in Slots : pc'[w] = "execute" <=> pc[w] = "execute"
  BY CreateGroupEffect
<1> QED  BY <1>1, TaskFrame DEF IInv

\* A step that is quiet, opens a group, moves a task or closes groups.
LEMMA StepKinds ==
  ASSUME IInv, [Next]_vars
  PROVE  \/ Quiet
         \/ \E t \in Tenants, n \in ThreadCounts : CreateGroup(t, n)
         \/ \E t \in Tenants, k \in Tasks : Submit(t, k)
         \/ \E w \in Slots : Take(w) \/ Discard(w) \/ Executed(w)
         \/ FinishRemove \/ FinishShutdown
<1>1. CASE Call
  BY <1>1, QuietSteps, GrowQuiet DEF Call
<1>2. CASE HolderStep
  BY <1>2, QuietSteps, JoinQuiet DEF HolderStep
<1>3. CASE \E w \in Slots : WorkerStep(w)
  BY <1>3, QuietSteps DEF WorkerStep
<1>4. CASE UNCHANGED vars
  BY <1>4, QuietSteps
<1> QED  BY <1>1, <1>2, <1>3, <1>4 DEF Next

LEMMA NextTaskInv == ASSUME IInv, TaskInv, [Next]_vars PROVE TaskInv'
<1>1. IInv'
  BY NextIInv
<1>2. CASE Quiet
  BY <1>1, <1>2, QuietTaskInv
<1>3. CASE \/ \E t \in Tenants, n \in ThreadCounts : CreateGroup(t, n)
           \/ \E t \in Tenants, k \in Tasks : Submit(t, k)
  BY <1>1, <1>3, CreateGroupTaskInv, SubmitTaskInv
<1>4. CASE \E w \in Slots : Take(w) \/ Discard(w) \/ Executed(w)
  BY <1>4, TakeTaskInv, DiscardTaskInv, ExecutedTaskInv
<1>5. CASE FinishRemove \/ FinishShutdown
  BY <1>5, FinishRemoveTaskInv, FinishShutdownTaskInv
<1> QED  BY <1>2, <1>3, <1>4, <1>5, StepKinds

LEMMA SpecTaskInv == Spec => []TaskInv
<1>1. IInv /\ TaskInv /\ [Next]_vars => TaskInv'
  BY NextTaskInv
<1> QED  BY <1>1, InitTaskInv, ThreadPoolInvariant, PTL DEF Spec

\* The places of a task, counted.
LEMMA TaskCount == ASSUME TypeOK, TaskInv PROVE TaskConservation
<1> SUFFICES ASSUME NEW k \in Tasks
             PROVE  /\ Cardinality(Places(k)) + Cardinality(HeldBy(k)) = IF outcome[k] = "pending" THEN 1 ELSE 0
                    /\ \A p \in Places(k) \cup HeldBy(k) : p[1] = owner[k]
  BY DEF TaskConservation
<1>1. \A p : p \in Places(k) <=> \E t \in Groups : \E i \in DOMAIN queue[t] : p = <<t, i>> /\ queue[t][i] = k
  BY DEF Places
<1>2. \A w : w \in HeldBy(k) <=> w \in Slots /\ held[w] = k
  BY DEF HeldBy
<1>3. k # NoTask
  BY ThreadPoolAssumption
<1>4. \A t \in Groups : \A i \in DOMAIN queue[t] : queue[t][i] = k => outcome[k] = "pending" /\ t = owner[k]
  BY DEF TaskInv, QueuedPending
<1>5. \A w \in HeldBy(k) : outcome[k] = "pending" /\ w[1] = owner[k]
  BY <1>2, <1>3 DEF TaskInv, HeldPending
<1>6. \A p \in Places(k) : outcome[k] = "pending" /\ p[1] = owner[k]
  BY <1>1, <1>4
<1>7. Cardinality({}) = 0 /\ \A x : Cardinality({x}) = 1
  BY FS_EmptySet, FS_Singleton
<1>8. Cardinality(Places(k)) + Cardinality(HeldBy(k)) = IF outcome[k] = "pending" THEN 1 ELSE 0
  <2>1. CASE outcome[k] # "pending"
    <3>1. Places(k) = {} /\ HeldBy(k) = {}
      BY <1>5, <1>6, <2>1
    <3> QED  BY <1>7, <2>1, <3>1
  <2>2. CASE outcome[k] = "pending" /\ \E w \in Slots : held[w] = k
    <3>1. PICK w \in Slots : held[w] = k
      BY <2>2
    <3>2. HeldBy(k) = {w}
      BY <1>2, <1>3, <3>1 DEF TaskInv, HeldOnce
    <3>3. Places(k) = {}
      BY <1>1, <3>1 DEF TaskInv, HeldNotQueued
    <3>4. Cardinality(Places(k)) = 0 /\ Cardinality(HeldBy(k)) = 1
      BY <1>7, <3>2, <3>3
    <3> QED  BY <2>2, <3>4
  <2>3. CASE outcome[k] = "pending" /\ \A w \in Slots : held[w] # k
    <3>1. HeldBy(k) = {}
      BY <1>2, <2>3
    <3>2. PICK i \in DOMAIN queue[owner[k]] : owner[k] \in Groups /\ queue[owner[k]][i] = k
      BY <2>3 DEF TaskInv, PendingPlaced
    <3>3. \A t \in Groups : \A j \in DOMAIN queue[t] : queue[t][j] = k => t = owner[k] /\ j = i
      BY <1>4, <3>2 DEF TaskInv, QueuedOnce
    <3>4. Places(k) = {<<owner[k], i>>}
      BY <1>1, <3>2, <3>3
    <3>5. Cardinality(Places(k)) = 1 /\ Cardinality(HeldBy(k)) = 0
      BY <1>7, <3>1, <3>4
    <3> QED  BY <2>3, <3>5
  <2> QED  BY <2>1, <2>2, <2>3
<1> QED  BY <1>5, <1>6, <1>8

\* No task is ever lost on the way or executed twice: over any interleaving of
\* submissions, resizes, removals and workers, a pending task is in exactly one
\* queue position or one worker's hands, its own tenant's.
THEOREM ThreadPoolTasksConserved == Spec => []TaskConservation
<1>1. TypeOK /\ TaskInv => TaskConservation
  BY TaskCount
<1> QED  BY <1>1, SpecTaskInv, ThreadPoolTypeOK, PTL
-------------------------------------------------------------------------------
(***************************************************************************)
(* The pool implements TaskService                                         *)
(***************************************************************************)
LEMMA ServiceInit == Init => Service!Init
<1> SUFFICES ASSUME Init PROVE Service!Init
  OBVIOUS
<1>1. Groups = {}
  BY DEF Init, Groups
<1> QED  BY <1>1 DEF Init, Service!Init

LEMMA SettleStep ==
  ASSUME NEW k \in Tasks, TypeOK, outcome[k] = "pending", owner[k] \in Groups,
         NEW o \in {"executed", "discarded"}, outcome' = [outcome EXCEPT ![k] = o],
         Groups' = Groups, owner' = owner
  PROVE  Service!Next
<1>1. Service!Settle(k)
  BY DEF Service!Settle
<1> QED  BY <1>1 DEF Service!Next

LEMMA CloseStep ==
  ASSUME NEW S \in SUBSET Groups, S # {}, TypeOK, Destroy(S), Groups' = Groups \ S, owner' = owner,
         \A k \in Tasks : k \in QueuedIn(S) <=> owner[k] \in S /\ outcome[k] = "pending"
  PROVE  Service!Next
<1>1. outcome' = [k \in Tasks |->
                   IF owner[k] \in S /\ outcome[k] = "pending" THEN "lost" ELSE outcome[k]]
  BY DEF Destroy
<1>2. Service!Close(S) /\ S \in SUBSET Tenants
  BY <1>1 DEF Service!Close, TypeOK
<1> QED  BY <1>2 DEF Service!Next

\* Every step of the pool is a step of the service, or the service sees nothing.
LEMMA ServiceStep ==
  ASSUME IInv, TaskInv, [Next]_vars
  PROVE  [Service!Next]_(Service!vars)
<1>0. TypeOK
  BY DEF IInv
<1>1. CASE Quiet
  BY <1>1 DEF Quiet, taskVars, Service!vars
<1>2. CASE \E t \in Tenants, n \in ThreadCounts : CreateGroup(t, n)
  <2>1. PICK t \in Tenants, n \in ThreadCounts : CreateGroup(t, n)
    BY <1>2
  <2>2. t \notin Groups /\ Groups' = Groups \cup {t} /\ UNCHANGED <<held, taskVars>>
    BY <2>1, CreateGroupEffect
  <2>3. Service!Open(t)
    BY <2>2 DEF Service!Open, taskVars
  <2> QED  BY <2>3 DEF Service!Next
<1>3. CASE \E t \in Tenants, k \in Tasks : Submit(t, k)
  <2>1. PICK t \in Tenants, k \in Tasks : Submit(t, k)
    BY <1>3
  <2>2. Service!Accept(t, k)
    BY <2>1 DEF Submit, Groups, Service!Accept
  <2> QED  BY <2>2 DEF Service!Next
<1>4. CASE \E w \in Slots : Take(w) \/ Discard(w) \/ Executed(w)
  <2>1. PICK w \in Slots : Take(w) \/ Discard(w) \/ Executed(w)
    BY <1>4
  <2>2. CASE Take(w)
    BY <2>2 DEF Take, taskVars, Groups, Service!vars
  <2>3. CASE Discard(w)
    <3> DEFINE k == Head(queue[w[1]])
    <3>1. /\ pc[w] = "dequeue" /\ queue[w[1]] # <<>>
          /\ queue' = [queue EXCEPT ![w[1]] = Tail(@)] /\ Groups' = Groups /\ owner' = owner
          /\ outcome' = [outcome EXCEPT ![k] = "discarded"]
      BY <2>3 DEF Discard, Groups
    <3>2. w[1] \in Groups /\ k \in Tasks /\ outcome[k] = "pending" /\ owner[k] = w[1]
      BY <3>1, DequeueEffect
    <3> HIDE DEF k
    <3> QED  BY <1>0, <3>1, <3>2, SettleStep
  <2>4. CASE Executed(w)
    <3> DEFINE k == held[w]
    <3>1. /\ pc[w] = "execute" /\ Groups' = Groups /\ owner' = owner
          /\ outcome' = [outcome EXCEPT ![k] = "executed"]
      BY <2>4 DEF Executed, Groups, groupVars
    <3>2. k \in Tasks /\ outcome[k] = "pending" /\ owner[k] = w[1]
      BY <1>0, <3>1 DEF TaskInv, HeldWhileExecuting, HeldPending, TypeOK
    <3>3. w[1] \in Groups
      BY <3>1 DEF IInv, LiveRuns, LiveThread, Workers
    <3> HIDE DEF k
    <3> QED  BY <1>0, <3>1, <3>2, <3>3, SettleStep
  <2> QED  BY <2>1, <2>2, <2>3, <2>4
<1>5. CASE FinishRemove
  <2>1. Destroy({op.tenant}) /\ owner' = owner
    BY <1>5 DEF FinishRemove
  <2>2. /\ Groups' = Groups \ {op.tenant} /\ op.tenant \in Groups
        /\ \A k \in Tasks : k \in QueuedIn({op.tenant})
                              <=> owner[k] \in {op.tenant} /\ outcome[k] = "pending"
    BY <1>5, FinishRemoveTaskInv
  <2> QED  BY <1>0, <2>1, <2>2, CloseStep
<1>6. CASE FinishShutdown
  <2>1. Destroy(Groups) /\ owner' = owner
    BY <1>6 DEF FinishShutdown
  <2>2. /\ Groups' = {} /\ Groups # {}
        /\ \A k \in Tasks : k \in QueuedIn(Groups) <=> owner[k] \in Groups /\ outcome[k] = "pending"
    BY <1>6, FinishShutdownTaskInv
  <2>3. Groups \in SUBSET Groups /\ Groups' = Groups \ Groups
    BY <2>2
  <2> QED  BY <1>0, <2>1, <2>2, <2>3, CloseStep
<1> QED  BY <1>1, <1>2, <1>3, <1>4, <1>5, <1>6, StepKinds

\* The thread pool, with its joins, resizes and cgroups, does nothing that
\* TaskService does not allow: a task is accepted for a tenant with a group,
\* settled at most once, and lost only in the step that ends that group.
THEOREM ThreadPoolImplementsService == Spec => ServiceSpec
<1>1. Init => Service!Init
  BY ServiceInit
<1>2. IInv /\ TaskInv /\ [Next]_vars => [Service!Next]_(Service!vars)
  BY ServiceStep
<1> QED  BY <1>1, <1>2, ThreadPoolInvariant, SpecTaskInv, PTL DEF Spec, ServiceSpec, Service!Spec
-------------------------------------------------------------------------------
(***************************************************************************)
(* Staffing                                                                *)
(***************************************************************************)

\* Who is still on duty while an operation takes workers down (spawns
\* succeeding): every worker that the operation has not reached.
OnDuty(w) == running[w] /\ pc[w] \in {"check", "dequeue", "execute"}
StaffInv ==
  \A w \in Workers :
    \/ OnDuty(w)
    \/ op.joining /\ w = Cursor
    \/ ToldToStop /\ w[1] = op.tenant /\ w[2] < op.at
    \/ op.kind = "shutdown" /\ w[1] \notin op.rest \cup {op.tenant}

LEMMA InitStaffInv == Init => StaffInv
  BY DEF Init, StaffInv, Workers, Groups

\* A worker that is on duty stays on duty in its own steps.
LEMMA WorkerStepStaffInv ==
  ASSUME IInv, StaffInv, NEW w \in Slots, WorkerStep(w)
  PROVE  StaffInv'
<1>1. Workers' = Workers /\ UNCHANGED <<size, running, op>>
  BY DEF WorkerStep, CheckRunning, Sleep, Take, Discard, Executed, groupVars, Workers, Groups
<1>2. \A v \in Slots : OnDuty(v) => OnDuty(v)'
  BY DEF WorkerStep, CheckRunning, Sleep, Take, Discard, Executed, OnDuty, IInv, TypeOK
<1> QED  BY <1>1, <1>2 DEF StaffInv, Workers, Cursor, ToldToStop

\* Steps that leave workers and flags alone: the operation begins, moves on to
\* the next group or ends.
LEMMA OperationStaffInv ==
  ASSUME IInv, StaffInv,
         \/ \E t \in Tenants : BeginRemove(t) \/ BeginShutdown(t) \/ NextGroup(t)
         \/ \E t \in Tenants, n \in ThreadCounts : CreateSpawnFails(t, n) \/ BeginShrink(t, n)
         \/ \E t \in Tenants, k \in Tasks : Submit(t, k)
         \/ \E total \in Totals, enable \in CgroupModes : Initialize(total, enable)
         \/ FinishShrink \/ UNCHANGED vars
  PROVE  StaffInv'
<1>1. UNCHANGED <<size, running, pc>>
  BY DEF BeginRemove, BeginShutdown, NextGroup, CreateSpawnFails, BeginShrink, Submit, Initialize,
         FinishShrink, vars, groupVars, workerVars
<1>2. Workers' = Workers /\ \A w \in Slots : OnDuty(w)' <=> OnDuty(w)
  BY <1>1 DEF Workers, Groups, OnDuty
<1>3. CASE Idle
  <2>1. \A w \in Workers : OnDuty(w)
    BY <1>3 DEF StaffInv, Idle, ToldToStop, IInv, OpInv, Stopping
  <2> QED  BY <1>2, <2>1 DEF StaffInv, Workers
<1>4. CASE FinishShrink
  <2>1. \A w \in Workers : OnDuty(w)
    BY <1>4 DEF StaffInv, FinishShrink, ToldToStop
  <2> QED  BY <1>2, <2>1 DEF StaffInv, Workers
<1>5. CASE \E t \in Tenants : NextGroup(t)
  <2>1. PICK t \in Tenants : NextGroup(t)
    BY <1>5
  <2>2. /\ op.kind = "shutdown" /\ ~op.joining /\ t \in op.rest
        /\ op'.kind = "shutdown" /\ op'.tenant = t /\ op'.rest = op.rest \ {t}
    BY <2>1 DEF NextGroup, GroupStopped, IInv, TypeOK, OpType
  <2>3. \A w \in Workers : w[1] \in op.rest => OnDuty(w)
    BY <2>2 DEF StaffInv, ToldToStop, Cursor, IInv, OpInv, Stopping
  <2> QED  BY <1>2, <2>2, <2>3 DEF StaffInv, Workers
<1>6. CASE UNCHANGED vars
  BY <1>2, <1>6 DEF StaffInv, vars, ToldToStop, Cursor, Workers
<1> QED  BY <1>3, <1>4, <1>5, <1>6 DEF BeginRemove, BeginShutdown, CreateSpawnFails, BeginShrink,
                                       Submit, Initialize

\* Between operations everybody is on duty, and start() changes that for
\* nobody: the new workers are running, too.
LEMMA StartStaffInv ==
  ASSUME IInv, StaffInv, Idle, NEW S \in SUBSET Slots, NEW ids, NEW broken, Start(S, ids, broken),
         \A w \in Workers' : w \in Workers \/ w \in S
  PROVE  StaffInv'
<1>1. \A w \in Workers : w \in Slots /\ OnDuty(w)
  BY DEF StaffInv, Idle, ToldToStop, IInv, OpInv, Stopping, Workers
<1>2. \A w \in Slots : OnDuty(w) \/ w \in S => OnDuty(w)'
  BY DEF Start, OnDuty
<1> QED  BY <1>1, <1>2 DEF StaffInv

LEMMA CreateGroupStaffInv ==
  ASSUME IInv, StaffInv, NEW t \in Tenants, NEW n \in ThreadCounts, CreateGroup(t, n)
  PROVE  StaffInv'
<1>0. MaxThreads \in Nat /\ n \in 0..MaxThreads
  BY ThreadPoolAssumption
<1>1. Idle /\ size' = With(size, t, n)
  BY DEF CreateGroup
<1>2. PICK ids : Start(NewWorkers(t, 0, n), ids, {})
  BY DEF CreateGroup
<1>3. NewWorkers(t, 0, n) \in SUBSET Slots
  BY <1>0 DEF NewWorkers, Slots
<1>4. \A w \in Workers' : w \in Workers \/ w \in NewWorkers(t, 0, n)
  <2> SUFFICES ASSUME NEW w \in Workers', w[1] = t PROVE w \in NewWorkers(t, 0, n)
    BY <1>1 DEF Workers, Groups, With
  <2>1. w = <<w[1], w[2]>> /\ w[2] \in 1..MaxThreads /\ w[2] <= n
    BY <1>1 DEF Workers, Slots, With
  <2> QED  BY <1>0, <2>1 DEF NewWorkers
<1> QED  BY <1>1, <1>2, <1>3, <1>4, StartStaffInv

LEMMA GrowStaffInv ==
  ASSUME ~SpawnMayFail, IInv, StaffInv, NEW t \in Tenants, NEW n \in ThreadCounts, Grow(t, n)
  PROVE  StaffInv'
<1>0. MaxThreads \in Nat /\ n \in 0..MaxThreads
  BY ThreadPoolAssumption
<1>1. /\ Idle /\ t \in Groups /\ size[t] \in Nat /\ n > size[t]
      /\ size' = [size EXCEPT ![t] = n]
  BY <1>0 DEF Grow, IInv, TypeOK
<1>2. PICK last \in size[t]..n :
        /\ ~(last < n)
        /\ \E ids, broken : Start(NewWorkers(t, size[t], last), ids, broken)
  BY DEF Grow
<1>3. last = n
  BY <1>0, <1>1, <1>2
<1>4. NewWorkers(t, size[t], n) \in SUBSET Slots
  BY <1>0, <1>1 DEF NewWorkers, Slots
<1>5. \A w \in Workers' : w \in Workers \/ w \in NewWorkers(t, size[t], n)
  <2> SUFFICES ASSUME NEW w \in Workers', w[1] = t, w \notin Workers PROVE w \in NewWorkers(t, size[t], n)
    BY <1>1 DEF Workers, Groups, IInv, TypeOK
  <2>1. w = <<w[1], w[2]>> /\ w[2] \in 1..MaxThreads /\ w[2] <= n /\ ~(w[2] <= size[t])
    BY <1>1 DEF Workers, Slots, IInv, TypeOK
  <2> QED  BY <1>0, <1>1, <2>1 DEF NewWorkers
<1> QED  BY <1>1, <1>2, <1>3, <1>4, <1>5, StartStaffInv

\* The operation passes one worker: it is popped, or is one more that the
\* operation has reached.
LEMMA PassStaffInv ==
  ASSUME IInv, StaffInv, AtWorker \/ op.joining, Pass,
         \A w \in Slots : w # Cursor /\ OnDuty(w) => OnDuty(w)'
  PROVE  StaffInv'
<1> DEFINE t == op.tenant
<1>1. /\ Stopping /\ op \in OpType /\ t \in Groups
      /\ op.at \in Nat /\ size[t] \in Nat
      /\ Cursor[1] = t /\ Cursor[2] = op.at
      /\ op.kind = "shrink" => op.at = size[t]
  BY AtCursor DEF IInv
<1>2. MaxThreads \in Nat /\ \A w \in Slots : w = <<w[1], w[2]>> /\ w[2] \in Nat
  BY ThreadPoolAssumption DEF Slots
<1>3. \A w \in Slots : w = Cursor <=> w[1] = t /\ w[2] = op.at
  BY <1>2 DEF Cursor
<1>4. CASE op.kind = "shrink"
  <2>1. size' = [size EXCEPT ![t] = op.at - 1]
    BY <1>4 DEF Pass
  <2>2. ASSUME NEW w \in Workers' PROVE w \in Workers /\ w # Cursor
    <3>1. w \in Slots /\ w[1] \in Groups' /\ w[2] <= size'[w[1]]
      BY DEF Workers
    <3>2. DOMAIN size' = DOMAIN size /\ Groups' = Groups
      BY <2>1 DEF Groups
    <3>3. CASE w[1] = t
      <4>1. size'[t] = op.at - 1
        BY <1>1, <2>1 DEF Groups
      <4> QED  BY <1>1, <1>2, <1>4, <3>1, <3>2, <3>3, <4>1 DEF Workers
    <3>4. CASE w[1] # t
      <4>1. size'[w[1]] = size[w[1]]
        BY <2>1, <3>1, <3>2, <3>4 DEF Groups
      <4> QED  BY <1>1, <3>1, <3>2, <3>4, <4>1 DEF Workers
    <3> QED  BY <3>3, <3>4
  <2>3. \A w \in Workers : w \in Slots /\ (w # Cursor => OnDuty(w))
    BY <1>4 DEF StaffInv, ToldToStop, Workers
  <2> QED  BY <2>2, <2>3 DEF StaffInv
<1>5. CASE op.kind # "shrink"
  <2>1. /\ size' = size /\ op'.kind = op.kind /\ op'.tenant = t /\ op'.rest = op.rest
        /\ op'.at = op.at + 1
    BY <1>1, <1>5 DEF Pass, OpType
  <2>2. Workers' = Workers /\ ToldToStop /\ ToldToStop'
    BY <1>1, <1>5, <2>1 DEF Workers, Groups, Stopping, ToldToStop
  <2> SUFFICES ASSUME NEW w \in Workers, ~OnDuty(w)'
               PROVE  \/ w[1] = t /\ w[2] < op.at + 1
                      \/ op.kind = "shutdown" /\ w[1] \notin op.rest \cup {t}
    BY <2>1, <2>2 DEF StaffInv
  <2>3. w \in Slots
    BY DEF Workers
  <2>4. CASE w = Cursor
    BY <1>1, <2>4
  <2>5. CASE w # Cursor
    BY <1>1, <1>2, <2>3, <2>5 DEF StaffInv
  <2> QED  BY <2>4, <2>5
<1> QED  BY <1>4, <1>5

LEMMA StopStepStaffInv ==
  ASSUME IInv, StaffInv, SkipWorker \/ SignalWorker \/ JoinWorker
  PROVE  StaffInv'
<1>1. CASE SkipWorker
  BY <1>1, PassStaffInv DEF SkipWorker, OnDuty, workerVars
<1>2. CASE JoinWorker
  <2>1. op.joining /\ Pass /\ \A w \in Slots : w # Cursor /\ OnDuty(w) => OnDuty(w)'
    BY <1>2 DEF JoinWorker, OnDuty, IInv, TypeOK
  <2> QED  BY <2>1, PassStaffInv
<1>3. CASE SignalWorker
  <2>1. /\ Workers' = Workers /\ op'.joining /\ op'.kind = op.kind /\ op'.tenant = op.tenant
        /\ op'.at = op.at /\ op'.rest = op.rest /\ ~op.joining
    BY <1>3 DEF SignalWorker, AtWorker, groupVars, Workers, Groups, IInv, TypeOK, OpType
  <2>2. \A w \in Slots : w # Cursor /\ OnDuty(w) => OnDuty(w)'
    BY <1>3 DEF SignalWorker, OnDuty, IInv, TypeOK
  <2> QED  BY <2>1, <2>2 DEF StaffInv, Cursor, ToldToStop, Workers
<1> QED  BY <1>1, <1>2, <1>3

\* Of the other groups' workers a removal has not touched one.
LEMMA EndStaffInv ==
  ASSUME IInv, StaffInv, FinishRemove \/ FinishShutdown \/ ShutdownEmpty
  PROVE  StaffInv'
<1>1. CASE FinishRemove
  <2>1. /\ op.kind = "remove" /\ ~op.joining /\ UNCHANGED workerVars
        /\ size' = Without(size, {op.tenant})
    BY <1>1 DEF FinishRemove, GroupStopped, Destroy
  <2>2. \A w \in Workers' : w \in Workers /\ w[1] # op.tenant
    BY <2>1 DEF Workers, Groups, Without
  <2> QED  BY <2>1, <2>2 DEF StaffInv, OnDuty, ToldToStop, workerVars
<1>2. CASE FinishShutdown \/ ShutdownEmpty
  <2>1. Groups' = {}
    BY <1>2 DEF FinishShutdown, ShutdownEmpty, Destroy, Without, Groups, groupVars
  <2> QED  BY <2>1 DEF StaffInv, Workers
<1> QED  BY <1>1, <1>2

LEMMA NextStaffInv ==
  ASSUME ~SpawnMayFail, IInv, StaffInv, [Next]_vars
  PROVE  StaffInv'
<1>1. CASE Call
  BY <1>1, OperationStaffInv, CreateGroupStaffInv, GrowStaffInv, EndStaffInv DEF Call
<1>2. CASE HolderStep
  BY <1>2, StopStepStaffInv, EndStaffInv, OperationStaffInv DEF HolderStep
<1>3. CASE \E w \in Slots : WorkerStep(w)
  BY <1>3, WorkerStepStaffInv
<1>4. CASE UNCHANGED vars
  BY <1>4, OperationStaffInv
<1> QED  BY <1>1, <1>2, <1>3, <1>4 DEF Next

\* As long as threads can be spawned, no group is understaffed between two
\* operations: neither a resize nor the removal of another group, a refused call
\* or a shutdown cut short by a re-initialisation takes a worker off duty.
THEOREM ThreadPoolFullyStaffed == ASSUME ~SpawnMayFail PROVE Spec => []FullyStaffed
<1>1. Init => StaffInv
  BY InitStaffInv
<1>2. IInv /\ StaffInv /\ [Next]_vars => StaffInv'
  BY NextStaffInv
<1>3. IInv /\ StaffInv => FullyStaffed
  BY DEF StaffInv, FullyStaffed, OnDuty, Idle, ToldToStop, IInv, OpInv, Stopping
<1> QED  BY <1>1, <1>2, <1>3, ThreadPoolInvariant, PTL DEF Spec
===============================================================================
