------------------------------ MODULE ThreadPool ------------------------------
(***************************************************************************)
(* ThreadPoolManager, its TenantThreadGroups, their WorkerThreads and the  *)
(* CgroupController (src/src/core/resource).  Every manager operation runs *)
(* under ThreadPoolManager::mutex_, so an operation that never waits is    *)
(* one action.  The operations that join worker threads (remove, shutdown, *)
(* shrink) hold the mutex while the workers go on running: they are split  *)
(* at each running_ store and each join, and op says how far they are.     *)
(*                                                                         *)
(* A worker object is the slot <<t, i>>, the i-th entry of threads_ of     *)
(* tenant t; it exists iff i <= size[t].  The OS thread behind it has a    *)
(* life of its own, pc: an object that is destroyed too early would leave  *)
(* a live thread in a slot that no longer exists.                          *)
(*                                                                         *)
(* Abstracted: the task queue is a FIFO with atomic operations (see        *)
(* LockFreeQueue for the CAS level); Tasks are model values; the outcomes  *)
(* of cgroup file I/O are drawn from CgroupIO.                             *)
(***************************************************************************)
EXTENDS Integers, Sequences, FiniteSets

CONSTANTS Tenants, Tasks, ThreadIds,   \* tenant ids, submitted tasks, std::thread::id values
          MaxThreads,                  \* bound: the largest thread group
          ThreadCounts, Totals,        \* arguments of create/resize and of initialize
          CgroupModes,                 \* values of enableCgroup that callers pass
          CgroupIO,                    \* outcomes of the cgroup file operations
          SpawnMayFail,                \* may std::thread's constructor throw?
          NoTenant, NoThread, NoTask

ASSUME ThreadPoolAssumption ==
  /\ MaxThreads \in Nat
  /\ ThreadCounts \subseteq 0..MaxThreads
  /\ Totals \subseteq Nat
  /\ CgroupModes \subseteq BOOLEAN /\ CgroupIO \subseteq BOOLEAN
  /\ SpawnMayFail \in BOOLEAN
  /\ IsFiniteSet(Tenants) /\ NoTenant \notin Tenants
  /\ NoThread \notin ThreadIds /\ NoTask \notin Tasks

VARIABLES
  initialized, totalThreads, cgroupEnabled,   \* ThreadPoolManager
  controller, cgroups,     \* cgroupController_ exists; its tenantThreads_
  size, queue,             \* tenantGroups_: threads_.size() and taskQueue_
  running, pc, tid, held,  \* per worker slot: running_, its thread, thread_ id, its task
  confined,                \* per slot: the kernel holds the thread in the tenant's cgroup
  op,                      \* the joining operation that holds mutex_, if any
  owner, outcome           \* history: what became of each submitted task

poolVars   == <<initialized, totalThreads, cgroupEnabled>>
cgroupVars == <<controller, cgroups>>
groupVars  == <<size, queue>>
workerVars == <<running, pc, tid, held, confined>>
taskVars   == <<owner, outcome>>
vars == <<poolVars, cgroupVars, groupVars, workerVars, op, taskVars>>

Slots == Tenants \X (1..MaxThreads)

\* Functions with a finite domain stand for the maps of the code.
Without(f, S)  == [x \in DOMAIN f \ S |-> f[x]]
With(f, x, v)  == [y \in DOMAIN f \cup {x} |-> IF y = x THEN v ELSE f[y]]

(***************************************************************************)
(* Thread accounting                                                       *)
(***************************************************************************)
Groups == DOMAIN size

\* The worker objects of all groups, and those of the groups other than t.
Workers           == {w \in Slots : w[1] \in Groups /\ w[2] <= size[w[1]]}
WorkersOtherThan(t) == {w \in Workers : w[1] # t}

\* The sums over getTotalThreads() in create, resize and getSystemThreadInfo.
Allocated           == Cardinality(Workers)
AllocatedToOthers(t) == Cardinality(WorkersOtherThan(t))
SystemThreads       == totalThreads - Allocated

LiveThread(w) == pc[w] \in {"check", "dequeue", "execute", "exited"}
ToldToStop    == op.kind \in {"remove", "shutdown"}

(***************************************************************************)
(* The operation in progress: which group it works on, the worker it is at *)
(* and whether it waits in that worker's join.                             *)
(***************************************************************************)
NoOp == [kind |-> "none", tenant |-> NoTenant, at |-> 0, target |-> 0,
         rest |-> {}, joining |-> FALSE]
Idle == op.kind = "none"
Cursor == <<op.tenant, op.at>>

Init ==
  /\ initialized = FALSE /\ totalThreads = 0 /\ cgroupEnabled = FALSE
  /\ controller = FALSE /\ cgroups = <<>>
  /\ size = <<>> /\ queue = <<>>
  /\ running = [w \in Slots |-> FALSE]
  /\ pc = [w \in Slots |-> "absent"]
  /\ tid = [w \in Slots |-> NoThread]
  /\ held = [w \in Slots |-> NoTask]
  /\ confined = [w \in Slots |-> FALSE]
  /\ op = NoOp
  /\ owner = [k \in Tasks |-> NoTenant]
  /\ outcome = [k \in Tasks |-> "unsubmitted"]

\* Mutant: no early return when the pool is already initialised.
InitializeAgain(total, enable) ==
  /\ Idle
  /\ totalThreads' = total /\ cgroupEnabled' = enable
  /\ \E ok \in IF enable THEN CgroupIO ELSE {TRUE} :
       initialized' = ok /\ controller' = (controller \/ enable)
  /\ cgroups' = IF enable THEN <<>> ELSE cgroups
  /\ UNCHANGED <<groupVars, workerVars, op, taskVars>>

(***************************************************************************)
(* initialize.  A controller that cannot be initialised is kept, with      *)
(* cgroupEnabled_ set and initialized_ still false.                        *)
(***************************************************************************)
Initialize(total, enable) ==
  /\ Idle /\ ~initialized
  /\ totalThreads' = total
  /\ cgroupEnabled' = enable
  /\ \E ok \in IF enable THEN CgroupIO ELSE {TRUE} :
       /\ initialized' = ok
       /\ controller' = (controller \/ enable)
  /\ cgroups' = IF enable THEN <<>> ELSE cgroups
  /\ UNCHANGED <<groupVars, workerVars, op, taskVars>>

(***************************************************************************)
(* Starting workers.  WorkerThread::start() sets running_, spawns the      *)
(* thread and then calls addThread: an id that is still in the tenant's    *)
(* list is taken for present and is not written to the tasks file.         *)
(***************************************************************************)
\* Mutant: the loop that starts new workers begins one too late.
NewWorkersLate(t, from, to) == {<<t, i>> : i \in (from + 2)..to}
NewWorkers(t, from, to) == {<<t, i>> : i \in (from + 1)..to}
FreeIds == ThreadIds \ {tid[w] : w \in Slots}
FreshIds(S) == {f \in [S -> FreeIds] : \A v, w \in S : v # w => f[v] # f[w]}

Start(S, ids, broken) ==
  /\ running' = [w \in Slots |-> running[w] \/ w \in S \/ w \in broken]
  /\ pc' = [w \in Slots |-> IF w \in S THEN "check" ELSE pc[w]]
  /\ tid' = [w \in Slots |-> IF w \in S THEN ids[w] ELSE tid[w]]
  /\ UNCHANGED held

AddThreads(t, S, ids, list, written) ==
  /\ cgroups' = With(cgroups, t, list \cup {ids[w] : w \in S \cap written})
  /\ confined' = [w \in Slots |->
       IF w \in S THEN w \in written /\ ids[w] \notin list ELSE confined[w]]

\* addThread for the workers in S: every write may succeed or fail.
WriteTasks(t, S, ids, list) ==
  \E written \in SUBSET S :
    /\ \A w \in S : (w \in written) \in CgroupIO
    /\ AddThreads(t, S, ids, list, written)

(***************************************************************************)
(* createTenantThreadGroup.  Refusals that change nothing (uninitialised,  *)
(* already there, over the budget, no cgroup) are stuttering steps.  When  *)
(* a thread cannot be spawned the exception destroys the group, whose      *)
(* first workers find an empty queue and are joined at once; the cgroup    *)
(* made for the tenant stays.                                              *)
(***************************************************************************)
\* Mutant: only asks for a free thread, not for n of them.
FitsNewGroupIfAny(n) == Allocated < totalThreads
FitsNewGroup(n) == Allocated + n <= totalThreads

CreateGroup(t, n) ==
  /\ Idle /\ initialized /\ t \notin Groups /\ FitsNewGroup(n)
  /\ size' = With(size, t, n)
  /\ queue' = With(queue, t, <<>>)
  /\ LET S == NewWorkers(t, 0, n)
     IN  \E ids \in FreshIds(S) :
           /\ Start(S, ids, {})
           /\ IF cgroupEnabled THEN WriteTasks(t, S, ids, {})
              ELSE UNCHANGED <<cgroups, confined>>
  /\ UNCHANGED <<poolVars, controller, op, taskVars>>

CreateSpawnFails(t, n) ==
  /\ Idle /\ initialized /\ t \notin Groups /\ FitsNewGroup(n)
  /\ SpawnMayFail /\ cgroupEnabled
  /\ \E listed \in SUBSET FreeIds :
       /\ Cardinality(listed) < n
       /\ listed # {} => TRUE \in CgroupIO
       /\ cgroups' = With(cgroups, t, listed)
  /\ UNCHANGED <<poolVars, controller, groupVars, workerVars, op, taskVars>>

(***************************************************************************)
(* resizeTenantThreads, growing.  All the new worker objects are there     *)
(* before the first is started: a spawn that fails leaves one that         *)
(* believes it runs and the ones after it unstarted.                       *)
(***************************************************************************)
FitsResized(t, n) == AllocatedToOthers(t) + n <= totalThreads

Grow(t, n) ==
  /\ Idle /\ t \in Groups /\ n > size[t] /\ FitsResized(t, n)
  /\ size' = [size EXCEPT ![t] = n]
  /\ \E last \in size[t]..n :
       /\ last < n => SpawnMayFail
       /\ LET S == NewWorkers(t, size[t], last)
              broken == NewWorkers(t, last, n) \cap {<<t, last + 1>>}
          IN  \E ids \in FreshIds(S) :
                /\ Start(S, ids, broken)
                /\ IF cgroupEnabled THEN WriteTasks(t, S, ids, cgroups[t])
                   ELSE UNCHANGED <<cgroups, confined>>
  /\ UNCHANGED <<poolVars, controller, queue, op, taskVars>>

(***************************************************************************)
(* The operations that stop workers take the mutex here ...                *)
(***************************************************************************)
BeginShrink(t, n) ==
  /\ Idle /\ t \in Groups /\ n < size[t] /\ FitsResized(t, n)
  /\ op' = [NoOp EXCEPT !.kind = "shrink", !.tenant = t, !.at = size[t], !.target = n]
  /\ UNCHANGED <<poolVars, cgroupVars, groupVars, workerVars, taskVars>>

BeginRemove(t) ==
  /\ Idle /\ t \in Groups
  /\ op' = [NoOp EXCEPT !.kind = "remove", !.tenant = t, !.at = 1]
  /\ UNCHANGED <<poolVars, cgroupVars, groupVars, workerVars, taskVars>>

\* shutdown visits the groups in the order of an unordered_map: any order.
BeginShutdown(t) ==
  /\ Idle /\ initialized /\ t \in Groups
  /\ op' = [NoOp EXCEPT !.kind = "shutdown", !.tenant = t, !.at = 1, !.rest = Groups \ {t}]
  /\ UNCHANGED <<poolVars, cgroupVars, groupVars, workerVars, taskVars>>

(***************************************************************************)
(* ... and then stop one worker after the other: WorkerThread::stop().     *)
(***************************************************************************)
AtWorker ==
  /\ ~op.joining
  /\ \/ ToldToStop /\ op.at <= size[op.tenant]
     \/ op.kind = "shrink" /\ op.at > op.target

\* Mutant: resize pops two workers for each it stops.
PassTwice ==
  IF op.kind = "shrink"
  THEN /\ op' = [op EXCEPT !.at = op.at - 2, !.joining = FALSE]
       /\ size' = [size EXCEPT ![op.tenant] = op.at - 2]
  ELSE /\ op' = [op EXCEPT !.at = op.at + 1, !.joining = FALSE]
       /\ UNCHANGED size

\* The loop moves on: to the next worker, or with pop_back to the one before.
Pass ==
  IF op.kind = "shrink"
  THEN /\ op' = [op EXCEPT !.at = op.at - 1, !.joining = FALSE]
       /\ size' = [size EXCEPT ![op.tenant] = op.at - 1]
  ELSE /\ op' = [op EXCEPT !.at = op.at + 1, !.joining = FALSE]
       /\ UNCHANGED size

SkipWorker ==
  /\ AtWorker /\ ~running[Cursor]
  /\ Pass
  /\ UNCHANGED <<poolVars, cgroupVars, queue, workerVars, taskVars>>

\* Mutant: stop() joins without taking running_ down.
SignalWorkerNoFlag ==
  /\ AtWorker /\ running[Cursor]
  /\ op' = [op EXCEPT !.joining = TRUE]
  /\ UNCHANGED <<poolVars, cgroupVars, groupVars, workerVars, taskVars>>

SignalWorker ==
  /\ AtWorker /\ running[Cursor]
  /\ running' = [running EXCEPT ![Cursor] = FALSE]
  /\ op' = [op EXCEPT !.joining = TRUE]
  /\ UNCHANGED <<poolVars, cgroupVars, groupVars, pc, tid, held, confined, taskVars>>

\* Mutant: the thread is detached instead of joined.
DetachWorker ==
  /\ op.joining
  /\ Pass
  /\ UNCHANGED <<poolVars, cgroupVars, queue, workerVars, taskVars>>

\* join() returns, or there is no thread to join.  A joined std::thread has
\* the default id: that is the id removeThread() gets.
JoinWorker ==
  /\ op.joining /\ pc[Cursor] \in {"exited", "absent"}
  /\ Pass
  /\ pc' = [pc EXCEPT ![Cursor] = "absent"]
  /\ tid' = [tid EXCEPT ![Cursor] = NoThread]
  /\ confined' = [confined EXCEPT ![Cursor] = FALSE]
  /\ cgroups' = IF cgroupEnabled
                THEN [cgroups EXCEPT ![op.tenant] = @ \ {tid'[Cursor]}] ELSE cgroups
  /\ UNCHANGED <<poolVars, controller, queue, running, held, taskVars>>

(***************************************************************************)
(* The last steps.  The queue of a destroyed group takes its tasks along.  *)
(***************************************************************************)
QueuedIn(S) == UNION {{queue[t][i] : i \in DOMAIN queue[t]} : t \in S}

Destroy(S) ==
  /\ size' = Without(size, S)
  /\ queue' = Without(queue, S)
  /\ outcome' = [k \in Tasks |-> IF k \in QueuedIn(S) THEN "lost" ELSE outcome[k]]

GroupStopped == ~op.joining /\ op.at > size[op.tenant]

\* Mutant: a resize starts the group with a new queue.
FinishShrinkNewQueue ==
  /\ op.kind = "shrink" /\ ~op.joining /\ op.at = op.target
  /\ queue' = [queue EXCEPT ![op.tenant] = <<>>]
  /\ outcome' = [k \in Tasks |-> IF k \in QueuedIn({op.tenant}) THEN "lost" ELSE outcome[k]]
  /\ op' = NoOp
  /\ UNCHANGED <<poolVars, cgroupVars, size, workerVars, owner>>

FinishShrink ==
  /\ op.kind = "shrink" /\ ~op.joining /\ op.at = op.target
  /\ op' = NoOp
  /\ UNCHANGED <<poolVars, cgroupVars, groupVars, workerVars, taskVars>>

FinishRemove ==
  /\ op.kind = "remove" /\ GroupStopped
  /\ Destroy({op.tenant})
  /\ \E removed \in IF cgroupEnabled THEN CgroupIO ELSE {FALSE} :
       cgroups' = IF removed THEN Without(cgroups, {op.tenant}) ELSE cgroups
  /\ op' = NoOp
  /\ UNCHANGED <<poolVars, controller, workerVars, owner>>

NextGroup(t) ==
  /\ op.kind = "shutdown" /\ GroupStopped /\ t \in op.rest
  /\ op' = [op EXCEPT !.tenant = t, !.at = 1, !.rest = @ \ {t}]
  /\ UNCHANGED <<poolVars, cgroupVars, groupVars, workerVars, taskVars>>

\* cgroupController_.reset(): the destructor iterates over tenantThreads_
\* while removeTenantCgroup erases from it.  That is undefined when there is
\* an entry: the loop ends, or the process does.
ResetController ==
  /\ controller' = FALSE
  /\ cgroups' = <<>>
  /\ initialized' = FALSE
  /\ \E crash \in IF controller /\ DOMAIN cgroups # {} THEN BOOLEAN ELSE {FALSE} :
       op' = IF crash THEN [NoOp EXCEPT !.kind = "crashed"] ELSE NoOp

FinishShutdown ==
  /\ op.kind = "shutdown" /\ GroupStopped /\ op.rest = {}
  /\ Destroy(Groups)
  /\ ResetController
  /\ UNCHANGED <<totalThreads, cgroupEnabled, workerVars, owner>>

ShutdownEmpty ==
  /\ Idle /\ initialized /\ Groups = {}
  /\ ResetController
  /\ UNCHANGED <<totalThreads, cgroupEnabled, groupVars, workerVars, taskVars>>

(***************************************************************************)
(* submitTask                                                              *)
(***************************************************************************)
Submit(t, k) ==
  /\ Idle /\ t \in Groups /\ outcome[k] = "unsubmitted"
  /\ queue' = [queue EXCEPT ![t] = Append(@, k)]
  /\ owner' = [owner EXCEPT ![k] = t]
  /\ outcome' = [outcome EXCEPT ![k] = "pending"]
  /\ UNCHANGED <<poolVars, cgroupVars, size, workerVars, op>>

(***************************************************************************)
(* WorkerThread::run, one thread per slot                                  *)
(***************************************************************************)
CheckRunning(w) ==
  /\ pc[w] = "check"
  /\ pc' = [pc EXCEPT ![w] = IF running[w] THEN "dequeue" ELSE "exited"]
  /\ UNCHANGED <<poolVars, cgroupVars, groupVars, running, tid, held, confined, op, taskVars>>

\* Mutant: a worker that finds the queue empty leaves its loop.
SleepForGood(w) ==
  /\ pc[w] = "dequeue" /\ queue[w[1]] = <<>>
  /\ pc' = [pc EXCEPT ![w] = "exited"]
  /\ UNCHANGED <<poolVars, cgroupVars, groupVars, running, tid, held, confined, op, taskVars>>

Sleep(w) ==
  /\ pc[w] = "dequeue" /\ queue[w[1]] = <<>>
  /\ pc' = [pc EXCEPT ![w] = "check"]
  /\ UNCHANGED <<poolVars, cgroupVars, groupVars, running, tid, held, confined, op, taskVars>>

\* Mutant: the head is read but stays in the queue.
Peek(w) ==
  /\ pc[w] = "dequeue" /\ queue[w[1]] # <<>>
  /\ pc' = [pc EXCEPT ![w] = "execute"]
  /\ held' = [held EXCEPT ![w] = Head(queue[w[1]])]
  /\ UNCHANGED <<poolVars, cgroupVars, groupVars, running, tid, confined, op, taskVars>>

Take(w) ==
  /\ pc[w] = "dequeue" /\ queue[w[1]] # <<>>
  /\ queue' = [queue EXCEPT ![w[1]] = Tail(@)]
  /\ pc' = [pc EXCEPT ![w] = "execute"]
  /\ held' = [held EXCEPT ![w] = Head(queue[w[1]])]
  /\ UNCHANGED <<poolVars, cgroupVars, size, running, tid, confined, op, taskVars>>

\* A task that is not valid is dropped after dequeue() without being run.
Discard(w) ==
  /\ pc[w] = "dequeue" /\ queue[w[1]] # <<>>
  /\ queue' = [queue EXCEPT ![w[1]] = Tail(@)]
  /\ pc' = [pc EXCEPT ![w] = "check"]
  /\ outcome' = [outcome EXCEPT ![Head(queue[w[1]])] = "discarded"]
  /\ UNCHANGED <<poolVars, cgroupVars, size, running, tid, held, confined, op, owner>>

\* execute() returns or throws; the exception is caught.
Executed(w) ==
  /\ pc[w] = "execute"
  /\ pc' = [pc EXCEPT ![w] = "check"]
  /\ held' = [held EXCEPT ![w] = NoTask]
  /\ outcome' = [outcome EXCEPT ![held[w]] = "executed"]
  /\ UNCHANGED <<poolVars, cgroupVars, groupVars, running, tid, confined, op, owner>>

WorkerStep(w) ==
  CheckRunning(w) \/ Sleep(w) \/ Take(w) \/ Discard(w) \/ Executed(w)

\* The steps of the operation that holds the mutex.
HolderStep ==
  \/ SkipWorker \/ SignalWorker \/ JoinWorker
  \/ FinishShrink \/ FinishRemove \/ FinishShutdown
  \/ \E t \in Tenants : NextGroup(t)

Call ==
  \/ \E total \in Totals, enable \in CgroupModes : Initialize(total, enable)
  \/ \E t \in Tenants : BeginRemove(t) \/ BeginShutdown(t)
  \/ \E t \in Tenants, n \in ThreadCounts :
       CreateGroup(t, n) \/ CreateSpawnFails(t, n) \/ Grow(t, n) \/ BeginShrink(t, n)
  \/ \E t \in Tenants, k \in Tasks : Submit(t, k)
  \/ ShutdownEmpty

Next == Call \/ HolderStep \/ \E w \in Slots : WorkerStep(w)

Spec == Init /\ [][Next]_vars

\* The threads are scheduled: a worker that can step does, and so does the
\* thread that holds the mutex.  No caller has to come.
Fairness == WF_vars(HolderStep) /\ \A w \in Slots : WF_vars(WorkerStep(w))
FairSpec == Spec /\ Fairness
-------------------------------------------------------------------------------
OpType == [kind : {"none", "remove", "shutdown", "shrink", "crashed"},
           tenant : Tenants \cup {NoTenant}, at : 0..(MaxThreads + 1),
           target : 0..MaxThreads, rest : SUBSET Tenants, joining : BOOLEAN]

\* Type correctness; the maps of one group object have one domain.
TypeOK ==
  /\ initialized \in BOOLEAN /\ totalThreads \in Nat /\ cgroupEnabled \in BOOLEAN
  /\ controller \in BOOLEAN
  /\ DOMAIN cgroups \subseteq Tenants
  /\ cgroups \in [DOMAIN cgroups -> SUBSET ThreadIds]
  /\ Groups \subseteq Tenants
  /\ size \in [Groups -> 0..MaxThreads]
  /\ queue \in [Groups -> Seq(Tasks)]
  /\ running \in [Slots -> BOOLEAN]
  /\ pc \in [Slots -> {"absent", "check", "dequeue", "execute", "exited"}]
  /\ tid \in [Slots -> ThreadIds \cup {NoThread}]
  /\ held \in [Slots -> Tasks \cup {NoTask}]
  /\ confined \in [Slots -> BOOLEAN]
  /\ op \in OpType
  /\ owner \in [Tasks -> Tenants \cup {NoTenant}]
  /\ outcome \in [Tasks -> {"unsubmitted", "pending", "executed", "discarded", "lost"}]

\* The groups never hold more workers than the pool has threads, so that
\* getSystemThreadInfo's unsigned subtraction does not wrap, over any mix of
\* creations, resizes, removals and re-initialisations.
ThreadBudget == SystemThreads >= 0

\* A thread that runs uses the queue and the flags of its group: its worker
\* object must still exist, whatever the operation that is taking the group
\* apart has done so far.
NoDanglingThread ==
  \A w \in Slots : LiveThread(w) => w \in Workers

\* A pending task is in exactly one place, the queue of the tenant it was
\* submitted for or the hands of one of that tenant's workers; a task that is
\* not pending is nowhere.
Places(k) ==
  UNION {{<<t, i>> : i \in {j \in DOMAIN queue[t] : queue[t][j] = k}} : t \in Groups}
HeldBy(k) == {w \in Slots : held[w] = k}
TaskConservation ==
  \A k \in Tasks :
    /\ Cardinality(Places(k)) + Cardinality(HeldBy(k)) = IF outcome[k] = "pending" THEN 1 ELSE 0
    /\ \A p \in Places(k) \cup HeldBy(k) : p[1] = owner[k]

\* Between two operations every worker object of every group is running, with
\* a thread behind it: no resize, failed call or removal of another group
\* leaves a group understaffed (spawns succeeding).
FullyStaffed ==
  Idle => \A w \in Workers : running[w] /\ pc[w] \in {"check", "dequeue", "execute"}

\* With cgroups on, every group has the controller and the cgroup its worker
\* threads were started under, through which create, grow, stop and remove
\* reach it (the code dereferences cgroupController_ without a test).
CgroupReady ==
  initialized /\ cgroupEnabled => controller /\ Groups \subseteq DOMAIN cgroups

\* Refuted: every running worker of a group that was made with cgroups on is in its
\* tenant's cgroup (cgroup writes succeeding).
ThreadsConfined ==
  cgroupEnabled => \A w \in Workers : LiveThread(w) => confined[w]

\* Refuted: the controller's thread list names only threads that run: stop() takes the
\* thread off the list ("Remove thread from cgroup").
ListedThreadsRun ==
  Idle => \A t \in Groups \cap DOMAIN cgroups :
            cgroups[t] \subseteq {tid[w] : w \in {v \in Workers : v[1] = t}}

\* Refuted: tearing the pool down removes the tenants' cgroups and nothing else.
CleanShutdown == op.kind # "crashed"

\* A call that stops workers returns: the mutex is held only while the
\* workers it waits for finish the task they are at.
CallsReturn == ~Idle ~> Idle

\* A task accepted for a tenant is taken from the queue as long as the group
\* keeps one worker; if it stays queued for ever the group has none.
TasksServed ==
  \A t \in Tenants, k \in Tasks :
    (t \in Groups /\ k \in QueuedIn({t}))
      ~> (t \notin Groups \/ k \notin QueuedIn({t}) \/ size[t] = 0)


\* The pool keeps the promise of TaskService: tasks are executed once and for
\* the tenant they were accepted for, and only the end of a group loses any.
Service == INSTANCE TaskService WITH served <- Groups
ServiceSpec == Service!Spec
===============================================================================
