# mt_tenant: TLA+ models, checks and proofs

The repository is a C++ demonstration of multi-tenant resource isolation for YaoBase
(`src/src`, about 3500 lines). Each tenant gets a share of CPU threads, memory and disk; an
SQL server, a data server and a monitor work against these shares. This directory holds
TLA+ models of the parts that keep state, TLC configurations that check them on small
instances, and TLAPS proofs: of every safety property that the runs check, for all values of the
constants (section 5 names the hypotheses, where a theorem has some, and the one refinement that
remains model-checked for several producers), and that the pool, the queue and TenantManager
implement their abstract specifications.

Run from this directory: `tlc -workers 2 -config MCThreadPool_tasks.cfg MCThreadPool.tla`
(and so for every `MC<module>_<run>.cfg`), and `tlapm <module>.tla` for the eight modules whose
names end in `Proofs`.

## 1. The system

Paths are below `src/src/`.

| Component | State | Operations | Talks to |
|---|---|---|---|
| ThreadPoolManager (`core/resource/ThreadPoolManager.cpp`) | initialised, total threads, cgroup switch, map tenant -> thread group, one mutex | initialize, shutdown, create/remove/resize group, submitTask, thread info | groups, CgroupController |
| TenantThreadGroup, WorkerThread (`TenantThreadGroup.cpp`) | vector of workers, queue; per worker: running flag, thread | start, stop, resize; the run loop | LockFreeQueue, CgroupController |
| CgroupController | map tenant -> listed thread ids; the kernel's cgroup files, which outlive the process | initialize, create/remove cgroup, set shares, add/remove thread, read usage and throttled time | file system |
| LockFreeQueue | Michael-Scott list, head, tail, size, all atomics | enqueue, dequeue | producers under the pool mutex, the group's workers without it |
| TenantManager, TenantContext (`core/tenant`) | map tenant -> context (CPU quota), mutex | create, remove, update quota, get | the five managers below, one call after the other |
| CpuResourceManager | map tenant -> usage (0..1, -1 for absent) | allocate, release, get, update | TenantManager, SqlServer, CpuMonitor |
| MemoryResourceManager, DiskResourceManager and their quota checkers | totals, map tenant -> quota and used | initialize, allocate, release, usage, update, check | TenantManager, SqlServer, DataServer |
| CpuMonitor | map of monitored tenants **without a lock**, an atomic flag, a thread | register, unregister, start, stop, the loop | CpuResourceManager |
| ConnectionManager, TenantAuthenticator, CpuQuotaChecker | none | handleConnection: authenticate, check, fetch context | TenantManager, CpuResourceManager |
| SqlServer, DataServer | running flag; `handleRequest` holds no lock between its calls | start, stop, handleRequest | all managers |
| ConfigManager (`common/config`) | key-value map | loadConfig, getInt, getBool, set | main, SqlServer |
| main | the order of the calls; singletons, built when first used and destroyed in reverse | demo, benchmark (ten client threads), self-tests | everything |
| BasicResourceStats, RequestContext | per-request counters, two pointers | | |
| TransServer, AdminServer | none: stubs | | |

What is hard here:

* **Concurrency.** Workers run while remove, shrink and shutdown take their group apart under
  the pool mutex. Producers and workers share the queue without a lock. Requests and the
  monitor run between the five calls of createTenant and removeTenant. The monitor's map has
  no lock at all.
* **Failure.** Any of five allocations may fail and has to be rolled back; a thread may fail to
  spawn in the middle of a resize or when the monitor starts; cgroup operations fail one by one,
  and leave directories that the next process finds; main returns from the middle of its start-up.
* **Numbers.** Unsigned subtractions (threads, size, allocated totals), an integer total that
  adds up doubles, a ratio added to an amount.
* **Lifetime.** Queue nodes, worker objects, tenant contexts kept by a connection, ids of
  joined threads, singletons that a thread still uses when main has returned.

What makes each part correct: the pool neither loses nor misroutes a task while a group lives,
no thread uses a destroyed group, stays in its budget and its calls return; the queue is FIFO
and touches no freed node; a tenant has all of its resources or none, and removing it leaves
nothing; the totals of the managers equal what is allocated, and nobody gets more than its
quota; the monitor stops when told to and at no other time; a group has a cgroup of its own; the
process ends, and no thread outlives what it uses. `PROJECT.json` lists the hazards line by line with the properties that cover them.

## 2. The modules

| Module | Models | How |
|---|---|---|
| `ThreadPool` | ThreadPoolManager, TenantThreadGroup, WorkerThread, CgroupController's thread lists | A worker object is a slot `<<t, i>>`, existing iff `i <= size[t]`; the OS thread behind it has its own `pc`. Operations that never wait are one action (they hold the mutex). Remove, shrink and shutdown are split at each `running_` store and each join; `op` is the operation in progress, `Cursor` the worker it is at. |
| `TaskService` | what the pool promises | served tenants, owner and fate of each task; no threads, no queues |
| `LockFreeQueue` | LockFreeQueue.cpp | one action per atomic access or use of a node; nodes are allocated and freed; a use of a freed node sets `fault` |
| `TaskQueue` | what the queue promises | a sequence; the pool's model relies on it |
| `TenantLifecycle` | TenantManager against the managers, SqlServer (handleRequest, initialize, start, stop), handleConnection, CpuMonitor | one action per call into another component, for callers, requests and the monitor alike; only the presence of shares and the class of a CPU usage are kept |
| `TenantRegistry` | what TenantManager promises | who is there, with which quota and which resources; a call is one step |
| `QuotaManager` | disk manager and checker, DataServer::handleRequest; the memory side is the same code | amounts in thousandths; the integer total truncates as the code's does; a ratio may be 0/0 (`NotANumber`) or a usage over quota 0 (`Infinite`) |
| `CpuQuota` | one tenant's CPU usage: the connection check, handleRequest's threshold and increment, the writers beside it | usages in hundredths; one action per access of CpuResourceManager or TenantManager; `handled` and `granted` are history |
| `CpuMonitor` | startMonitoring, stopMonitoring and the loop | the flag, the thread object (`handle`) and the thread (`loop`) are separate, so that a thread without object, an object without thread and a flag without either can be told apart |
| `CgroupFiles` | CgroupController's directories, shares and readers, with the kernel as environment | a directory is its `cpu.shares`; a file is a sequence of key, separator and value; a crash forgets the process and keeps the files |
| `Startup` | main in its three modes, ConfigManager, the life of the singletons | `Program` is the list of main's calls and `pc` the next one; each call is an action; the monitor and the client threads run beside it; `built` is the order of construction |
| `ThreadPoolProofs`, `TenantLifecycleProofs`, `QuotaManagerProofs`, `LockFreeQueueProofs`, `StartupProofs`, `CpuMonitorProofs`, `CgroupFilesProofs`, `CpuQuotaProofs` | theorems | section 5 |
| `MC...` | instances | symmetry, and the configuration files of `Startup`; all other constants are in the `.cfg` files |

How they fit together. `ThreadPool` abstracts the queue to a FIFO with atomic operations:
`LockFreeQueueProofs` justifies this for one producer (submitTask holds the pool mutex) and one worker,
and `LockFreeQueue` refutes it for two workers (section 4). `TenantLifecycle` takes a pool call for one step, since
`ThreadPool` shows that it returns; memory and disk checks for free choices, since `QuotaManager`
has the numbers; and CPU checks likewise, since `CpuQuota` has them. `Startup` takes the calls of all
managers for steps, and shows what `CpuMonitor` and `TenantLifecycle` assume about the program:
tenants are registered while the monitor is not there (`MonitorAlone`; `TenantLifecycle` also has what
happens otherwise). `LateInit = FALSE` of `TenantLifecycle`, no initialisation under registered tenants,
is a hypothesis and not what `main` does: `main` calls createTenant before it initialises the managers.
These initialisations meet no tenant only because every createTenant of `main` fails (`StartupNoTenant`;
`DemoTenantsServed` is refuted). If one succeeded, its shares would be forgotten: with `LateInit = TRUE`
TLC refutes `Provisioned`. What a late initialize() does keep are the totals: `QuotaManager` initialises
at any moment, and `Accounting` holds. `ThreadPool` and `CgroupFiles` split CgroupController between
them: threads in the one, directories in the other.

## 3. The runs that pass

| Run | Distinct states | Question and properties |
|---|---|---|
| `pool_tasks` | 99 481 | Groups are created, resized to 0, 1 or 2, removed and shut down while tasks run: no task is in two places or with the wrong tenant (`TaskConservation`), no operation leaves workers unstarted (`FullyStaffed`), the pool implements `TaskService` (`ServiceSpec`: it loses tasks only in the step that ends a tenant's service), the joins of remove, shrink and shutdown end (`CallsReturn`), and a queued task is taken unless its group ends or has no worker (`TasksServed`). |
| `pool_cgroup` | 1 515 571 | The same with cgroups on or off, failing cgroup I/O and failing spawns: no thread outlives its worker object (`NoDanglingThread`), the unsigned thread arithmetic never wraps (`ThreadBudget`), and whenever the code dereferences the controller, it and the tenant's cgroup are there (`CgroupReady`). |
| `tenant_admin` | 3 774 | With TenantManager alone at work, `AllOrNothing`: after every call, failed ones included, a tenant has all five resources or none. `AdminCallsReturn`: the mutex is given back. `RegistrySpec`: it implements `TenantRegistry`. |
| `tenant_concurrent` | 790 888 | With requests, connections, the monitor, servers that start and stop and throwing group creation between the calls: registered tenants keep their shares (`Provisioned`); groups and monitor entries belong to registered tenants (`OwnedByTenants`); and although a connection's context outlives its tenant, no request with it gets through to the thread pool once the entry in `m_tenants` is erased (`ServedWhileRegistered`, an action property). |
| `quota_accounting` | 150 699 | Allocations, releases, re-initialisation and quota changes by two clients, with requests that allocate on their own: the unsigned total never goes below zero (`TypeOK`) and is what present allocations account for (`Accounting`), and real quotas pass the total by lost fractions only (`OvercommitBounded`). |
| `queue_fifo` | 110 968 | One producer, one worker, three tasks, four nodes, so that nodes are reused while stale pointers to them exist: `NoUseAfterFree`; the list is whole and `tail_` in it (`WellFormed`); the counter is the length but for operations under way (`SizeExact`); refinement of `TaskQueue` (`QueueSpec`); `TasksTaken`. |
| `queue_producers` | 729 | Two producers with spuriously failing compare-and-swaps: the list stays FIFO (`QueueSpec`). |
| `startup_modes` | 480 | The three modes with four configurations and a cgroup file system that may refuse: the monitor is alone with its map (`MonitorAlone`); every way out, early returns and destructors included, is safe (`SafeExit`); main and the SQL server agree on what they configure (`OneConfiguration`); the process ends (`ProcessEnds`). |
| `monitor_restart` | 200 | Any sequence of starts and stops, with threads that fail to start: one thread at most, and none without its object (`OneThread`); nothing is written after a stop has returned (`StoppedMeansStopped`); stops return (`StopReturns`); every monitored tenant gets new figures as long as the monitor runs (`MonitoredRefreshed`). |
| `cgroup_files` | 1 857 | File operations that fail, crashes and restarts: a group has a directory with shares written by this program (`GroupHasCgroup`), what is listed exists (`TypeOK`), and the usage read is the kernel's (`CpuUsageSeen`). |
| `cpu_charged` | 2 123 078 | Three clients with stale usages and contexts, while the tenant is removed, created anew, given another quota and measured by others: requests take the usage past the threshold by one step at most (`UsageBounded`), and what was handled accounts for it (`ChargedAtMostOnce`). |

**Bounds.** Two tenants, because every property of interest relates a tenant to one other (who
pays for a resize, who gets a task, whose share is dropped). Groups of at most two workers: the
loops over workers have a first, a last and a next step, and a shrink to one leaves a worker
that goes on. Pools of one to three threads, so that a second group fits exactly, fits partly
or is refused. Thread ids are fewer than the threads ever started, so ids are reused. Two tasks
make order observable. Four nodes are the dummy and three in flight. Disk totals of 100 with quotas of 61 and 65 per cent
(48.8 and 52 units) make truncation visible. `MaxGranted` stops the history counter of grants
(it is zero in `quota_accounting`, where nothing reads it). `SizeRange` stands for 2^64 (8 in the
queue, 2^16 in `Startup`, where the configured sizes are smaller but for the negative one; the proofs
leave it open).
In `tenant_concurrent` a tenant takes one unit of a pool of one, so the second group is refused
and rolled back while requests run. `LateInit = FALSE` initialises servers only while no tenant is
registered, which is true of the demo for want of tenants: its createTenant calls come before the pool is
initialised and therefore fail. With `LateInit = TRUE` an initialize() forgets the memory or disk
shares of registered tenants, and TLC refutes `Provisioned`. In `Startup` the clients are the ten of
the benchmark, and the files are the one that is shipped, one without cgroups that sets a key twice,
one with unreadable and negative values, and none. The monitor has two tenants and two figures, so
that an iteration has a first and a last. In `CpuQuota` a request adds 20 hundredths in place of 1
(`Step`), which brings three clients to the threshold within `MaxHandled = 4` requests; `Figures` are
what others write, and quotas of 0 and 50 refuse and admit. `MaxTime = 1` is one tick of the kernel's
clocks: it tells an accounted time from none.

**Deadlock** is checked except where the system may stop: in `pool_cgroup` after the undefined
behaviour of the controller's destructor, in `tenant_concurrent` after a crash from the monitor's
race, in `queue_producers` when all tasks are enqueued, in `cpu_charged` when the counter is at its
bound.

**Symmetry** is used for safety runs over interchangeable model values, never where a liveness
property is checked.

**Fairness.** `ThreadPool`: weak fairness of each worker's step and of the step of the thread
that holds the mutex: the operating system schedules runnable threads, and a task's `execute()`
is assumed to end. Nothing makes a caller come. `TenantLifecycle`: a thread inside a call goes on;
waiting for the mutex is not fair. `LockFreeQueue`: a thread inside enqueue goes on and a worker
calls dequeue again and again, as `WorkerThread::run` does. `CpuMonitor`: a start or stop that has
begun goes on, and the monitor thread is scheduled; nothing makes anybody start or stop it.
`Startup`: main, the monitor and the clients are scheduled; none of them waits for input.

Every property has a mutant: an operator next to the one it replaces, marked "Mutant", with a
plausible mistake (a forgotten flag, a roll-back that skips a step) under which the run fails.
No specification uses them.

## 4. Where the code does something else than it says

One run ends with a counterexample and is kept for it, because the other runs of `LockFreeQueue` and
the atomic queue of `ThreadPool` must be read with it in mind:

| Run | What TLC shows | Said where |
|---|---|---|
| `queue_workers` | Two workers of a group: one deletes the dummy the other has loaded and is about to read. | `src/src/core/resource/LockFreeQueue.h:23` |

**Known divergences without a run.** The modules state these too, under the names given and marked
"Refuted"; TLC finds the counterexample when the property is put in a configuration of the module
(the last column names the constants that matter). They are no part of the passing runs.

| Module, property | What happens | Said where | To see it |
|---|---|---|---|
| `ThreadPool` `ThreadsConfined` | Resize 1 -> 2 -> 1 -> 2: `stop()` joins, then calls `removeThread` with the id of a joined thread, which is no id. The old id stays listed; a new thread that gets it is never written to the cgroup. | `src/ARCHITECTURE.md:168` | one tenant, two ids, cgroups on and working |
| `ThreadPool` `ListedThreadsRun` | After a shrink the controller's list names a joined thread. | comment at `TenantThreadGroup.cpp:38` | the same |
| `ThreadPool` `CleanShutdown` | The controller's destructor erases from the map it iterates over. | `CgroupController.cpp:18` | the same |
| `TenantLifecycle` `RemovalComplete` | A request that read its usage before removeTenant writes it back afterwards. The stale CPU entry also makes every later createTenant of that id fail. | `src/ARCHITECTURE.md:216` | `Requests = TRUE` |
| `TenantLifecycle` `NegativeMeansAbsent` | A first request stores -1 + 0.01; the tenant counts as absent from then on. | `CpuQuotaChecker.cpp:12` | `Requests = TRUE` |
| `TenantLifecycle` `ThreadsMatchQuota` | updateTenantQuota ignores that the pool refused the resize. | `src/ARCHITECTURE.md:138` | quotas 1 and 2, a pool of 2 |
| `TenantLifecycle` `ServiceSurvivesMonitor` | A tenant registers while the monitor iterates over the same unlocked map. | `src/ARCHITECTURE.md:211` | `Monitoring = TRUE` |
| `QuotaManager` `QuotaEnforced` | The recorded usage is a *ratio* plus one request, so it never grows: one client alone is granted more than its quota. | `src/ARCHITECTURE.md:41` | one client, `MaxGranted` above the quota |
| `QuotaManager` `RecordedWithinQuota` | Two requests pass the quota check before either records. | `src/ARCHITECTURE.md:45` | two clients |
| `QuotaManager` `NoOvercommit` | 48.8 and 52 units out of 100 are both granted: the total lost 0.8. | comment at `DiskResourceManager.cpp:39` | as in `quota_accounting` |
| `QuotaManager` `QuotaFollowsTenant` | A changed CPU quota does not reach memory and disk quotas. | `src/ARCHITECTURE.md:214` | as in `quota_accounting` |
| `LockFreeQueue` `SizeInBounds` | The worker counts a task out before the producer counted it in: size wraps for a moment (`SizeExact` says how far it is off). | `LockFreeQueue.h:45` | as in `queue_fifo` |
| `Startup` `DemoTenantsServed` | createTenant needs the thread pool, which main initialises later: the demo has no tenants. | comment at `main.cpp:55` | as in `startup_modes`, and so below |
| `Startup` `SelfTestsPass` | The self-tests run without a pool, so no tenant is created in them. | `main.cpp:184` | |
| `Startup` `DegradesToBasic` | A cgroup file system that refuses ends the demo with exit code 1. | `src/ARCHITECTURE.md:209` | |
| `Startup` `DiskTotalConfigured` | dataServer->initialize() sets the disk total back to 100. | comment at `DataServer.cpp:53` | |
| `CgroupFiles` `ThrottledTimeSeen` | Only the first line of `cpu.stat` is read, and an equals sign looked for that the kernel does not write: the result is always 0. | `CgroupController.h:77` | as in `cgroup_files`, and so below |
| `CgroupFiles` `SharesFollowQuota` | Every tenant has the default shares; nothing calls setCpuShares. | `src/ARCHITECTURE.md:155` | |
| `CpuQuota` `RequestsCounted` | Two requests read the same usage; one increment is lost. | comment at `SqlServer.cpp:88` | `Admin = FALSE`, `Figures = {}` |
| `CpuQuota` `QuotaIsPercentage` | The usage is a fraction and compared with the quota as it is: any quota but 0 admits all. | comment at `CpuQuotaChecker.cpp:14` | one client, quota 50, a figure of 60 |

Two more facts the models show and no document contradicts: an exception from
createTenantThreadGroup leaves createTenant without roll-back, so `AllOrNothing` needs
`SpawnMayFail = FALSE`; and shutting the pool down leaves tenants registered without a group.
`queue_fifo` needs compare-and-swaps that do not fail spuriously (`WeakCAS = FALSE`, true of
x86-64): on machines where they may, enqueue's unchecked update of `tail_` lets one producer and
one worker use a freed node.

## 5. What is proved

`ThreadPoolProofs` proves, for every set of tenants, tasks and thread ids, every pool size, every
outcome of cgroup I/O and with failing spawns allowed (assumption `ThreadPoolAssumption` only:
finitely many tenants, bounded groups):

* `ThreadPoolInvariant`: `Spec => []IInv`
* `ThreadPoolTypeOK`, `ThreadPoolBudget`, `ThreadPoolNoDangling`, `ThreadPoolCgroupReady`
* `ThreadPoolTasksConserved`, `ThreadPoolImplementsService` (`Spec => ServiceSpec`) and, assuming that
  spawns succeed (`~SpawnMayFail`), `ThreadPoolFullyStaffed`

`ThreadBudget` is inductive with the types; the work is in counting: the workers of a group are
`{t} \X 1..n`, a union adds at most n, and what resize sums over the other groups is what remains
(`GroupCount`, `AddGroupCount`, `GrowIInv`). `CgroupReady` needs that an uninitialised pool has no
groups. `NoDanglingThread` is not inductive. A step that pops or destroys workers keeps it only
because these workers are dead by then, so `IInv` adds how far the operation has come: its cursor
is within the group and all groups yet to visit still exist (`OpInv`); a live thread runs with
`running_` set unless it is the one being joined (`LiveRuns`, which is what lets `stop()` skip a
worker whose flag is down, even one a failed spawn left behind); and everything the cursor has passed is
dead (`PassedAreDead`). Each action has a lemma `...IInv`; `NextIInv` puts them together.

`TaskConservation` counts the places of a task, which is no inductive form. `TaskInv` says it
without counting: a queue holds each task once, what a queue or a worker holds is pending and its
own tenant's, and no two hold the same. `IInv` is needed beside it: a worker is popped, and a group
ends, only when its threads are dead, so no task is in their hands. The refinement goes step by step:
`TaskService` sees an accepted task, one that is done, one that is lost with its group, a group that
comes or goes, and stutters otherwise (`StepKinds`). `FullyStaffed` needs `StaffInv`: every worker
object has a live thread that is not told to stop (`OnDuty`), unless the operation in progress is
joining it, has passed it with its cursor, or has finished with its group.

`TenantLifecycleProofs` proves, for every set of clients and tenants, all quotas and pool sizes, with
or without requests, the monitor, failing spawns and restarts (assumption `LifecycleAssumption`):

* `LifecycleInvariant`: `Spec => []IInv`
* `LifecycleTypeOK`, `LifecycleOwned`, `LifecycleServed`, and, assuming `~LateInit`, `LifecycleProvisioned`

The properties speak of the moments when the mutex is free; `IInv` speaks of all others. `Progress`
says what the call in progress may own: before it registers a monitor entry there is none, and a
group or an entry that is there while it releases is still on its list, so that erasing the tenant
from `m_tenants`, which comes last, leaves none. That a group is there only while its tenant is registered,
at every step of every call (`Owned`), is what `LifecycleServed` rests on. `Shares` says what createTenant has allocated so
far and that updateTenantQuota's tenant has everything; `SharesKept` adds every other registered
tenant. Steps are sorted by the part they play (`BystanderIInv`: requests, monitor, servers;
`BeginOfCall`, `StepOfCall`, `EndOfCall`: the caller with the mutex), and each action's lemma reduces
to one of the four.

The module goes on from there, assuming that only TenantManager touches the managers
(`Alone`: no requests, no monitor, no restarts, no failing spawns), for all clients, tenants, quotas
and pool sizes:

* `RegistryRefined`: `Spec => RegistrySpec`, and `LifecycleAllOrNothing`.

None of the five can be left out: with any one of them allowed in the configuration of `tenant_admin`,
TLC finds one of the two violated (a usage figure that a request or the monitor writes after the tenant
is removed, a group that ends with the pool, a roll-back that a throwing pool skips, shares that a late
initialisation forgets).

`IInv` says what a tenant has at least; the refinement needs to know it exactly. `Exact` says that the
tenant of the call in progress has what createTenant has made up to this step, or what is still to be
released, or everything during an update, and that every other tenant has everything if it is
registered and nothing otherwise. The mapping takes a tenant under creation or removal for absent;
so a create takes effect when the thread group is made (the last step that may fail), a remove and an
update when they begin, and each of the other steps is a stutter, roll-backs included (`GoesOn`).

`CpuMonitorProofs` (assumption `MonitorAssumption`): `MonitorInvariant`, `MonitorTypeOK`,
`MonitorOneThread`, `MonitorStopped`. The invariant ties thread, thread object and flag together: the
thread is there iff the object is joinable, there is none while a start is under way, and with the
flag down there is one only while a caller joins it. This is what makes the
assignment in startMonitoring safe after any sequence of failing starts.

`CgroupFilesProofs` (assumption `CgroupFilesAssumption`): `FilesInvariant`, `FilesTypeOK`,
`FilesGroupHasCgroup`, `FilesCpuUsageSeen`. The strengthening is what a crash leaves: without a
controller nothing is listed and no group is served, and a controller has its base directory.

`CpuQuotaProofs` (assumption `CpuQuotaAssumption`): `QuotaInvariant`, `QuotaUsageBounded`,
`QuotaChargedAtMostOnce`, for any number of clients, any step up to the threshold and any figures of
others. Neither bound is inductive, since a request writes what it computed from an earlier read:
`SeenInv` and `ChargeInv` bound the usages that requests in progress remember, too. For
`Figures = {}` the last theorem says that no usage exceeds one step per request handled.

`QuotaManagerProofs` (assumption `QuotaAssumption`: totals and CPU quotas are natural numbers) proves
`QuotaTypes`, `QuotaAccounting` and `QuotaOvercommit` for any clients, tenants, totals and CPU quotas. That the unsigned total
does not wrap is no matter of types: `release` subtracts the whole units of a stored quota, so the
total must be known to contain them. `IInv` therefore follows three sums over the tenants present, of
the quotas, of their whole units and of the thousandths that were dropped, and each action adds or
takes one tenant's share of all three (`SumWith`, `SumWithout`). The bound on what is handed out says
that every tenant *but one* can hide 999 thousandths, and the one is why it is not inductive: `LastUnit`
adds that the total is used up only while a tenant with a whole quota is there, since a tenant is
admitted only if its quota, thousandths included, fits beside the truncated total. `Reread` adds that a
request which is about to record a usage has read a number that is not negative, or infinity. `SumInv` keeps
`HandedOut`, which counts whole units and thousandths apart, equal to the sum of the quotas. A sum is the number of its units (`SumOver`), which
turns it from a recursion into a cardinality.

`LockFreeQueueProofs` proves, for any tasks and nodes, `QueueNoUseAfterFree`, `QueueWellFormed`,
`QueueSizeExact` and `QueueIsFifo` (`Spec => QueueSpec`), assuming `OneAtATime`: at most one producer (the pool mutex
makes it so), at most one worker, and compare-and-swaps that fail only for a reason. The other cases
are refuted by TLC: two workers in `queue_workers`, `WeakCAS` at the end of section 4. The
invariant `IInv` says that there is a sequence of nodes, without
repetitions and without the dummy, that `next` runs through from `head_` to a null pointer
(`ListInv`), and relates to it what each thread remembers: `tail_` is its last node, or the one before
it while the producer is about to swing it (`TailInv`, `ProducerOK`), and once the worker has seen
`tail_` beyond the dummy, it stays beyond it until the worker itself moves `head_` (`ConsumerOK`). This
last conjunct is what keeps the producer's `tail_` from being deleted. The counter is the length but for
the two operations under way (`SizeInv`). That the sequence is the one `Chain` speaks of (`ChainIsUnique`) is an induction over
its length, done with the least place where two such sequences differ. In the refinement linking a node
is `Put`, moving `head_` is `Take`, and every other load, store and compare-and-swap is a stutter.

The module goes on with any number of producers and no worker, spurious failures included:
`ProducersWellFormed` and `ProducersFifo` (`Spec => QueueSpec` assuming `Consumers = {}`), so that
enqueue by itself does not depend on the pool mutex. `tail_` may now lag by any number of nodes and
every producer hold stale loads; `PInv` says that what a producer has loaded from `tail_` is in the list
(nothing is deleted), that a `next` it has found set is the node that follows, and that no two producers
hold the same unlinked node. The step to show is that a null `next` is found at the end of the list
only (`Onwards`).

`StartupProofs` (assumption `StartupAssumption`: a file is a sequence of lines with at most one readable
number each) proves `StartupTypeOK`, `StartupMonitorAlone`, `StartupSafeExit`
and `StartupOneConfiguration`, for every configuration file and any number of
clients. `IInv` states, by the place of `main` in its list of calls, what is set up: where the server and
the monitor may be up (`ServerUp`, `MonitorUp`), which of the managers agree with the configuration
(`Agreed`), which singletons exist (`BuiltInv`: a prefix of the order of their first use, so that
the monitor goes before the CPU manager it uses). `Onward` carries all of this over a call that touches
none of it, so that each call has to show only what it changes. `StartupNoTenant` is the strongest
form of a divergence of section 4: in no mode and with no configuration does any createTenant succeed.

Model-checked only:

* All liveness (`CallsReturn`, `TasksServed`, `AdminCallsReturn`, `TasksTaken`, `ProcessEnds`,
  `StopReturns`, `MonitoredRefreshed`): out of the prover's reach.

## 6. Not modelled

BasicResourceStats and RequestContext (each request has counters of its own that nothing reads, and a
holder of two pointers: no state that outlives a step), printing statistics, `peakUsage` and the
executed-task counter (written, never read), TransServer and AdminServer (stubs), and everything
outside `src/src` (tests, documents, `workspace/` with its vendored packages). Quotas are non-negative here: every
caller in the repository passes a positive constant. Weak memory ordering is not modelled: the queue uses sequentially consistent
operations. `TenantContext::getCpuQuota` reads an int while updateTenantQuota may write it: a data
race that on the platforms of the build gives the old value or the new one, which are the two orders
of `UpdateQuota` and `CompareQuota` in `CpuQuota`. startMonitoring and stopMonitoring have one caller,
main; two at once would race for the thread object.

## 7. Plan

Every safety property and every refinement that a run checks is stated by a theorem. What further
proofs can do is assume less: `OneAtATime` speaks of one producer thread, while the pool mutex lets any
number of them in one after the other. Theorems for these need the hypothesis that at most one is inside
enqueue, which is about behaviours and not about constants, and an invariant that lets `tail_` lag while
an idle producer looks on.
