---------------------------- MODULE TenantLifecycle ----------------------------
(***************************************************************************)
(* TenantManager against the managers it calls, the SQL server's requests  *)
(* and the CPU monitor.  createTenant, removeTenant and updateTenantQuota  *)
(* hold TenantManager::m_mutex from end to end; everything they call takes *)
(* a lock of its own, or none, so each call is a step here and requests    *)
(* and the monitor run between them.                                       *)
(*                                                                         *)
(* Abstracted: a CPU usage is "neg", "ok" (0 to 0.8) or "high" (above 0.8, *)
(* the limit of handleRequest); whether a memory or disk allocation fits   *)
(* and whether a quota check passes are free choices (module QuotaManager  *)
(* has the numbers); a group's threads are counted in CPU units of ten;    *)
(* a thread pool call is one step (module ThreadPool shows that it ends).  *)
(***************************************************************************)
EXTENDS Integers, FiniteSets, Functions

CONSTANTS Clients, Tenants,     \* callers of the API, tenant ids
          Quotas, PoolUnits,    \* values of cpuQuota; size of the thread pool
          Requests, Monitoring, \* do clients send SQL requests, does the monitor run?
          PoolMayStop,          \* may the pool be shut down?
          LateInit,             \* may servers be initialised when there are tenants?
          SpawnMayFail,         \* may createTenantThreadGroup throw?
          NoClient, NoTenant

ASSUME LifecycleAssumption ==
  /\ Quotas \subseteq Nat /\ PoolUnits \in Nat
  /\ {Requests, Monitoring, PoolMayStop, LateInit, SpawnMayFail} \subseteq BOOLEAN
  /\ NoClient \notin Clients /\ NoTenant \notin Tenants

VARIABLES
  lock,             \* holder of TenantManager::m_mutex
  tenants,          \* m_tenants: the cpuQuota of each registered TenantContext
  cpu,              \* CpuResourceManager::m_cpuUsage
  memory, disk,     \* tenants with memory and disk statistics
  monitored,        \* CpuMonitor::tenantUsages_
  poolReady, groups, \* ThreadPoolManager: initialised; units of each group
  serving,          \* YaoSqlServer::running_
  client,           \* what each caller is doing
  mon,              \* the monitor thread
  crashed

managers == <<cpu, memory, disk, monitored>>
pool     == <<poolReady, groups, serving>>
vars     == <<lock, tenants, managers, pool, client, mon, crashed>>

With(f, x, v)    == [y \in DOMAIN f \cup {x} |-> IF y = x THEN v ELSE f[y]]
Without(f, x)    == [y \in DOMAIN f \ {x} |-> f[y]]

Registered == DOMAIN tenants
Grouped    == DOMAIN groups
Allocated  == DOMAIN cpu

\* Mutant: removeTenant forgets the thread group.
ReleasesButGroup == {"cpu", "memory", "disk", "monitor", "erase"}

\* What is left to release, in this order; "erase" is the entry of m_tenants.
Releases == {"cpu", "memory", "disk", "monitor", "group", "erase"}
Before == [r \in Releases |->
  CASE r = "cpu"     -> {}
    [] r = "memory"  -> {"cpu"}
    [] r = "disk"    -> {"cpu", "memory"}
    [] r = "monitor" -> {"cpu", "memory", "disk"}
    [] r = "group"   -> {"cpu", "memory", "disk", "monitor"}
    [] r = "erase"   -> Releases \ {"erase"}]

IdleClient == [at |-> "idle", tenant |-> NoTenant, usage |-> "none", todo |-> {}]

Init ==
  /\ lock = NoClient
  /\ tenants = <<>> /\ cpu = <<>> /\ memory = {} /\ disk = {} /\ monitored = {}
  /\ poolReady = FALSE /\ groups = <<>> /\ serving = FALSE
  /\ client = [c \in Clients |-> IdleClient]
  /\ mon = [at |-> "sleep", target |-> NoTenant, seen |-> {}]
  /\ crashed = FALSE

At(c, label) == client[c].at = label /\ ~crashed
Of(c) == client[c].tenant

Goto(c, label)   == client' = [client EXCEPT ![c].at = label]
Return(c)        == client' = [client EXCEPT ![c] = IdleClient]
Unlock           == lock' = NoClient

(***************************************************************************)
(* createTenant                                                            *)
(***************************************************************************)
BeginCreate(c, t, q) ==
  /\ At(c, "idle") /\ lock = NoClient /\ t \notin Registered
  /\ lock' = c
  /\ tenants' = With(tenants, t, q)
  /\ client' = [client EXCEPT ![c].at = "allocCpu", ![c].tenant = t]
  /\ UNCHANGED <<managers, pool, mon, crashed>>

\* Mutant: the roll-back forgets the monitor entry.
RollbackButMonitor(c, done) ==
  client' = [client EXCEPT ![c].at = "release",
                           ![c].todo = (done \ {"monitor"}) \cup {"erase"}]

\* The failing call of createTenant undoes the ones before it.
Rollback(c, done) ==
  client' = [client EXCEPT ![c].at = "release", ![c].todo = done \cup {"erase"}]

CreateCpu(c) ==
  /\ At(c, "allocCpu")
  /\ IF Of(c) \in Allocated
     THEN Rollback(c, {}) /\ UNCHANGED cpu
     ELSE Goto(c, "allocMem") /\ cpu' = With(cpu, Of(c), "ok")
  /\ UNCHANGED <<lock, tenants, memory, disk, monitored, pool, mon, crashed>>

\* Mutant: createTenant does not look at the result.
CreateMemoryUnchecked(c) ==
  /\ At(c, "allocMem")
  /\ Goto(c, "allocDisk")
  /\ memory' \in {memory, memory \cup {Of(c)}}
  /\ UNCHANGED <<lock, tenants, cpu, disk, monitored, pool, mon, crashed>>

\* Statistics that are there already count as allocated.
CreateMemory(c) ==
  /\ At(c, "allocMem")
  /\ \/ Goto(c, "allocDisk") /\ memory' = memory \cup {Of(c)}
     \/ Of(c) \notin memory /\ Rollback(c, {"cpu"}) /\ UNCHANGED memory
  /\ UNCHANGED <<lock, tenants, cpu, disk, monitored, pool, mon, crashed>>

\* Mutant: createTenant tries again until the disk share fits.
CreateDiskRetries(c) ==
  /\ At(c, "allocDisk")
  /\ \/ Goto(c, "register") /\ disk' = disk \cup {Of(c)}
     \/ Of(c) \notin disk /\ Goto(c, "allocMem") /\ UNCHANGED disk
  /\ UNCHANGED <<lock, tenants, cpu, memory, monitored, pool, mon, crashed>>

CreateDisk(c) ==
  /\ At(c, "allocDisk")
  /\ \/ Goto(c, "register") /\ disk' = disk \cup {Of(c)}
     \/ Of(c) \notin disk /\ Rollback(c, {"cpu", "memory"}) /\ UNCHANGED disk
  /\ UNCHANGED <<lock, tenants, cpu, memory, monitored, pool, mon, crashed>>

\* tenantUsages_ has no lock: changing it while the monitor iterates over it
\* is a data race, and the process may not survive it.
Race == crashed' \in IF mon.at = "sleep" THEN {FALSE} ELSE BOOLEAN

CreateMonitor(c) ==
  /\ At(c, "register")
  /\ monitored' = monitored \cup {Of(c)}
  /\ Race
  /\ Goto(c, "makeGroup")
  /\ UNCHANGED <<lock, tenants, cpu, memory, disk, pool, mon>>

Units(f) == FoldFunction(+, 0, f)

\* Mutant: a refusal of the pool leaves createTenant at once.
CreateGroupKeeps(c) ==
  LET t == Of(c)
      fits == poolReady /\ t \notin Grouped /\ Units(groups) + tenants[t] <= PoolUnits
  IN
  /\ At(c, "makeGroup")
  /\ groups' = IF fits THEN With(groups, t, tenants[t]) ELSE groups
  /\ Return(c) /\ Unlock
  /\ UNCHANGED <<tenants, managers, poolReady, serving, mon, crashed>>

CreateGroup(c) ==
  LET t == Of(c)
      fits == poolReady /\ t \notin Grouped /\ Units(groups) + tenants[t] <= PoolUnits
  IN
  /\ At(c, "makeGroup")
  /\ \/ /\ fits
        /\ groups' = With(groups, t, tenants[t])
        /\ Return(c) /\ Unlock
     \/ /\ ~fits
        /\ Rollback(c, {"cpu", "memory", "disk", "monitor"})
        /\ UNCHANGED <<groups, lock>>
     \/ /\ fits /\ SpawnMayFail      \* the exception leaves createTenant, too
        /\ Return(c) /\ Unlock
        /\ UNCHANGED groups
  /\ UNCHANGED <<tenants, managers, poolReady, serving, mon, crashed>>

(***************************************************************************)
(* removeTenant, and the roll-back of createTenant                         *)
(***************************************************************************)
\* Mutant: removeTenant erases the entry of m_tenants first.
BeginRemoveErases(c, t) ==
  /\ At(c, "idle") /\ lock = NoClient /\ t \in Registered
  /\ lock' = c
  /\ tenants' = Without(tenants, t)
  /\ client' = [client EXCEPT ![c].at = "release", ![c].tenant = t, ![c].todo = Releases]
  /\ UNCHANGED <<managers, pool, mon, crashed>>

BeginRemove(c, t) ==
  /\ At(c, "idle") /\ lock = NoClient /\ t \in Registered
  /\ lock' = c
  /\ client' = [client EXCEPT ![c].at = "release", ![c].tenant = t, ![c].todo = Releases]
  /\ UNCHANGED <<tenants, managers, pool, mon, crashed>>

Release(c, r) ==
  /\ At(c, "release") /\ r \in client[c].todo /\ Before[r] \cap client[c].todo = {}
  /\ cpu'       = IF r = "cpu" THEN Without(cpu, Of(c)) ELSE cpu
  /\ memory'    = IF r = "memory" THEN memory \ {Of(c)} ELSE memory
  /\ disk'      = IF r = "disk" THEN disk \ {Of(c)} ELSE disk
  /\ monitored' = IF r = "monitor" THEN monitored \ {Of(c)} ELSE monitored
  /\ groups'    = IF r = "group" THEN Without(groups, Of(c)) ELSE groups
  /\ IF r = "monitor" THEN Race ELSE UNCHANGED crashed
  /\ IF r = "erase"
     THEN tenants' = Without(tenants, Of(c)) /\ Return(c) /\ Unlock
     ELSE client' = [client EXCEPT ![c].todo = @ \ {r}] /\ UNCHANGED <<tenants, lock>>
  /\ UNCHANGED <<poolReady, serving, mon>>

\* Mutant: updateTenantQuota does not take the mutex.
BeginUpdateUnlocked(c, t, q) ==
  /\ At(c, "idle") /\ t \in Registered
  /\ tenants' = [tenants EXCEPT ![t] = q]
  /\ client' = [client EXCEPT ![c].at = "resize", ![c].tenant = t]
  /\ UNCHANGED <<lock, managers, pool, mon, crashed>>

(***************************************************************************)
(* updateTenantQuota: the new quota stays whether or not the resize fits.  *)
(***************************************************************************)
BeginUpdate(c, t, q) ==
  /\ At(c, "idle") /\ lock = NoClient /\ t \in Registered
  /\ lock' = c
  /\ tenants' = [tenants EXCEPT ![t] = q]
  /\ client' = [client EXCEPT ![c].at = "resize", ![c].tenant = t]
  /\ UNCHANGED <<managers, pool, mon, crashed>>

ResizeGroup(c) ==
  LET t == Of(c) IN
  /\ At(c, "resize")
  /\ IF t \in Grouped /\ Units(Without(groups, t)) + tenants[t] <= PoolUnits
     THEN groups' = [groups EXCEPT ![t] = tenants[t]]
     ELSE UNCHANGED groups
  /\ Return(c) /\ Unlock
  /\ UNCHANGED <<tenants, managers, poolReady, serving, mon, crashed>>

(***************************************************************************)
(* ConnectionManager::handleConnection: the authenticator looks the tenant *)
(* up, the quota checker reads its usage, then looks it up for its quota,  *)
(* and a third look-up gets the context.  A fraction of one CPU is below   *)
(* any quota that is not zero.  The context outlives the tenant: the       *)
(* caller keeps a shared_ptr to it.                                        *)
(***************************************************************************)
Authenticate(c, t) ==
  /\ Requests /\ At(c, "idle") /\ lock = NoClient /\ t \in Registered
  /\ client' = [client EXCEPT ![c].at = "connUsage", ![c].tenant = t]
  /\ UNCHANGED <<lock, tenants, managers, pool, mon, crashed>>

ConnectUsage(c) ==
  /\ At(c, "connUsage")
  /\ IF Of(c) \in Allocated /\ cpu[Of(c)] # "neg" THEN Goto(c, "connQuota") ELSE Return(c)
  /\ UNCHANGED <<lock, tenants, managers, pool, mon, crashed>>

ConnectQuota(c) ==
  /\ At(c, "connQuota") /\ lock = NoClient
  /\ IF Of(c) \in Registered /\ tenants[Of(c)] # 0 THEN Goto(c, "connFetch") ELSE Return(c)
  /\ UNCHANGED <<lock, tenants, managers, pool, mon, crashed>>

ConnectFetch(c) ==
  /\ At(c, "connFetch") /\ lock = NoClient
  /\ IF Of(c) \in Registered THEN Goto(c, "ready") ELSE Return(c)
  /\ UNCHANGED <<lock, tenants, managers, pool, mon, crashed>>

\* The caller drops its context.
Disconnect(c) ==
  /\ At(c, "ready") /\ Return(c)
  /\ UNCHANGED <<lock, tenants, managers, pool, mon, crashed>>

(***************************************************************************)
(* SqlServer::handleRequest.  It holds no lock between its calls, and the  *)
(* usage it read first decides what it writes last.                        *)
(***************************************************************************)
EndRequest(c) == client' = [client EXCEPT ![c].at = "ready", ![c].usage = "none"]

RequestCpu(c) ==
  /\ At(c, "ready") /\ serving
  /\ LET u == IF Of(c) \in Allocated THEN cpu[Of(c)] ELSE "none"
     IN  /\ u # "high"
         /\ client' = [client EXCEPT ![c].usage = u,
              ![c].at = IF u = "ok" THEN "reqMem" ELSE "reqAllocCpu"]
  /\ UNCHANGED <<lock, tenants, managers, pool, mon, crashed>>

RequestAllocCpu(c) ==
  /\ At(c, "reqAllocCpu")
  /\ IF Of(c) \in Allocated
     THEN EndRequest(c) /\ UNCHANGED cpu
     ELSE Goto(c, "reqMem") /\ cpu' = With(cpu, Of(c), "ok")
  /\ UNCHANGED <<lock, tenants, memory, disk, monitored, pool, mon, crashed>>

RequestMemory(c) ==
  /\ At(c, "reqMem")
  /\ Goto(c, IF Of(c) \in memory THEN "reqCheck" ELSE "reqAllocMem")
  /\ UNCHANGED <<lock, tenants, managers, pool, mon, crashed>>

RequestAllocMemory(c) ==
  /\ At(c, "reqAllocMem")
  /\ \/ Goto(c, "reqCheck") /\ memory' = memory \cup {Of(c)}
     \/ Of(c) \notin memory /\ EndRequest(c) /\ UNCHANGED memory
  /\ UNCHANGED <<lock, tenants, cpu, disk, monitored, pool, mon, crashed>>

RequestCheck(c) ==
  /\ At(c, "reqCheck")
  /\ \/ Of(c) \in memory /\ Goto(c, "reqSubmit")
     \/ EndRequest(c)
  /\ UNCHANGED <<lock, tenants, managers, pool, mon, crashed>>

RequestSubmit(c) ==
  /\ At(c, "reqSubmit")
  /\ IF Of(c) \in Grouped THEN Goto(c, "reqUpdate") ELSE EndRequest(c)
  /\ UNCHANGED <<lock, tenants, managers, pool, mon, crashed>>

\* cpuUsage + 0.01, with cpuUsage = -1 when the entry was not there (or the
\* last negative value).  The memory update after it changes no presence.
Increment(u) == IF u = "ok" THEN {"ok", "high"} ELSE {"neg"}

RequestUpdate(c) ==
  /\ At(c, "reqUpdate")
  /\ \E u \in Increment(client[c].usage) : cpu' = With(cpu, Of(c), u)
  /\ EndRequest(c)
  /\ UNCHANGED <<lock, tenants, memory, disk, monitored, pool, mon, crashed>>

(***************************************************************************)
(* CpuMonitor::monitorLoop                                                 *)
(***************************************************************************)
MonitorPass ==
  /\ Monitoring /\ ~crashed /\ mon.at = "sleep"
  /\ mon' = [at |-> "loop", target |-> NoTenant, seen |-> {}]
  /\ UNCHANGED <<lock, tenants, managers, pool, client, crashed>>

MonitorPick(t) ==
  /\ ~crashed /\ mon.at = "loop" /\ t \in monitored \ mon.seen
  /\ mon' = [at |-> "update", target |-> t, seen |-> mon.seen \cup {t}]
  /\ UNCHANGED <<lock, tenants, managers, pool, client, crashed>>

MonitorUpdate ==
  /\ ~crashed /\ mon.at = "update"
  /\ \E u \in {"ok", "high"} : cpu' = With(cpu, mon.target, u)
  /\ mon' = [mon EXCEPT !.at = "loop", !.target = NoTenant]
  /\ UNCHANGED <<lock, tenants, memory, disk, monitored, pool, client, crashed>>

MonitorSleep ==
  /\ ~crashed /\ mon.at = "loop" /\ monitored \subseteq mon.seen
  /\ mon' = [at |-> "sleep", target |-> NoTenant, seen |-> {}]
  /\ UNCHANGED <<lock, tenants, managers, pool, client, crashed>>

(***************************************************************************)
(* Initialising and shutting down, by the servers or by a direct call.     *)
(* MemoryResourceManager::initialize and DiskResourceManager::initialize   *)
(* forget the shares of all tenants.                                       *)
(***************************************************************************)
MayInitialize == ~crashed /\ (LateInit \/ Registered = {})

PoolInitialize ==
  /\ ~crashed /\ ~poolReady
  /\ poolReady' = TRUE
  /\ UNCHANGED <<lock, tenants, managers, groups, serving, client, mon, crashed>>

ServerInitialize ==
  /\ MayInitialize
  /\ poolReady' = TRUE /\ memory' = {}
  /\ UNCHANGED <<lock, tenants, cpu, disk, monitored, groups, serving, client, mon, crashed>>

DataInitialize ==
  /\ MayInitialize
  /\ disk' = {}
  /\ UNCHANGED <<lock, tenants, cpu, memory, monitored, pool, client, mon, crashed>>

ServerStart ==
  /\ ~crashed /\ ~serving /\ serving' = TRUE
  /\ UNCHANGED <<lock, tenants, managers, poolReady, groups, client, mon, crashed>>

PoolShutdown ==
  /\ ~crashed /\ PoolMayStop /\ poolReady
  /\ poolReady' = FALSE /\ groups' = <<>>
  /\ UNCHANGED <<lock, tenants, managers, serving, client, mon, crashed>>

\* stop() of the server shuts the pool down, whoever initialised it.
ServerStop ==
  /\ ~crashed /\ PoolMayStop /\ serving
  /\ serving' = FALSE /\ poolReady' = FALSE /\ groups' = <<>>
  /\ UNCHANGED <<lock, tenants, managers, client, mon, crashed>>

-------------------------------------------------------------------------------
AdminStep(c) ==
  \/ CreateCpu(c) \/ CreateMemory(c) \/ CreateDisk(c) \/ CreateMonitor(c) \/ CreateGroup(c)
  \/ \E r \in Releases : Release(c, r)
  \/ ResizeGroup(c)

RequestStep(c) ==
  \/ RequestAllocCpu(c) \/ RequestMemory(c) \/ RequestAllocMemory(c)
  \/ RequestCheck(c) \/ RequestSubmit(c) \/ RequestUpdate(c)

Call(c) ==
  \/ \E t \in Tenants, q \in Quotas : BeginCreate(c, t, q) \/ BeginUpdate(c, t, q)
  \/ \E t \in Tenants : BeginRemove(c, t) \/ Authenticate(c, t)
  \/ ConnectUsage(c) \/ ConnectQuota(c) \/ ConnectFetch(c) \/ RequestCpu(c) \/ Disconnect(c)

MonitorStep ==
  MonitorPass \/ (\E t \in Tenants : MonitorPick(t)) \/ MonitorUpdate \/ MonitorSleep

ServerStep ==
  PoolInitialize \/ ServerInitialize \/ DataInitialize \/ ServerStart \/ PoolShutdown \/ ServerStop

Next ==
  \/ \E c \in Clients : Call(c) \/ AdminStep(c) \/ RequestStep(c)
  \/ MonitorStep \/ ServerStep

Spec == Init /\ [][Next]_vars

\* A thread inside a call goes on; nobody has to make a call.
Fairness == \A c \in Clients : WF_vars(AdminStep(c) \/ RequestStep(c))
FairSpec == Spec /\ Fairness
-------------------------------------------------------------------------------
AdminLabels   == {"allocCpu", "allocMem", "allocDisk", "register", "makeGroup", "release", "resize"}
RequestLabels == {"reqAllocCpu", "reqMem", "reqAllocMem", "reqCheck", "reqSubmit", "reqUpdate"}
Labels == AdminLabels \cup RequestLabels \cup {"idle", "connUsage", "connQuota", "connFetch", "ready"}

ClientType == [at : Labels, tenant : Tenants \cup {NoTenant},
               usage : {"none", "neg", "ok", "high"}, todo : SUBSET Releases]

\* Type correctness; exactly the holder of the mutex is inside an admin call.
TypeOK ==
  /\ lock \in Clients \cup {NoClient}
  /\ Registered \subseteq Tenants /\ tenants \in [Registered -> Quotas]
  /\ Allocated \subseteq Tenants /\ cpu \in [Allocated -> {"neg", "ok", "high"}]
  /\ memory \subseteq Tenants /\ disk \subseteq Tenants /\ monitored \subseteq Tenants
  /\ poolReady \in BOOLEAN /\ serving \in BOOLEAN
  /\ Grouped \subseteq Tenants /\ groups \in [Grouped -> Quotas]
  /\ client \in [Clients -> ClientType]
  /\ \A c \in Clients : client[c].at \in AdminLabels <=> lock = c
  /\ mon \in [at : {"sleep", "loop", "update"}, target : Tenants \cup {NoTenant},
              seen : SUBSET Tenants]
  /\ crashed \in BOOLEAN

Quiet == lock = NoClient
HoldsShares(t) == t \in Allocated /\ t \in memory /\ t \in disk /\ t \in monitored
HasAll(t)  == HoldsShares(t) /\ t \in Grouped
HasNone(t) == /\ t \notin Allocated /\ t \notin memory /\ t \notin disk
              /\ t \notin monitored /\ t \notin Grouped

\* As long as only TenantManager touches the managers, a tenant has all of
\* its resources or none: every failing createTenant rolls back what it did,
\* and removeTenant leaves nothing.
AllOrNothing ==
  Quiet => \A t \in Tenants : IF t \in Registered THEN HasAll(t) ELSE HasNone(t)

\* The tenant of a create or remove in progress; to the caller of TenantManager
\* it is not there, since the mutex keeps every look-up out.
Pending ==
  IF lock # NoClient /\ client[lock].at # "resize" THEN {Of(lock)} ELSE {}

Resources == {"cpu", "memory", "disk", "monitor", "group"}
Held(t) == {r \in Resources :
  \/ r = "cpu" /\ t \in Allocated
  \/ r = "memory" /\ t \in memory
  \/ r = "disk" /\ t \in disk
  \/ r = "monitor" /\ t \in monitored
  \/ r = "group" /\ t \in Grouped}

Registry == INSTANCE TenantRegistry WITH
  quota <- [t \in Registered \ Pending |-> tenants[t]],
  held  <- [t \in Tenants |-> IF t \in Pending THEN {} ELSE Held(t)]

\* Left alone by requests, the monitor and restarts, TenantManager keeps the
\* promise of TenantRegistry: its calls take effect as a whole or not at all,
\* and no call touches another tenant.
RegistrySpec == Registry!Spec

\* Whatever requests, the monitor and the pool's shutdown do meanwhile, and
\* even if the thread pool throws, a registered tenant has its CPU, memory and
\* disk shares and is monitored.
Provisioned == Quiet => \A t \in Registered : HoldsShares(t)

\* Between the calls, thread groups and monitor entries belong to registered
\* tenants, whichever of createTenant's five allocations was refused.
OwnedByTenants == Quiet => Grouped \subseteq Registered /\ monitored \subseteq Registered

\* A connection keeps its context, and a request in flight may make the CPU and
\* memory entries anew, after removeTenant has returned; but the request goes
\* no further: what SqlServer hands to the thread pool is for a tenant that is
\* still registered, removals and roll-backs in progress included.
ServedWhileRegistered ==
  [][\A c \in Clients :
       client[c].at = "reqSubmit" /\ client'[c].at = "reqUpdate" => Of(c) \in Registered]_vars

\* Refuted: a tenant that is removed, or was not created, leaves no CPU or memory entry.
RemovalComplete ==
  Quiet => Allocated \subseteq Registered /\ memory \subseteq Registered

\* Refuted: a usage below zero stands for a tenant that is not there.
NegativeMeansAbsent == \A t \in Allocated : cpu[t] # "neg"

\* Refuted: the threads of a group are those of its tenant's current quota.
ThreadsMatchQuota ==
  Quiet => \A t \in Registered \cap Grouped : groups[t] = tenants[t]

\* Refuted: collecting usage figures never brings the service down.
ServiceSurvivesMonitor == ~crashed

\* The mutex of TenantManager is given back: none of the calls made under it
\* waits for its holder or for one who waits for it.
AdminCallsReturn == \A c \in Clients : lock = c ~> lock # c
===============================================================================
