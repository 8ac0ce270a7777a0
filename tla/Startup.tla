------------------------------- MODULE Startup -------------------------------
(***************************************************************************)
(* The process from main() to its end, in its three modes: the demo, the   *)
(* benchmark and the self-tests.  main is a sequence of calls on singletons *)
(* that are constructed when first used and destroyed, in reverse order,   *)
(* after main returns; the monitor thread and the benchmark's clients run  *)
(* beside it.                                                              *)
(*                                                                         *)
(* Abstracted: the text of a configuration value is the set of what stoi   *)
(* (for a switch: getBool) makes of it, one number or, when it cannot be   *)
(* read, none; what is not read is left out.  A call of a manager is one   *)
(* step (module TenantLifecycle has the steps of createTenant, ThreadPool  *)
(* those of the pool).  Creating a cgroup or a thread succeeds here.  CPU  *)
(* usages are in hundredths.                                               *)
(***************************************************************************)
EXTENDS Integers, Sequences, SequencesExt, FiniteSets, FiniteSetsExt

CONSTANTS Files, NoFile,    \* possible contents of config.ini; there is none
          ClientThreads,    \* threads of the benchmark
          SizeRange         \* bound: stands for 2^64

\* A file is its lines: a key (of a line without '=', one that is in no Keys)
\* and what can be read of the value.
ASSUME StartupAssumption ==
  /\ \A f \in Files : /\ f \in Seq([key : STRING, value : SUBSET Int])
                      /\ \A i \in DOMAIN f : Cardinality(f[i].value) <= 1
  /\ NoFile \notin Files /\ ClientThreads \in Nat
  /\ SizeRange \in Nat /\ SizeRange > 100

VARIABLES
  mode, file,               \* how the program was called, what config.ini holds
  pc, code,                 \* next call of main; the exit code
  config,                   \* ConfigManager::m_config
  tenants, cpu,             \* TenantManager::m_tenants, CpuResourceManager::m_cpuUsage
  cpuCgroup,                \* CpuResourceManager::m_cgroupEnabled
  memory, disk, monitored,  \* totals and shares; CpuMonitor::tenantUsages_
  pool, groups,             \* ThreadPoolManager
  serving,                  \* YaoSqlServer::running_
  results, served,          \* what calls returned; tenants whose requests were handled
  clients,                  \* client threads that are still running
  running, mon,             \* CpuMonitor::running_ and its thread
  built                     \* constructed singletons, oldest first

input   == <<mode, file>>
shares  == <<cpu, memory, disk, monitored>>
records == <<results, served>>
threads == <<clients, running, mon>>
vars == <<input, pc, code, config, tenants, shares, cpuCgroup, pool, groups, serving,
          records, threads, built>>

(***************************************************************************)
(* ConfigManager                                                           *)
(***************************************************************************)
Keys == {"enable_cgroup", "total_threads", "total_memory_mb", "total_disk_gb"}

\* The last line with a key counts; a key without a line keeps its value.
Load(c, lines) ==
  [k \in Keys |-> LET places == {i \in DOMAIN lines : lines[i].key = k}
                  IN  IF places = {} THEN c[k] ELSE lines[Max(places)].value]

GetInt(k, default)  == IF config[k] = {} THEN default ELSE CHOOSE n \in config[k] : TRUE
GetBool(k, default) == IF config[k] \cap {0, 1} = {} THEN default ELSE config[k] = {1}

\* static_cast to size_t
\* Mutant: the sign survives.
Signed(n) == n
Size(n) == n % SizeRange

Cgroup  == GetBool("enable_cgroup", FALSE)
Threads == Size(GetInt("total_threads", 120))
Memory  == Size(GetInt("total_memory_mb", 8192))
Disk    == Size(GetInt("total_disk_gb", 100))

(***************************************************************************)
(* The calls of main, in order                                             *)
(***************************************************************************)
Quota == [tenant1 |-> 2, tenant2 |-> 1, bench_tenant1 |-> 2, bench_tenant2 |-> 1,
          test_tenant |-> 1, auth_test |-> 1, quota_test |-> 50]
Names == DOMAIN Quota

Call(op)      == [op |-> op, tenant |-> "none"]
With(op, t)   == [op |-> op, tenant |-> t]

Setup == <<Call("cpuInit"), Call("memoryInit"), Call("diskInit")>>

\* Mutant: the demo starts the monitor before it creates the tenants.
MonitorFirst == [demo |->
  <<Call("load"), Call("monitorStart"), With("create", "tenant1"), With("create", "tenant2")>>
  \o Setup \o <<Call("poolInit"), Call("sqlInit"), Call("dataInit"), Call("serverStart"),
  Call("serverStop"), Call("monitorSignal"), Call("monitorJoin"), Call("poolStop")>>]

Demo ==
  <<Call("load"), With("create", "tenant1"), With("create", "tenant2")>> \o Setup \o
  <<Call("monitorStart"), Call("poolInit"), Call("sqlInit"), Call("dataInit"),
    Call("serverStart"), With("requests", "tenant1"), With("requests", "tenant2"),
    Call("serverStop"), Call("monitorSignal"), Call("monitorJoin"), Call("poolStop")>>

Benchmark ==
  <<Call("load"), With("create", "bench_tenant1"), With("create", "bench_tenant2")>> \o Setup \o
  <<Call("poolInit"), Call("monitorStart"), Call("sqlInit"), Call("serverStart"),
    With("clientsStart", "bench_tenant1"), With("clientsJoin", "bench_tenant1"),
    Call("serverStop"), Call("monitorSignal"), Call("monitorJoin"), Call("poolStop"),
    With("remove", "bench_tenant1"), With("remove", "bench_tenant2")>>

SelfTests ==
  <<With("create", "test_tenant"), With("lookup", "test_tenant"),
    With("remove", "test_tenant"), With("lookup", "test_tenant"),
    With("create", "auth_test"), With("lookup", "auth_test"),
    With("lookup", "nonexistent"), With("remove", "auth_test"),
    With("create", "quota_test"), With("check", "quota_test"),
    With("update", "quota_test"), With("check", "quota_test"), With("remove", "quota_test")>>

Program == [demo |-> Demo, benchmark |-> Benchmark, test |-> SelfTests]

\* What the self-tests want the calls to return, where they look.
Expected == [test |-> <<{TRUE}, {TRUE}, {TRUE}, {FALSE}, BOOLEAN, {TRUE}, {FALSE}, BOOLEAN,
                        BOOLEAN, {TRUE}, BOOLEAN, {FALSE}, BOOLEAN>>]

\* A singleton is constructed when it is first used; createTenant uses all but one.
Used(b, s) == IF s \in ToSet(b) THEN b ELSE Append(b, s)

Uses == [load |-> "Config", cpuInit |-> "Cpu", memoryInit |-> "Memory", diskInit |-> "Disk",
         monitorStart |-> "Monitor", poolInit |-> "Pool"]

At(op) == pc <= Len(Program[mode]) /\ Program[mode][pc].op = op
Tenant == Program[mode][pc].tenant
Over   == pc > Len(Program[mode])

Construct(op) ==
  built' = IF op = "create"
           THEN Used(Used(Used(Used(Used(Used(built, "Tenants"), "Cpu"), "Memory"), "Disk"),
                          "Monitor"), "Pool")
           ELSE IF op \in DOMAIN Uses THEN Used(built, Uses[op]) ELSE built

Done(op) == pc' = pc + 1 /\ Construct(op) /\ UNCHANGED <<input, code>>

\* return 1 in the middle of main
Fail(op) == pc' = Len(Program[mode]) + 1 /\ code' = 1 /\ Construct(op) /\ UNCHANGED input

Nobody == [k \in Keys |-> {}]

Init ==
  /\ mode \in DOMAIN Program /\ file \in Files \cup {NoFile}
  /\ pc = 1 /\ code = 0 /\ config = Nobody
  /\ tenants = {} /\ cpu = <<>> /\ cpuCgroup = FALSE
  /\ memory = [total |-> 0, tenants |-> {}] /\ disk = [total |-> 0, tenants |-> {}]
  /\ monitored = {}
  /\ pool = [ready |-> FALSE, cgroup |-> FALSE, total |-> 0] /\ groups = {}
  /\ serving = FALSE /\ results = <<>> /\ served = {} /\ clients = 0
  /\ running = FALSE /\ mon = "none" /\ built = <<>>

-------------------------------------------------------------------------------
\* Only the demo looks at the result and sets the defaults it names.
LoadConfig ==
  /\ At("load") /\ Done("load")
  /\ config' = IF file # NoFile THEN Load(config, file)
               ELSE IF mode = "demo"
               THEN [config EXCEPT !["enable_cgroup"] = {0}, !["total_threads"] = {120}]
               ELSE config
  /\ UNCHANGED <<tenants, shares, cpuCgroup, pool, groups, serving, records, threads>>

ThreadsOf(t) == 10 * Quota[t]

\* createTenant: a usage that is there already stops it at once; otherwise
\* all shares fit (a share of a total of zero, too) and the thread group
\* decides, with a roll-back when it cannot be had.
CreateTenant ==
  LET t == Tenant
      new == t \notin tenants /\ t \notin DOMAIN cpu
      ok == new /\ pool.ready /\ MapThenSumSet(ThreadsOf, groups \cup {t}) <= pool.total
  IN
  /\ At("create") /\ Done("create")
  /\ results' = Append(results, ok)
  /\ IF ok
     THEN /\ tenants' = tenants \cup {t} /\ groups' = groups \cup {t}
          /\ cpu' = [u \in DOMAIN cpu \cup {t} |-> IF u = t THEN 0 ELSE cpu[u]]
          /\ memory' = [memory EXCEPT !.tenants = @ \cup {t}]
          /\ disk' = [disk EXCEPT !.tenants = @ \cup {t}]
          /\ monitored' = monitored \cup {t}
     ELSE /\ memory' = IF new THEN [memory EXCEPT !.tenants = @ \ {t}] ELSE memory
          /\ disk' = IF new THEN [disk EXCEPT !.tenants = @ \ {t}] ELSE disk
          /\ UNCHANGED <<tenants, groups, cpu, monitored>>
  /\ UNCHANGED <<config, cpuCgroup, pool, serving, served, threads>>

RemoveTenant ==
  LET t == Tenant IN
  /\ At("remove") /\ Done("remove")
  /\ results' = Append(results, t \in tenants)
  /\ IF t \in tenants
     THEN /\ tenants' = tenants \ {t} /\ groups' = groups \ {t}
          /\ cpu' = [u \in DOMAIN cpu \ {t} |-> cpu[u]]
          /\ memory' = [memory EXCEPT !.tenants = @ \ {t}]
          /\ disk' = [disk EXCEPT !.tenants = @ \ {t}]
          /\ monitored' = monitored \ {t}
     ELSE UNCHANGED <<tenants, groups, shares>>
  /\ UNCHANGED <<config, cpuCgroup, pool, serving, served, threads>>

\* getTenant, or authenticate with a user of that tenant.
Lookup ==
  /\ At("lookup") /\ Done("lookup")
  /\ results' = Append(results, Tenant \in tenants)
  /\ UNCHANGED <<config, tenants, shares, cpuCgroup, pool, groups, serving, served, threads>>

\* CpuQuotaChecker::checkQuota
CheckQuota ==
  LET t == Tenant IN
  /\ At("check") /\ Done("check")
  /\ results' = Append(results,
       t \in DOMAIN cpu /\ cpu[t] >= 0 /\ t \in tenants /\ cpu[t] < 100 * Quota[t])
  /\ UNCHANGED <<config, tenants, shares, cpuCgroup, pool, groups, serving, served, threads>>

\* CpuQuotaChecker::updateUsage(..., 0.6)
UpdateUsage ==
  /\ At("update") /\ Done("update")
  /\ cpu' = [u \in DOMAIN cpu \cup {Tenant} |-> IF u = Tenant THEN 60 ELSE cpu[u]]
  /\ results' = Append(results, TRUE)
  /\ UNCHANGED <<config, tenants, memory, disk, monitored, cpuCgroup, pool, groups, serving,
                 served, threads>>

InitializeCpu ==
  /\ At("cpuInit") /\ Done("cpuInit") /\ cpuCgroup' = Cgroup
  /\ UNCHANGED <<config, tenants, shares, pool, groups, serving, records, threads>>

InitializeMemory ==
  /\ At("memoryInit") /\ Done("memoryInit")
  /\ memory' = [total |-> Memory, tenants |-> {}]
  /\ UNCHANGED <<config, tenants, cpu, disk, monitored, cpuCgroup, pool, groups, serving, records, threads>>

InitializeDisk ==
  /\ At("diskInit") /\ Done("diskInit")
  /\ disk' = [total |-> Disk, tenants |-> {}]
  /\ UNCHANGED <<config, tenants, cpu, memory, monitored, cpuCgroup, pool, groups, serving, records, threads>>

StartMonitoring ==
  /\ At("monitorStart") /\ Done("monitorStart")
  /\ IF running THEN UNCHANGED <<running, mon>> ELSE running' = TRUE /\ mon' = "check"
  /\ UNCHANGED <<config, tenants, shares, cpuCgroup, pool, groups, serving, records, clients>>

\* ThreadPoolManager::initialize, with a cgroup file system that may refuse.
PoolInitialized(ok) ==
  /\ ok \/ (Cgroup /\ ~pool.ready)
  /\ pool' = IF pool.ready THEN pool ELSE [ready |-> ok, cgroup |-> Cgroup, total |-> Threads]

\* Only the demo looks at the result.
InitializePool ==
  /\ At("poolInit")
  /\ \E ok \in BOOLEAN :
       /\ PoolInitialized(ok)
       /\ IF ok \/ mode = "benchmark" THEN Done("poolInit") ELSE Fail("poolInit")
  /\ UNCHANGED <<config, tenants, shares, cpuCgroup, groups, serving, records, threads>>

\* Mutant: the server has defaults of its own.
InitializeSqlServerDefaults ==
  /\ At("sqlInit") /\ Done("sqlInit")
  /\ pool' = [pool EXCEPT !.ready = TRUE] /\ cpuCgroup' = Cgroup
  /\ memory' = [total |-> Size(GetInt("total_memory_mb", 4096)), tenants |-> {}]
  /\ UNCHANGED <<config, tenants, cpu, disk, monitored, groups, serving, records, threads>>

InitializeSqlServer ==
  /\ At("sqlInit")
  /\ \E ok \in BOOLEAN :
       /\ PoolInitialized(ok)
       /\ IF ok \/ mode = "benchmark" THEN Done("sqlInit") ELSE Fail("sqlInit")
       /\ cpuCgroup' = IF ok THEN Cgroup ELSE cpuCgroup
       /\ memory' = IF ok THEN [total |-> Memory, tenants |-> {}] ELSE memory
  /\ UNCHANGED <<config, tenants, cpu, disk, monitored, groups, serving, records, threads>>

\* The data server does not ask the configuration.
InitializeDataServer ==
  /\ At("dataInit") /\ Done("dataInit")
  /\ disk' = [total |-> 100, tenants |-> {}]
  /\ UNCHANGED <<config, tenants, cpu, memory, monitored, cpuCgroup, pool, groups, serving, records, threads>>

StartServer ==
  /\ At("serverStart") /\ Done("serverStart") /\ serving' = TRUE
  /\ UNCHANGED <<config, tenants, shares, cpuCgroup, pool, groups, records, threads>>

\* The requests of one tenant: nothing happens without its context, and
\* without its thread group no request gets past submitTask.
Handled(t) == served' = IF t \in tenants \cap groups /\ serving THEN served \cup {t} ELSE served

Requests ==
  /\ At("requests") /\ Done("requests") /\ Handled(Tenant)
  /\ UNCHANGED <<config, tenants, shares, cpuCgroup, pool, groups, serving, results, threads>>

StartClients ==
  /\ At("clientsStart") /\ Done("clientsStart") /\ clients' = ClientThreads
  /\ UNCHANGED <<config, tenants, shares, cpuCgroup, pool, groups, serving, records, running, mon>>

\* A client thread has its requests handled and ends.
ClientEnds ==
  /\ clients > 0 /\ clients' = clients - 1 /\ Handled("bench_tenant1")
  /\ UNCHANGED <<input, pc, code, config, tenants, shares, cpuCgroup, pool, groups, serving,
                 results, running, mon, built>>

JoinClients ==
  /\ At("clientsJoin") /\ clients = 0 /\ Done("clientsJoin")
  /\ UNCHANGED <<config, tenants, shares, cpuCgroup, pool, groups, serving, records, threads>>

\* ThreadPoolManager::shutdown
PoolDown == pool' = [pool EXCEPT !.ready = FALSE] /\ groups' = IF pool.ready THEN {} ELSE groups

StopServer ==
  /\ At("serverStop") /\ Done("serverStop")
  /\ serving' = FALSE
  /\ IF serving THEN PoolDown ELSE UNCHANGED <<pool, groups>>
  /\ UNCHANGED <<config, tenants, shares, cpuCgroup, records, threads>>

\* Mutant: stopMonitoring joins a thread that nobody told to stop.
SignalMonitorNot ==
  /\ At("monitorSignal") /\ Done("monitorSignal")
  /\ UNCHANGED <<config, tenants, shares, cpuCgroup, pool, groups, serving, records, threads>>

\* stopMonitoring: the flag, then the join.
SignalMonitor ==
  /\ At("monitorSignal") /\ Done("monitorSignal") /\ running' = FALSE
  /\ UNCHANGED <<config, tenants, shares, cpuCgroup, pool, groups, serving, records, clients, mon>>

Joinable == mon \in {"check", "pass", "ended"}

JoinMonitor ==
  /\ At("monitorJoin") /\ mon \in {"none", "ended", "joined"} /\ Done("monitorJoin")
  /\ mon' = IF mon = "ended" THEN "joined" ELSE mon
  /\ UNCHANGED <<config, tenants, shares, cpuCgroup, pool, groups, serving, records, clients, running>>

StopPool ==
  /\ At("poolStop") /\ Done("poolStop") /\ PoolDown
  /\ UNCHANGED <<config, tenants, shares, cpuCgroup, serving, records, threads>>

-------------------------------------------------------------------------------
\* CpuMonitor::monitorLoop
MonitorCheck ==
  /\ mon = "check" /\ mon' = IF running THEN "pass" ELSE "ended"
  /\ UNCHANGED <<input, pc, code, config, tenants, shares, cpuCgroup, pool, groups, serving,
                 records, clients, running, built>>

\* One pass over the monitored tenants, and the sleep.
MonitorPass ==
  /\ mon = "pass" /\ mon' = "check"
  /\ cpu' \in [DOMAIN cpu \cup monitored -> {0, 99}]
  /\ \A t \in DOMAIN cpu \ monitored : cpu'[t] = cpu[t]
  /\ UNCHANGED <<input, pc, code, config, tenants, memory, disk, monitored, cpuCgroup, pool,
                 groups, serving, records, clients, running, built>>

(***************************************************************************)
(* The end of the process: the destructor of main's SQL server would stop  *)
(* it, but main has (SafeExit); then the singletons go, the youngest first. *)
(***************************************************************************)
Dying == Last(built)
Destroying == Over /\ built # <<>>

\* ~CpuMonitor calls stopMonitoring.
DestructorSignals ==
  /\ Destroying /\ Dying = "Monitor" /\ running /\ running' = FALSE
  /\ UNCHANGED <<input, pc, code, config, tenants, shares, cpuCgroup, pool, groups, serving,
                 records, clients, mon, built>>

\* Mutant: the destructor of the monitor is the default one.
DestroyWithoutStop ==
  /\ Destroying /\ built' = Front(built)
  /\ UNCHANGED <<input, pc, code, config, tenants, shares, cpuCgroup, pool, groups, serving,
                 records, threads>>

Destroy ==
  /\ Destroying
  /\ Dying = "Monitor" => ~running /\ mon \in {"none", "ended", "joined"}
  /\ mon' = IF Dying = "Monitor" /\ mon = "ended" THEN "joined" ELSE mon
  /\ IF Dying = "Pool" THEN PoolDown ELSE UNCHANGED <<pool, groups>>
  /\ built' = Front(built)
  /\ UNCHANGED <<input, pc, code, config, tenants, shares, cpuCgroup, serving, records,
                 clients, running>>

Ended == Over /\ built = <<>>
Terminated == Ended /\ UNCHANGED vars

-------------------------------------------------------------------------------
MainStep ==
  \/ LoadConfig \/ CreateTenant \/ RemoveTenant \/ Lookup \/ CheckQuota \/ UpdateUsage
  \/ InitializeCpu \/ InitializeMemory \/ InitializeDisk \/ StartMonitoring \/ InitializePool
  \/ InitializeSqlServer \/ InitializeDataServer \/ StartServer \/ Requests
  \/ StartClients \/ JoinClients \/ StopServer \/ SignalMonitor \/ JoinMonitor \/ StopPool
  \/ DestructorSignals \/ Destroy

MonitorStep == MonitorCheck \/ MonitorPass

Next == MainStep \/ MonitorStep \/ ClientEnds \/ Terminated

\* main, the monitor and the clients are threads that the system schedules.
Fairness == WF_vars(MainStep) /\ WF_vars(MonitorStep) /\ WF_vars(ClientEnds)
Spec == Init /\ [][Next]_vars /\ Fairness

-------------------------------------------------------------------------------
TypeOK ==
  /\ mode \in DOMAIN Program /\ pc \in 1..Len(Program[mode]) + 1 /\ code \in {0, 1}
  /\ DOMAIN config = Keys /\ \A k \in Keys : Cardinality(config[k]) <= 1
  /\ tenants \subseteq Names /\ groups \subseteq Names /\ monitored \subseteq Names
  /\ DOMAIN cpu \subseteq Names /\ \A t \in DOMAIN cpu : cpu[t] \in 0..100
  /\ \A m \in {memory, disk} : m.total \in 0..SizeRange - 1 /\ m.tenants \subseteq Names
  /\ pool \in [ready : BOOLEAN, cgroup : BOOLEAN, total : 0..SizeRange - 1]
  /\ {cpuCgroup, serving, running} \subseteq BOOLEAN
  /\ served \subseteq Names /\ clients \in 0..ClientThreads
  /\ mon \in {"none", "check", "pass", "ended", "joined"}
  /\ IsInjective(built)

\* The monitor's map has no lock; main changes it only while the monitor
\* thread is not there.
MonitorAlone == mon \in {"check", "pass"} => ~At("create") /\ ~At("remove")

\* Whatever way the process ends, the early returns included, no thread uses a
\* destroyed object, no thread object is destroyed before it is joined, and the
\* server is stopped first, though not before its clients have ended.
SafeExit ==
  /\ Joinable => "Monitor" \in ToSet(built)
  /\ mon \in {"check", "pass"} => "Cpu" \in ToSet(built)
  /\ clients > 0 => serving
  /\ Over => ~serving

\* main and the SQL server both initialise the pool, the CPU and the memory
\* manager from the configuration; they agree while the server is running.
OneConfiguration ==
  serving => /\ cpuCgroup = Cgroup /\ memory.total = Memory
             /\ pool.ready => pool.cgroup = Cgroup /\ pool.total = Threads

\* In every mode, with every configuration file, the process comes to its end.
ProcessEnds == <>Ended

\* Refuted: the demo creates its two sample tenants and handles their requests.
DemoTenantsServed == mode = "demo" /\ Over /\ code = 0 => served = {"tenant1", "tenant2"}

\* Refuted: the self-tests pass.
SelfTestsPass ==
  mode = "test" /\ Over =>
    \A i \in DOMAIN results : results[i] \in Expected[mode][i]

\* Refuted: without cgroups the program falls back to the mode without them.
DegradesToBasic == Over => code = 0

\* Refuted: while the servers run, the disk manager has the configured size.
DiskTotalConfigured == mode = "demo" /\ serving => disk.total = Disk
===============================================================================
