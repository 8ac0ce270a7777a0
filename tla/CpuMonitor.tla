----------------------------- MODULE CpuMonitor -----------------------------
(***************************************************************************)
(* The CPU monitor: startMonitoring and stopMonitoring against the thread   *)
(* they start and join, step by step, through any number of restarts.      *)
(*                                                                         *)
(* One thread calls them, and tenants are registered and unregistered only *)
(* while the monitor thread is not there: so main does it (MonitorAlone of *)
(* module Startup).  What happens otherwise is the subject of module       *)
(* TenantLifecycle.  An exception from std::thread's constructor is caught *)
(* by the caller here.  intervalMs_ is a duration and left out.            *)
(***************************************************************************)
CONSTANTS Tenants, Usages,      \* tenant ids; figures a usage can have
          SpawnMayFail          \* may std::thread's constructor throw?

ASSUME MonitorAssumption == SpawnMayFail \in BOOLEAN /\ Usages # {}

VARIABLES
  caller,       \* what the calling thread is doing
  running,      \* running_
  handle,       \* is monitorThread_ joinable?
  loop, todo,   \* the monitor thread, and what its iteration has left
  monitored,    \* the keys of tenantUsages_
  cpu,          \* usage of each tenant, in CpuResourceManager
  terminated    \* std::terminate was called

vars == <<caller, running, handle, loop, todo, monitored, cpu, terminated>>

Init ==
  /\ caller = "idle" /\ running = FALSE /\ handle = FALSE
  /\ loop = "none" /\ todo = {} /\ monitored = {}
  /\ cpu \in [Tenants -> Usages] /\ terminated = FALSE

At(label) == caller = label /\ ~terminated
Alive == loop \in {"check", "iterate"}

Register(t) ==
  /\ At("idle") /\ ~Alive /\ monitored' = monitored \cup {t}
  /\ UNCHANGED <<caller, running, handle, loop, todo, cpu, terminated>>

\* Mutant: a tenant may go while the monitor iterates.
UnregisterAnyTime(t) ==
  /\ At("idle") /\ monitored' = monitored \ {t}
  /\ UNCHANGED <<caller, running, handle, loop, todo, cpu, terminated>>

Unregister(t) ==
  /\ At("idle") /\ ~Alive /\ monitored' = monitored \ {t}
  /\ UNCHANGED <<caller, running, handle, loop, todo, cpu, terminated>>

-------------------------------------------------------------------------------
\* startMonitoring; it returns false, and does nothing, if running_ is set.
Start ==
  /\ At("idle") /\ ~running /\ caller' = "set"
  /\ UNCHANGED <<running, handle, loop, todo, monitored, cpu, terminated>>

SetRunning ==
  /\ At("set") /\ running' = TRUE /\ caller' = "spawn"
  /\ UNCHANGED <<handle, loop, todo, monitored, cpu, terminated>>

\* Assigning to a thread object that is joinable ends the process.  If the
\* constructor throws, running_ stays set.
Spawn ==
  /\ At("spawn")
  /\ \/ terminated' = handle /\ handle' = TRUE /\ loop' = "check"
     \/ /\ SpawnMayFail /\ UNCHANGED <<handle, loop, terminated>>
  /\ caller' = "idle"
  /\ UNCHANGED <<running, todo, monitored, cpu>>

\* Mutant: stopMonitoring only puts the flag down.
StopWithoutJoin ==
  /\ At("idle") /\ running' = FALSE
  /\ UNCHANGED <<caller, handle, loop, todo, monitored, cpu, terminated>>

\* Mutant: the thread is joined before it is told to stop.
StopJoinFirst ==
  /\ At("idle") /\ caller' = "join"
  /\ UNCHANGED <<running, handle, loop, todo, monitored, cpu, terminated>>

\* stopMonitoring: the flag, then the join.
Stop ==
  /\ At("idle") /\ running' = FALSE /\ caller' = "join"
  /\ UNCHANGED <<handle, loop, todo, monitored, cpu, terminated>>

\* Mutant: detach instead of join.
Detach ==
  /\ At("join") /\ caller' = "idle" /\ handle' = FALSE
  /\ UNCHANGED <<running, loop, todo, monitored, cpu, terminated>>

Join ==
  /\ At("join") /\ (handle => loop = "ended")
  /\ caller' = "idle" /\ handle' = FALSE /\ loop' = "none"
  /\ UNCHANGED <<running, todo, monitored, cpu, terminated>>

-------------------------------------------------------------------------------
\* monitorLoop
Check ==
  /\ ~terminated /\ loop = "check"
  /\ IF running THEN loop' = "iterate" /\ todo' = monitored
                ELSE loop' = "ended" /\ UNCHANGED todo
  /\ UNCHANGED <<caller, running, handle, monitored, cpu, terminated>>

Update ==
  /\ ~terminated /\ loop = "iterate"
  /\ \E t \in todo, u \in Usages :
       todo' = todo \ {t} /\ cpu' = [cpu EXCEPT ![t] = u]
  /\ UNCHANGED <<caller, running, handle, loop, monitored, terminated>>

\* Mutant: the loop ends after one pass.
SleepForGood ==
  /\ ~terminated /\ loop = "iterate" /\ todo = {} /\ loop' = "ended"
  /\ UNCHANGED <<caller, running, handle, todo, monitored, cpu, terminated>>

Sleep ==
  /\ ~terminated /\ loop = "iterate" /\ todo = {} /\ loop' = "check"
  /\ UNCHANGED <<caller, running, handle, todo, monitored, cpu, terminated>>

CallStep == SetRunning \/ Spawn \/ Join
LoopStep == Check \/ Update \/ Sleep

Next ==
  \/ \E t \in Tenants : Register(t) \/ Unregister(t)
  \/ Start \/ Stop \/ CallStep \/ LoopStep

Spec == Init /\ [][Next]_vars

\* A call goes on, and the monitor thread is scheduled.
FairSpec == Spec /\ WF_vars(CallStep) /\ WF_vars(LoopStep)

-------------------------------------------------------------------------------
TypeOK ==
  /\ caller \in {"idle", "set", "spawn", "join"}
  /\ running \in BOOLEAN /\ handle \in BOOLEAN /\ terminated \in BOOLEAN
  /\ loop \in {"none", "check", "iterate", "ended"}
  /\ monitored \subseteq Tenants /\ todo \subseteq monitored
  /\ cpu \in [Tenants -> Usages]

\* No sequence of starts and stops, with threads that fail to start among
\* them, assigns to a thread object that is still joinable; and a thread that
\* lives always has its object, so nobody starts a second one.
OneThread == ~terminated /\ (loop # "none" <=> handle)

\* Once stopMonitoring has returned, no usage changes until the next start.
StoppedMeansStopped ==
  [][cpu' # cpu => running \/ caller = "join"]_vars

\* stopMonitoring returns: the thread it joins has seen the flag.
StopReturns == caller = "join" ~> caller = "idle"

\* While the monitor runs, monitored tenants get new figures again and again:
\* each pass takes all of them up, and is through with each of them.
MonitoredRefreshed ==
  \A t \in Tenants :
    /\ (running /\ handle /\ caller = "idle" /\ t \in monitored) ~> (~running \/ t \in todo)
    /\ t \in todo ~> t \notin todo
===============================================================================
