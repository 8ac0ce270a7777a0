------------------------------- MODULE CpuQuota -------------------------------
(***************************************************************************)
(* The CPU usage of one tenant as a number: ConnectionManager's check       *)
(* against the quota, handleRequest's threshold and increment, and those   *)
(* who write the usage meanwhile.  Every access of CpuResourceManager or   *)
(* TenantManager takes their lock and is one step; between two of them     *)
(* other clients run.                                                      *)
(*                                                                         *)
(* Usages are in hundredths: 0.8 is 80, "not there" is -100.  Where memory *)
(* or thread pool refuse a request, it ends without effect on the usage.   *)
(***************************************************************************)
EXTENDS Integers

CONSTANTS Clients,
          Quotas,       \* values of cpuQuota
          Step,         \* what a request adds: 1 in the code; a larger one gets
                        \* to the threshold in fewer requests
          Figures,      \* what updateUsage is called with by others
          Admin,        \* may the tenant be removed, created, given a new quota?
          MaxHandled    \* bound of the history counter

ASSUME CpuQuotaAssumption ==
  /\ Quotas \subseteq Nat /\ Step \in 1..80 /\ Figures \subseteq 0..100
  /\ Admin \in BOOLEAN /\ MaxHandled \in Nat

VARIABLES
  quota,        \* the registered TenantContext's cpuQuota, or Gone
  usage,        \* m_cpuUsage of the tenant, or Absent
  client,       \* what each client is doing, and the usage it read
  handled,      \* history: requests handled
  granted       \* history: usage and quota of the last connection granted

vars == <<quota, usage, client, handled, granted>>

Gone == -1
Absent == -100
Threshold == 80
Registered == quota # Gone

Init ==
  /\ quota \in Quotas /\ usage = 0
  /\ client = [c \in Clients |-> [at |-> "idle", seen |-> 0]]
  /\ handled = 0 /\ granted = [usage |-> 0, quota |-> 100]

At(c, label) == client[c].at = label
Seen(c) == client[c].seen
Goto(c, label) == client' = [client EXCEPT ![c].at = label]
ReadUsage(c, label) == client' = [client EXCEPT ![c].at = label, ![c].seen = usage]

-------------------------------------------------------------------------------
\* createTenant fails if there still is a usage.
CreateTenant ==
  /\ Admin /\ ~Registered /\ usage = Absent
  /\ quota' \in Quotas /\ usage' = 0
  /\ UNCHANGED <<client, handled, granted>>

RemoveTenant ==
  /\ Admin /\ Registered /\ quota' = Gone /\ usage' = Absent
  /\ UNCHANGED <<client, handled, granted>>

UpdateQuota ==
  /\ Admin /\ Registered /\ quota' \in Quotas
  /\ UNCHANGED <<usage, client, handled, granted>>

\* CpuQuotaChecker::updateUsage, from outside
UpdateUsage ==
  /\ usage' \in Figures
  /\ UNCHANGED <<quota, client, handled, granted>>

-------------------------------------------------------------------------------
\* handleConnection: authenticate; getTenantCpuUsage; getTenant and compare.
Authenticate(c) ==
  /\ At(c, "idle") /\ Registered /\ Goto(c, "check")
  /\ UNCHANGED <<quota, usage, handled, granted>>

CheckUsage(c) ==
  /\ At(c, "check")
  /\ IF usage < 0 THEN Goto(c, "idle") ELSE ReadUsage(c, "compare")
  /\ UNCHANGED <<quota, usage, handled, granted>>

\* usage < quota: a fraction of one against a number of CPUs. The context's
\* quota is read right after the look-up, without a lock; that is one step here.
BelowQuota(u) == u < 100 * quota

CompareQuota(c) ==
  /\ At(c, "compare")
  /\ IF Registered /\ BelowQuota(Seen(c))
     THEN Goto(c, "ready") /\ granted' = [usage |-> Seen(c), quota |-> quota]
     ELSE Goto(c, "idle") /\ UNCHANGED granted
  /\ UNCHANGED <<quota, usage, handled>>

Disconnect(c) ==
  /\ At(c, "ready") /\ Goto(c, "idle")
  /\ UNCHANGED <<quota, usage, handled, granted>>

-------------------------------------------------------------------------------
\* Mutant: no threshold.
BeginUnlimited(c) ==
  /\ At(c, "ready")
  /\ ReadUsage(c, IF usage < 0 THEN "allocate" ELSE "work")
  /\ UNCHANGED <<quota, usage, handled, granted>>

\* handleRequest reads the usage.  Which side of 0.8 the sum of eighty 0.01s
\* is on is a matter of rounding.
BeginRequest(c) ==
  /\ At(c, "ready") /\ usage <= Threshold
  /\ ReadUsage(c, IF usage < 0 THEN "allocate" ELSE "work")
  /\ UNCHANGED <<quota, usage, handled, granted>>

\* allocateCpuResource; the usage read before it stays what it was.
Allocate(c) ==
  /\ At(c, "allocate")
  /\ IF usage = Absent THEN Goto(c, "work") /\ usage' = 0
                       ELSE Goto(c, "ready") /\ UNCHANGED usage
  /\ UNCHANGED <<quota, handled, granted>>

Refuse(c) ==
  /\ At(c, "work") /\ Goto(c, "ready")
  /\ UNCHANGED <<quota, usage, handled, granted>>

\* Mutant: a failed submission is tried, and counted, again.
FinishAndRetry(c) ==
  /\ At(c, "work") /\ handled < MaxHandled
  /\ client' \in {[client EXCEPT ![c].at = "ready"], [client EXCEPT ![c].seen = Seen(c) + Step]}
  /\ usage' = Seen(c) + Step
  /\ handled' = IF client'[c].at = "ready" THEN handled + 1 ELSE handled
  /\ UNCHANGED <<quota, granted>>

Finish(c) ==
  /\ At(c, "work") /\ handled < MaxHandled
  /\ usage' = Seen(c) + Step /\ handled' = handled + 1
  /\ Goto(c, "ready")
  /\ UNCHANGED <<quota, granted>>

-------------------------------------------------------------------------------
Next ==
  \/ CreateTenant \/ RemoveTenant \/ UpdateQuota \/ UpdateUsage
  \/ \E c \in Clients :
       \/ Authenticate(c) \/ CheckUsage(c) \/ CompareQuota(c) \/ Disconnect(c)
       \/ BeginRequest(c) \/ Allocate(c) \/ Refuse(c) \/ Finish(c)

Spec == Init /\ [][Next]_vars

TypeOK ==
  /\ quota \in Quotas \cup {Gone} /\ usage \in Int /\ handled \in 0..MaxHandled
  /\ client \in [Clients -> [at : {"idle", "check", "compare", "ready", "allocate", "work"},
                             seen : Int]]
  /\ granted \in [usage : Nat, quota : Quotas \cup {100}]

\* Requests never take the usage past the threshold by more than one step,
\* however many clients read it below before any of them writes it back, and
\* whatever they kept from before a removal.
UsageBounded == usage <= Threshold + Step \/ usage \in Figures

\* A request is charged at most once: even with stale reads and contexts of
\* removed tenants, what was handled and the last figure that others may have
\* written account for the whole usage.
Accounted(u) == \E f \in Figures \cup {0} : u <= f + Step * handled
ChargedAtMostOnce == Accounted(usage)

\* Refuted: every handled request adds its step (with the tenant left alone and nobody
\* else writing).
RequestsCounted ==
  ~Admin /\ Figures = {} /\ (\A c \in Clients : ~At(c, "work")) => usage = Step * handled

\* Refuted: a connection is granted only below the quota, a percentage.
QuotaIsPercentage == granted.usage < granted.quota
===============================================================================
