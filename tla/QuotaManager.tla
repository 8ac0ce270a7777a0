------------------------------ MODULE QuotaManager ------------------------------
(***************************************************************************)
(* DiskResourceManager, DiskQuotaChecker and YaoDataServer::handleRequest. *)
(* MemoryResourceManager, MemoryQuotaChecker and the memory part of        *)
(* YaoSqlServer::handleRequest are the same code with megabytes for        *)
(* gigabytes and requests of ten for requests of one, so the module is     *)
(* instantiated for both.                                                  *)
(*                                                                         *)
(* Amounts of type double are counted in thousandths, in which quotas are  *)
(* exact; a usage ratio is rounded down to a thousandth.  The allocated    *)
(* total is a size_t in the code: adding a double to it drops the          *)
(* fraction.  Every method of the manager holds its mutex and is one step; *)
(* a request holds nothing between the methods it calls.                   *)
(***************************************************************************)
EXTENDS Integers, FiniteSets

CONSTANTS Clients, Tenants,
          Totals,         \* arguments of initialize, in whole units
          CpuQuotas,      \* values of TenantContext::getCpuQuota()
          RequestSize,    \* what a request asks for, in thousandths
          MaxGranted,     \* bound: granted stops counting beyond it
          NoTenant

ASSUME QuotaAssumption ==
  /\ Totals \subseteq Nat /\ CpuQuotas \subseteq Nat
  /\ RequestSize \in Nat \ {0} /\ MaxGranted \in Nat
  /\ NoTenant \notin Tenants

VARIABLES
  total, allocatedTotal,  \* totalDiskGB_, allocatedTotalGB_
  stats,                  \* tenantDiskStats_: quota and used of each tenant
  cpuQuota,               \* the CPU quota in each tenant's context
  request,                \* what each client is doing
  granted                 \* history: what each tenant was allowed since its allocation

manager == <<total, allocatedTotal, stats>>
vars == <<manager, cpuQuota, request, granted>>

Tracked == DOMAIN stats
With(f, x, v) == [y \in DOMAIN f \cup {x} |-> IF y = x THEN v ELSE f[y]]
Without(f, x) == [y \in DOMAIN f \ {x} |-> f[y]]

Whole(amount) == amount \div 1000

\* cpuQuota / 100 of the total, of which 80 per cent, in thousandths
DiskQuota(t) == cpuQuota[t] * total * 8

Absent     == -1    \* getTenantDiskUsage of an unknown tenant
NotANumber == -2    \* 0.0 / 0.0: every comparison with it is false
Infinite   == -3    \* a positive amount divided by 0.0, and what is computed from it

NonNegative == Nat \cup {Infinite}

Usage(t) ==
  CASE t \notin Tracked -> Absent
    [] t \in Tracked /\ (stats[t].used = Infinite \/ stats[t].quota = 0) ->
         IF stats[t].used = 0 THEN NotANumber ELSE Infinite
    [] OTHER -> (1000 * stats[t].used) \div stats[t].quota

WithinQuota(t) ==
  /\ t \in Tracked /\ stats[t].used # Infinite
  /\ stats[t].used + RequestSize <= stats[t].quota

HardLimit == 900
BelowHardLimit(u) == u # Infinite /\ u < HardLimit

IdleRequest == [at |-> "idle", tenant |-> NoTenant, usage |-> 0]

Init ==
  /\ total = 0 /\ allocatedTotal = 0 /\ stats = <<>>
  /\ cpuQuota \in [Tenants -> CpuQuotas]
  /\ request = [c \in Clients |-> IdleRequest]
  /\ granted = [t \in Tenants |-> 0]

At(c, label)     == request[c].at = label
Of(c)            == request[c].tenant
Goto(c, label)   == request' = [request EXCEPT ![c].at = label]
Proceed(c, label, u) == request' = [request EXCEPT ![c].at = label, ![c].usage = u]
Finish(c)        == request' = [request EXCEPT ![c] = IdleRequest]

(***************************************************************************)
(* The manager                                                             *)
(***************************************************************************)
\* Mutant: initialize keeps the tenants' statistics.
InitializeKeepsStats(c, n) ==
  /\ At(c, "idle")
  /\ total' = n /\ allocatedTotal' = 0
  /\ UNCHANGED <<stats, cpuQuota, request, granted>>

Initialize(c, n) ==
  /\ At(c, "idle")
  /\ total' = n /\ allocatedTotal' = 0 /\ stats' = <<>>
  /\ granted' = [t \in Tenants |-> 0]
  /\ UNCHANGED <<cpuQuota, request>>

\* Mutant: the new quota is not part of the total that is compared.
FitsWithout(t) == 1000 * allocatedTotal <= 1000 * total
Fits(t) == 1000 * allocatedTotal + DiskQuota(t) <= 1000 * total

AddTenant(t) ==
  /\ stats' = With(stats, t, [quota |-> DiskQuota(t), used |-> 0])
  /\ allocatedTotal' = allocatedTotal + Whole(DiskQuota(t))
  /\ granted' = [granted EXCEPT ![t] = 0]
  /\ UNCHANGED total

Unallocated == UNCHANGED <<manager, granted>>

\* allocateDiskResource called by createTenant
Allocate(c, t) ==
  /\ At(c, "idle")
  /\ IF t \notin Tracked /\ Fits(t) THEN AddTenant(t) ELSE Unallocated
  /\ UNCHANGED <<cpuQuota, request>>

\* Mutant: release rounds the share up.
ReleaseRoundsUp(c, t) ==
  /\ At(c, "idle") /\ t \in Tracked
  /\ allocatedTotal' = allocatedTotal - Whole(stats[t].quota + 999)
  /\ stats' = Without(stats, t)
  /\ UNCHANGED <<total, cpuQuota, request, granted>>

Release(c, t) ==
  /\ At(c, "idle") /\ t \in Tracked
  /\ allocatedTotal' = allocatedTotal - Whole(stats[t].quota)
  /\ stats' = Without(stats, t)
  /\ UNCHANGED <<total, cpuQuota, request, granted>>

\* updateTenantQuota changes the context and tells neither manager.
UpdateTenantQuota(c, t, q) ==
  /\ At(c, "idle")
  /\ cpuQuota' = [cpuQuota EXCEPT ![t] = q]
  /\ UNCHANGED <<manager, request, granted>>

(***************************************************************************)
(* A data request: look the usage up, allocate if there is none, check     *)
(* (usage, then quota, then the hard limit against the usage read first),  *)
(* then read the usage again and record it with the request added.         *)
(***************************************************************************)
BeginRequest(c, t) ==
  /\ At(c, "idle")
  /\ request' = [request EXCEPT ![c].tenant = t,
                   ![c].at = IF Usage(t) = Absent THEN "allocate" ELSE "usage"]
  /\ UNCHANGED <<manager, cpuQuota, granted>>

RequestAllocate(c) ==
  LET t == Of(c) IN
  /\ At(c, "allocate")
  /\ IF t \in Tracked THEN Goto(c, "usage") /\ Unallocated
     ELSE IF Fits(t) THEN Goto(c, "usage") /\ AddTenant(t)
     ELSE Finish(c) /\ Unallocated
  /\ UNCHANGED cpuQuota

CheckUsage(c) ==
  /\ At(c, "usage")
  /\ IF Usage(Of(c)) = Absent THEN Finish(c) ELSE Proceed(c, "quota", Usage(Of(c)))
  /\ UNCHANGED <<manager, cpuQuota, granted>>

CheckQuota(c) ==
  LET t == Of(c) IN
  /\ At(c, "quota")
  /\ IF WithinQuota(t) /\ BelowHardLimit(request[c].usage)
     THEN /\ Goto(c, "reread")
          /\ granted' = [granted EXCEPT ![t] = IF @ > MaxGranted THEN @ ELSE @ + RequestSize]
     ELSE Finish(c) /\ UNCHANGED granted
  /\ UNCHANGED <<manager, cpuQuota>>

RereadUsage(c) ==
  /\ At(c, "reread")
  /\ IF Usage(Of(c)) \in NonNegative THEN Proceed(c, "record", Usage(Of(c))) ELSE Finish(c)
  /\ UNCHANGED <<manager, cpuQuota, granted>>

Plus(u, amount) == IF u = Infinite THEN Infinite ELSE u + amount

\* The ratio that was read and the amount that is requested are added up.
RecordUsage(c) ==
  /\ At(c, "record")
  /\ stats' = IF Of(c) \in Tracked
              THEN [stats EXCEPT ![Of(c)].used = Plus(request[c].usage, RequestSize)]
              ELSE stats
  /\ Finish(c)
  /\ UNCHANGED <<total, allocatedTotal, cpuQuota, granted>>

-------------------------------------------------------------------------------
Next == \E c \in Clients :
  \/ \E n \in Totals : Initialize(c, n)
  \/ \E t \in Tenants : Allocate(c, t) \/ Release(c, t) \/ BeginRequest(c, t)
  \/ \E t \in Tenants, q \in CpuQuotas : UpdateTenantQuota(c, t, q)
  \/ RequestAllocate(c) \/ CheckUsage(c) \/ CheckQuota(c)
  \/ RereadUsage(c) \/ RecordUsage(c)

Spec == Init /\ [][Next]_vars
-------------------------------------------------------------------------------
Labels == {"idle", "allocate", "usage", "quota", "reread", "record"}

\* Types of the state; the allocated total, unsigned in the code, never
\* goes below zero.
TypeOK ==
  /\ total \in Nat /\ allocatedTotal \in Nat
  /\ Tracked \subseteq Tenants /\ stats \in [Tracked -> [quota : Nat, used : NonNegative]]
  /\ cpuQuota \in [Tenants -> CpuQuotas]
  /\ request \in [Clients -> [at : Labels, tenant : Tenants \cup {NoTenant}, usage : Int]]
  /\ granted \in [Tenants -> Nat]

\* The sum of a function's values, as the number of its units.
SumOver(f) == Cardinality(UNION {{x} \X (1..f[x]) : x \in DOMAIN f})

Quotas      == [t \in Tracked |-> stats[t].quota]
Wholes      == [t \in Tracked |-> Whole(stats[t].quota)]
Thousandths == [t \in Tracked |-> stats[t].quota % 1000]

\* SumOver(Quotas), whole units and thousandths counted apart.
HandedOut == 1000 * SumOver(Wholes) + SumOver(Thousandths)

\* The allocated total is what the present allocations account for, however
\* tenants came, went and changed their quota, and whoever allocated them.
Accounting == allocatedTotal = SumOver(Wholes)

\* The quotas exceed the total by less than one unit for every tenant but the
\* last: the fractions that the integer total dropped.
OvercommitBounded ==
  Tracked # {} => HandedOut <= 1000 * total + 999 * (Cardinality(Tracked) - 1)

\* Refuted: the quotas that are handed out fit in the total.
NoOvercommit == HandedOut <= 1000 * total

\* Refuted: the recorded usage of a tenant stays within its quota.
RecordedWithinQuota ==
  \A t \in Tracked : stats[t].used # Infinite /\ stats[t].used <= stats[t].quota

\* Refuted: a tenant is not granted more than its quota.
QuotaEnforced == \A t \in Tracked : granted[t] <= stats[t].quota

\* Refuted: the quota in force is the share of the tenant's present CPU quota.
QuotaFollowsTenant == \A t \in Tracked : stats[t].quota = DiskQuota(t)
===============================================================================
