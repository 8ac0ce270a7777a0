--------------------------- MODULE QuotaManagerProofs ---------------------------
(***************************************************************************)
(* The quota manager's accounting, for every set of clients and tenants,   *)
(* every total and every CPU quota.  What is handed out is followed        *)
(* through three sums over the tracked tenants: the quotas, their whole    *)
(* units, which are the allocated total, and the thousandths it dropped.   *)
(***************************************************************************)
EXTENDS QuotaManager, FiniteSetTheorems, TLAPS

(***************************************************************************)
(* Sums.                                                                   *)
(***************************************************************************)
Units(f)   == UNION {{x} \X (1..f[x]) : x \in DOMAIN f}
Amounts(f) == /\ IsFiniteSet(DOMAIN f) /\ f \in [DOMAIN f -> Nat]
              /\ IsFiniteSet(Units(f))

LEMMA UnitsElement ==
  ASSUME NEW f, NEW u
  PROVE  u \in Units(f) <=> /\ u = <<u[1], u[2]>> /\ u[1] \in DOMAIN f
                            /\ u[2] \in 1..f[u[1]]
BY DEF Units

\* An index that is new adds its value.
LEMMA SumWith ==
  ASSUME NEW f, Amounts(f), NEW x, x \notin DOMAIN f, NEW v \in Nat
  PROVE  /\ Amounts(With(f, x, v))
         /\ SumOver(With(f, x, v)) = SumOver(f) + v
<1> DEFINE g == With(f, x, v)
           X == {x} \X (1..v)
<1>1. DOMAIN g = DOMAIN f \cup {x} /\ g[x] = v /\ \A y \in DOMAIN f : g[y] = f[y]
  BY DEF With
<1>2. IsFiniteSet(DOMAIN g) /\ g \in [DOMAIN g -> Nat]
  BY <1>1, FS_AddElement DEF Amounts, With
<1>3. Units(g) = Units(f) \cup X
  <2>1. ASSUME NEW u PROVE u \in Units(g) <=> u \in Units(f) \/ u \in X
    BY <1>1, UnitsElement
  <2> QED  BY <2>1
<1>4. Units(f) \cap X = {}
  <2>1. ASSUME NEW u \in Units(f) \cap X PROVE FALSE
    BY UnitsElement
  <2> QED  BY <2>1
<1>5. IsFiniteSet(X) /\ Cardinality(X) = v
  <2>1. IsFiniteSet(1..v) /\ Cardinality(1..v) = v
    BY FS_Interval
  <2>2. IsFiniteSet({x}) /\ Cardinality({x}) = 1
    BY FS_Singleton
  <2>3. IsFiniteSet(X) /\ Cardinality(X) = Cardinality({x}) * Cardinality(1..v)
    BY <2>1, <2>2, FS_Product
  <2> QED  BY <2>1, <2>2, <2>3
<1>6. Cardinality(Units(f)) \in Nat
  BY FS_CardinalityType DEF Amounts
<1> HIDE DEF X
<1>7. /\ IsFiniteSet(Units(g))
      /\ Cardinality(Units(g)) = Cardinality(Units(f)) + v - 0
  BY <1>3, <1>4, <1>5, FS_Union, FS_EmptySet DEF Amounts
<1>8. Amounts(g)
  BY <1>2, <1>7 DEF Amounts
<1> QED  BY <1>6, <1>7, <1>8 DEF SumOver, Units

\* An index that goes takes its value with it.
LEMMA SumWithout ==
  ASSUME NEW f, Amounts(f), NEW x \in DOMAIN f
  PROVE  /\ Amounts(Without(f, x))
         /\ SumOver(f) = SumOver(Without(f, x)) + f[x]
<1> DEFINE g == Without(f, x)
<1>1. DOMAIN g = DOMAIN f \ {x} /\ \A y \in DOMAIN g : g[y] = f[y]
  BY DEF Without
<1>2. IsFiniteSet(DOMAIN g) /\ g \in [DOMAIN g -> Nat]
  BY <1>1, FS_RemoveElement DEF Amounts, Without
<1>3. IsFiniteSet(Units(g))
  <2>1. \A u \in Units(g) : u \in Units(f)
    BY <1>1, UnitsElement
  <2> QED  BY <2>1, FS_Subset DEF Amounts
<1>4. Amounts(g)
  BY <1>2, <1>3 DEF Amounts
<1>5. f = With(g, x, f[x]) /\ x \notin DOMAIN g /\ f[x] \in Nat
  <2>1. f = [y \in DOMAIN f |-> f[y]] /\ f[x] \in Nat
    BY DEF Amounts
  <2>2. DOMAIN g \cup {x} = DOMAIN f
    BY <1>1
  <2>3. With(g, x, f[x]) = [y \in DOMAIN f |-> IF y = x THEN f[x] ELSE g[y]]
    BY <2>2 DEF With
  <2>4. \A y \in DOMAIN f : f[y] = IF y = x THEN f[x] ELSE g[y]
    BY <1>1
  <2>5. [y \in DOMAIN f |-> f[y]] = [y \in DOMAIN f |-> IF y = x THEN f[x] ELSE g[y]]
    BY <2>4
  <2> QED  BY <1>1, <2>1, <2>3, <2>5
<1>6. ASSUME NEW h, h = g, NEW v, v = f[x]
      PROVE  SumOver(f) = SumOver(h) + v
  <2>1. Amounts(h) /\ x \notin DOMAIN h /\ v \in Nat /\ f = With(h, x, v)
    BY <1>4, <1>5, <1>6
  <2> QED  BY <2>1, SumWith
<1> QED  BY <1>4, <1>6

LEMMA SumType ==
  ASSUME NEW f, Amounts(f)
  PROVE  SumOver(f) \in Nat
BY FS_CardinalityType DEF Amounts, Units, SumOver

LEMMA SumEmpty ==
  ASSUME NEW f, DOMAIN f = {}
  PROVE  Amounts(f) /\ SumOver(f) = 0
<1>1. Units(f) = {} /\ f \in [DOMAIN f -> Nat]
  <2>1. f = [x \in {} |-> f[x]]
    OBVIOUS
  <2> QED  BY <2>1 DEF Units
<1> QED  BY <1>1, FS_EmptySet DEF Amounts, SumOver, Units

\* A sum of values none of which exceeds b, and of which some indices have none.
LEMMA SumBound ==
  ASSUME NEW f, Amounts(f), NEW S, S \subseteq DOMAIN f, NEW b \in Nat,
         \A x \in DOMAIN f : f[x] <= b,
         \A x \in DOMAIN f \ S : f[x] = 0
  PROVE  SumOver(f) <= b * Cardinality(S)
<1>1. IsFiniteSet(S) /\ Cardinality(S) \in Nat
  BY FS_Subset, FS_CardinalityType DEF Amounts
<1>2. IsFiniteSet(1..b) /\ Cardinality(1..b) = b
  BY FS_Interval
<1>3. /\ IsFiniteSet(S \X (1..b))
      /\ Cardinality(S \X (1..b)) = Cardinality(S) * b
  BY <1>1, <1>2, FS_Product
<1>4. Units(f) \subseteq S \X (1..b)
  <2> SUFFICES ASSUME NEW u \in Units(f) PROVE u \in S \X (1..b)
    OBVIOUS
  <2>1. u = <<u[1], u[2]>> /\ u[1] \in DOMAIN f /\ u[2] \in 1..f[u[1]]
    BY UnitsElement
  <2>2. f[u[1]] \in Nat /\ f[u[1]] <= b /\ f[u[1]] # 0
    BY <2>1 DEF Amounts
  <2>3. u[1] \in S /\ u[2] \in 1..b
    BY <2>1, <2>2
  <2> QED  BY <2>1, <2>3
<1>5. Cardinality(Units(f)) <= Cardinality(S) * b
  BY <1>3, <1>4, FS_Subset
<1> QED  BY <1>1, <1>5 DEF SumOver, Units

(***************************************************************************)
(* The inductive invariant.                                                *)
(***************************************************************************)
SumInv ==
  /\ Amounts(Quotas) /\ Amounts(Wholes) /\ Amounts(Thousandths)
  /\ HandedOut = SumOver(Quotas)

\* A tenant is admitted only if its whole quota still fits.  So the total is used
\* up only by a tenant whose quota is whole, and that tenant is still there.
LastUnit ==
  /\ allocatedTotal <= total
  /\ total = 0 => \A t \in Tracked : stats[t].quota = 0
  /\ total > 0 /\ allocatedTotal = total =>
       \E t \in Tracked : stats[t].quota % 1000 = 0 /\ Whole(stats[t].quota) >= 1

\* The second reading of the usage found a number, and the tenant that a request
\* allocates for is one.
Reread ==
  \A c \in Clients : /\ At(c, "record") => request[c].usage \in NonNegative
                     /\ At(c, "allocate") => Of(c) \in Tenants

\* What the manager's methods must keep, and what the requests must keep.
ManagerType == /\ total \in Nat /\ allocatedTotal \in Nat
               /\ Tracked \subseteq Tenants
               /\ stats \in [Tracked -> [quota : Nat, used : NonNegative]]
ManagerInv == ManagerType /\ SumInv /\ Accounting /\ LastUnit

RequestInv ==
  /\ cpuQuota \in [Tenants -> CpuQuotas]
  /\ request \in [Clients -> [at : Labels, tenant : Tenants \cup {NoTenant}, usage : Int]]
  /\ granted \in [Tenants -> Nat]
  /\ Reread

IInv == TypeOK /\ Reread /\ SumInv /\ Accounting /\ LastUnit

\* What With and Without do to the manager's table they do to the three sums.
LEMMA WithSums ==
  ASSUME NEW t, t \notin Tracked, NEW q, stats' = With(stats, t, [quota |-> q, used |-> 0])
  PROVE  /\ Quotas' = With(Quotas, t, q) /\ Wholes' = With(Wholes, t, Whole(q))
         /\ Thousandths' = With(Thousandths, t, q % 1000)
         /\ Tracked' = Tracked \cup {t}
BY DEF With, Tracked, Quotas, Wholes, Thousandths, Whole

LEMMA WithoutSums ==
  ASSUME NEW t, stats' = Without(stats, t)
  PROVE  /\ Quotas' = Without(Quotas, t) /\ Wholes' = Without(Wholes, t)
         /\ Thousandths' = Without(Thousandths, t)
         /\ Tracked' = Tracked \ {t}
BY DEF Without, Tracked, Quotas, Wholes, Thousandths

LEMMA QuotaType ==
  ASSUME TypeOK, NEW t \in Tenants
  PROVE  DiskQuota(t) \in Nat /\ (total = 0 => DiskQuota(t) = 0)
<1>1. cpuQuota[t] \in Nat /\ total \in Nat
  BY QuotaAssumption DEF TypeOK
<1>2. cpuQuota[t] * total \in Nat /\ (total = 0 => cpuQuota[t] * total = 0)
  BY <1>1
<1> QED  BY <1>2 DEF DiskQuota

\* A tenant's usage is a number, absent or not a number.
LEMMA UsageType ==
  ASSUME TypeOK, NEW t
  PROVE  Usage(t) \in Int
<1>1. CASE t \in Tracked /\ stats[t].quota # 0 /\ stats[t].used # Infinite
  <2>1. stats[t].quota \in Nat \ {0} /\ 1000 * stats[t].used \in Nat
    BY <1>1 DEF TypeOK, NonNegative
  <2>2. \A a \in Nat, b \in Nat \ {0} : a \div b \in Int
    OBVIOUS
  <2> QED  BY <1>1, <2>1, <2>2 DEF Usage
<1>2. CASE ~(t \in Tracked /\ stats[t].quota # 0 /\ stats[t].used # Infinite)
  BY <1>2 DEF Usage, Absent, NotANumber, Infinite
<1> QED  BY <1>1, <1>2

LEMMA InitIInv == Init => IInv
<1> SUFFICES ASSUME Init PROVE IInv
  OBVIOUS
<1>1. DOMAIN stats = {} /\ Tracked = {}
  BY DEF Init, Tracked
<1>2. TypeOK
  <2>1. stats \in [Tracked -> [quota : Nat, used : NonNegative]]
    BY <1>1 DEF Init
  <2> QED  BY <1>1, <2>1, QuotaAssumption DEF Init, TypeOK, IdleRequest, Labels
<1>3. Reread
  BY DEF Init, Reread, At, Of, IdleRequest
<1>4. /\ Amounts(Quotas) /\ Amounts(Wholes) /\ Amounts(Thousandths)
      /\ SumOver(Quotas) = 0 /\ SumOver(Wholes) = 0 /\ SumOver(Thousandths) = 0
  BY <1>1, SumEmpty DEF Quotas, Wholes, Thousandths
<1>5. SumInv /\ Accounting
  BY <1>4 DEF SumInv, Accounting, HandedOut, Init
<1>6. LastUnit
  BY <1>1 DEF LastUnit, Init
<1> QED  BY <1>2, <1>3, <1>5, <1>6 DEF IInv

LEMMA IInvParts == ASSUME ManagerInv', RequestInv' PROVE IInv'
BY DEF IInv, ManagerInv, RequestInv, ManagerType, TypeOK

(***************************************************************************)
(* The manager's steps.                                                    *)
(***************************************************************************)
LEMMA InitializeInv ==
  ASSUME NEW n \in Totals, total' = n, allocatedTotal' = 0, stats' = <<>>
  PROVE  ManagerInv'
<1>1. DOMAIN stats' = {} /\ Tracked' = {}
  BY DEF Tracked
<1>2. ManagerType'
  <2>1. stats' \in [Tracked' -> [quota : Nat, used : NonNegative]]
    BY <1>1
  <2> QED  BY <1>1, <2>1, QuotaAssumption DEF ManagerType
<1>3. /\ Amounts(Quotas') /\ Amounts(Wholes') /\ Amounts(Thousandths')
      /\ SumOver(Quotas') = 0 /\ SumOver(Wholes') = 0 /\ SumOver(Thousandths') = 0
  BY <1>1, SumEmpty DEF Quotas, Wholes, Thousandths
<1>4. SumInv' /\ Accounting'
  BY <1>3 DEF SumInv, Accounting, HandedOut
<1>5. LastUnit'
  BY <1>1, QuotaAssumption DEF LastUnit
<1> QED  BY <1>2, <1>4, <1>5 DEF ManagerInv

LEMMA AddTenantInv ==
  ASSUME IInv, NEW t \in Tenants, t \notin Tracked, Fits(t), AddTenant(t)
  PROVE  ManagerInv'
<1> DEFINE q == DiskQuota(t)
<1>1. q \in Nat /\ (total = 0 => q = 0)
  BY QuotaType DEF IInv
<1> HIDE DEF q
<1>2. /\ Whole(q) \in Nat /\ q % 1000 \in Nat /\ q % 1000 <= 999
      /\ q = 1000 * Whole(q) + (q % 1000)
  BY <1>1 DEF Whole
<1>3. /\ total' = total /\ allocatedTotal' = allocatedTotal + Whole(q)
      /\ stats' = With(stats, t, [quota |-> q, used |-> 0])
      /\ 1000 * allocatedTotal + q <= 1000 * total
      /\ total \in Nat /\ allocatedTotal \in Nat
  BY DEF AddTenant, Fits, IInv, TypeOK, q
<1>4. /\ Quotas' = With(Quotas, t, q) /\ Wholes' = With(Wholes, t, Whole(q))
      /\ Thousandths' = With(Thousandths, t, q % 1000)
      /\ Tracked' = Tracked \cup {t}
  BY <1>3, WithSums
<1>5. /\ stats'[t].quota = q
      /\ \A u \in Tracked : stats'[u] = stats[u]
  BY <1>3 DEF With, Tracked
<1>6. ManagerType'
  <2>1. stats' \in [Tracked' -> [quota : Nat, used : NonNegative]]
    BY <1>1, <1>3, <1>4 DEF With, Tracked, IInv, TypeOK, NonNegative
  <2> QED  BY <1>2, <1>3, <1>4, <2>1 DEF ManagerType, IInv, TypeOK
<1>7. /\ Amounts(Quotas') /\ Amounts(Wholes') /\ Amounts(Thousandths')
      /\ SumOver(Quotas') = SumOver(Quotas) + q
      /\ SumOver(Wholes') = SumOver(Wholes) + Whole(q)
      /\ SumOver(Thousandths') = SumOver(Thousandths) + (q % 1000)
  <2>1. DOMAIN Quotas = Tracked /\ DOMAIN Wholes = Tracked /\ DOMAIN Thousandths = Tracked
    BY DEF Quotas, Wholes, Thousandths
  <2> QED  BY <1>1, <1>2, <1>4, <2>1, SumWith DEF IInv, SumInv
<1>8. SumInv' /\ Accounting'
  BY <1>1, <1>2, <1>3, <1>7, SumType DEF IInv, SumInv, HandedOut, Accounting
<1>9. LastUnit'
  <2>1. allocatedTotal' <= total'
    BY <1>2, <1>3
  <2>2. total' = 0 => \A u \in Tracked' : stats'[u].quota = 0
    BY <1>1, <1>3, <1>4, <1>5 DEF IInv, LastUnit
  <2>3. ASSUME total' > 0, allocatedTotal' = total'
        PROVE  \E u \in Tracked' : stats'[u].quota % 1000 = 0 /\ Whole(stats'[u].quota) >= 1
    <3>1. q % 1000 = 0
      BY <1>2, <1>3, <2>3
    <3>2. CASE Whole(q) >= 1
      BY <1>4, <1>5, <3>1, <3>2
    <3>3. CASE Whole(q) = 0
      <4>1. total > 0 /\ allocatedTotal = total
        BY <1>3, <2>3, <3>3
      <4> QED  BY <1>4, <1>5, <4>1 DEF IInv, LastUnit
    <3> QED  BY <1>2, <3>2, <3>3
  <2> QED  BY <2>1, <2>2, <2>3 DEF LastUnit
<1> QED  BY <1>6, <1>8, <1>9 DEF ManagerInv

\* What is released is what was allocated: the quota is stored with the tenant.
LEMMA ReleaseInv ==
  ASSUME IInv, NEW t \in Tracked, total' = total, stats' = Without(stats, t),
         allocatedTotal' = allocatedTotal - Whole(stats[t].quota)
  PROVE  ManagerInv'
<1> DEFINE q == stats[t].quota
<1>1. q \in Nat /\ total \in Nat /\ allocatedTotal \in Nat
  BY DEF IInv, TypeOK
<1> HIDE DEF q
<1>2. /\ Whole(q) \in Nat /\ q % 1000 \in Nat
      /\ q = 1000 * Whole(q) + (q % 1000)
  BY <1>1 DEF Whole
<1>3. /\ Quotas' = Without(Quotas, t) /\ Wholes' = Without(Wholes, t)
      /\ Thousandths' = Without(Thousandths, t)
      /\ Tracked' = Tracked \ {t}
  BY WithoutSums
<1>4. \A u \in Tracked' : stats'[u] = stats[u]
  BY <1>3 DEF Without, Tracked
<1>5. /\ Amounts(Quotas') /\ Amounts(Wholes') /\ Amounts(Thousandths')
      /\ SumOver(Quotas) = SumOver(Quotas') + q
      /\ SumOver(Wholes) = SumOver(Wholes') + Whole(q)
      /\ SumOver(Thousandths) = SumOver(Thousandths') + (q % 1000)
  <2>1. DOMAIN Quotas = Tracked /\ DOMAIN Wholes = Tracked /\ DOMAIN Thousandths = Tracked
    BY DEF Quotas, Wholes, Thousandths
  <2>2. Quotas[t] = q /\ Wholes[t] = Whole(q) /\ Thousandths[t] = q % 1000
    BY DEF Quotas, Wholes, Thousandths, q
  <2> QED  BY <1>3, <2>1, <2>2, SumWithout DEF IInv, SumInv
<1>6. /\ SumOver(Quotas') \in Nat /\ SumOver(Wholes') \in Nat
      /\ SumOver(Thousandths') \in Nat
  BY <1>5, SumType
<1>7. /\ allocatedTotal = SumOver(Wholes) /\ allocatedTotal' = allocatedTotal - Whole(q)
      /\ allocatedTotal <= total
      /\ SumOver(Quotas) = 1000 * SumOver(Wholes) + SumOver(Thousandths)
  BY DEF IInv, Accounting, SumInv, HandedOut, LastUnit, q
<1>8. SumInv' /\ Accounting'
  BY <1>1, <1>2, <1>5, <1>6, <1>7 DEF SumInv, HandedOut, Accounting
<1>9. ManagerType'
  <2>1. allocatedTotal' \in Nat
    BY <1>1, <1>2, <1>5, <1>6, <1>7
  <2>2. stats' \in [Tracked' -> [quota : Nat, used : NonNegative]]
    BY <1>3 DEF Without, Tracked, IInv, TypeOK
  <2> QED  BY <1>1, <1>3, <2>1, <2>2 DEF ManagerType, IInv, TypeOK
<1>10. LastUnit'
  <2>1. allocatedTotal' <= total'
    BY <1>1, <1>2, <1>7
  <2>2. total' = 0 => \A u \in Tracked' : stats'[u].quota = 0
    BY <1>3, <1>4 DEF IInv, LastUnit
  <2>3. ASSUME total' > 0, allocatedTotal' = total'
        PROVE  \E u \in Tracked' : stats'[u].quota % 1000 = 0 /\ Whole(stats'[u].quota) >= 1
    <3>1. Whole(q) = 0 /\ allocatedTotal = total /\ total > 0
      BY <1>1, <1>2, <1>7, <2>3
    <3>2. PICK u \in Tracked : stats[u].quota % 1000 = 0 /\ Whole(stats[u].quota) >= 1
      BY <3>1 DEF IInv, LastUnit
    <3>3. u # t
      BY <3>1, <3>2 DEF q
    <3> QED  BY <1>3, <1>4, <3>2, <3>3
  <2> QED  BY <2>1, <2>2, <2>3 DEF LastUnit
<1> QED  BY <1>8, <1>9, <1>10 DEF ManagerInv

\* The usage of a tenant is recorded, or nothing happens to the manager.
LEMMA SameQuotasInv ==
  ASSUME IInv, UNCHANGED <<total, allocatedTotal>>,
         \/ stats' = stats
         \/ \E t \in Tracked, n \in NonNegative : stats' = [stats EXCEPT ![t].used = n]
  PROVE  ManagerInv'
<1>1. /\ Tracked' = Tracked
      /\ stats' \in [Tracked -> [quota : Nat, used : NonNegative]]
      /\ \A t \in Tracked : stats'[t].quota = stats[t].quota
  BY DEF IInv, TypeOK, Tracked
<1>2. Quotas' = Quotas /\ Wholes' = Wholes /\ Thousandths' = Thousandths
  BY <1>1 DEF Quotas, Wholes, Thousandths
<1>3. ManagerType' /\ LastUnit'
  BY <1>1 DEF ManagerType, LastUnit, IInv, TypeOK
<1>4. SumInv' /\ Accounting'
  BY <1>2 DEF SumInv, Accounting, HandedOut, IInv
<1> QED  BY <1>3, <1>4 DEF ManagerInv

(***************************************************************************)
(* The steps of Next.                                                      *)
(***************************************************************************)
Requests == [at : Labels, tenant : Tenants \cup {NoTenant}, usage : Int]

\* One client's request changes, and nothing that the others have read.
LEMMA RequestChange ==
  ASSUME IInv, NEW c \in Clients, NEW r \in Requests,
         r.at = "record" => r.usage \in NonNegative, r.at = "allocate" => r.tenant \in Tenants,
         request' = [request EXCEPT ![c] = r],
         cpuQuota' = cpuQuota, granted' \in [Tenants -> Nat]
  PROVE  RequestInv'
<1>1. request \in [Clients -> Requests] /\ request' \in [Clients -> Requests]
  BY DEF IInv, TypeOK, Requests
<1>2. Reread'
  BY <1>1 DEF Reread, At, Of, IInv
<1> QED  BY <1>1, <1>2 DEF RequestInv, IInv, TypeOK, Requests

\* The ways in which a step changes the request of a client.
LEMMA FinishForm ==
  ASSUME NEW c \in Clients, Finish(c)
  PROVE  /\ IdleRequest \in Requests /\ IdleRequest.at = "idle"
         /\ request' = [request EXCEPT ![c] = IdleRequest]
BY DEF IdleRequest, Requests, Labels, Finish

LEMMA GotoForm ==
  ASSUME IInv, NEW c \in Clients, NEW label \in Labels, Goto(c, label)
  PROVE  \E r \in Requests : r.at = label /\ request' = [request EXCEPT ![c] = r]
<1>1. request \in [Clients -> Requests] /\ request[c] \in Requests
  BY DEF IInv, TypeOK, Requests
<1> DEFINE r == [request[c] EXCEPT !.at = label]
<1>2. r \in Requests /\ r.at = label
  BY <1>1 DEF Requests
<1>3. request' = [request EXCEPT ![c] = r]
  BY <1>1 DEF Goto
<1> QED  BY <1>2, <1>3

LEMMA ProceedForm ==
  ASSUME IInv, NEW c \in Clients, NEW label \in Labels, NEW u \in Int, Proceed(c, label, u)
  PROVE  \E r \in Requests : /\ r.at = label /\ r.usage = u
                             /\ request' = [request EXCEPT ![c] = r]
<1>1. request \in [Clients -> Requests] /\ request[c] \in Requests
  BY DEF IInv, TypeOK, Requests
<1> DEFINE r == [request[c] EXCEPT !.at = label, !.usage = u]
<1>2. r \in Requests /\ r.at = label /\ r.usage = u
  BY <1>1 DEF Requests
<1>3. request' = [request EXCEPT ![c] = r]
  BY <1>1 DEF Proceed
<1> QED  BY <1>2, <1>3

LEMMA AdminStepInv ==
  ASSUME IInv, NEW c \in Clients,
         \/ \E n \in Totals : Initialize(c, n)
         \/ \E t \in Tenants : Allocate(c, t) \/ Release(c, t)
         \/ \E t \in Tenants, q \in CpuQuotas : UpdateTenantQuota(c, t, q)
  PROVE  IInv'
<1>1. ASSUME NEW n \in Totals, Initialize(c, n) PROVE IInv'
  <2>1. ManagerInv'
    BY <1>1, InitializeInv DEF Initialize
  <2>2. RequestInv'
    BY <1>1 DEF Initialize, RequestInv, IInv, TypeOK, Reread, At, Of
  <2> QED  BY <2>1, <2>2, IInvParts
<1>2. ASSUME NEW t \in Tenants, Allocate(c, t) PROVE IInv'
  <2>1. ManagerInv' /\ granted' \in [Tenants -> Nat]
    <3>1. CASE t \notin Tracked /\ Fits(t)
      BY <1>2, <3>1, AddTenantInv DEF Allocate, AddTenant, IInv, TypeOK
    <3>2. CASE ~(t \notin Tracked /\ Fits(t))
      BY <1>2, <3>2, SameQuotasInv DEF Allocate, Unallocated, manager, IInv, TypeOK
    <3> QED  BY <3>1, <3>2
  <2>2. RequestInv'
    BY <1>2, <2>1 DEF Allocate, RequestInv, IInv, TypeOK, Reread, At, Of
  <2> QED  BY <2>1, <2>2, IInvParts
<1>3. ASSUME NEW t \in Tenants, Release(c, t) PROVE IInv'
  <2>1. ManagerInv'
    BY <1>3, ReleaseInv DEF Release
  <2>2. RequestInv'
    BY <1>3 DEF Release, RequestInv, IInv, TypeOK, Reread, At, Of
  <2> QED  BY <2>1, <2>2, IInvParts
<1>4. ASSUME NEW t \in Tenants, NEW q \in CpuQuotas, UpdateTenantQuota(c, t, q) PROVE IInv'
  <2>1. ManagerInv'
    BY <1>4, SameQuotasInv DEF UpdateTenantQuota, manager
  <2>2. RequestInv'
    BY <1>4 DEF UpdateTenantQuota, RequestInv, IInv, TypeOK, Reread, At, Of
  <2> QED  BY <2>1, <2>2, IInvParts
<1> QED  BY <1>1, <1>2, <1>3, <1>4

LEMMA RequestStepInv ==
  ASSUME IInv, NEW c \in Clients,
         \/ (\E t \in Tenants : BeginRequest(c, t)) \/ RequestAllocate(c) \/ CheckUsage(c)
         \/ CheckQuota(c) \/ RereadUsage(c) \/ RecordUsage(c)
  PROVE  IInv'
<1> USE DEF Labels
<1>0. /\ granted \in [Tenants -> Nat]
      /\ Of(c) \in Tenants \cup {NoTenant} /\ Usage(Of(c)) \in Int
      /\ request[c].usage \in Int
  BY UsageType DEF IInv, TypeOK, Of
<1>1. ASSUME NEW t \in Tenants, BeginRequest(c, t) PROVE IInv'
  <2>1. ManagerInv'
    BY <1>1, SameQuotasInv DEF BeginRequest, manager
  <2>2. RequestInv'
    <3> DEFINE first == IF Usage(t) = Absent THEN "allocate" ELSE "usage"
    <3>1. /\ first \in Labels /\ first # "record"
          /\ request' = [request EXCEPT ![c].tenant = t, ![c].at = first]
      BY <1>1 DEF BeginRequest
    <3> HIDE DEF first
    <3> DEFINE r == [request[c] EXCEPT !.tenant = t, !.at = first]
    <3>2. request \in [Clients -> Requests] /\ request[c] \in Requests
      BY DEF IInv, TypeOK, Requests
    <3>3. r \in Requests /\ r.at = first /\ r.tenant = t
      BY <3>1, <3>2 DEF Requests
    <3>4. request' = [request EXCEPT ![c] = r]
      BY <3>1, <3>2
    <3> HIDE DEF r
    <3> QED  BY <1>0, <1>1, <3>1, <3>3, <3>4, RequestChange DEF BeginRequest
  <2> QED  BY <2>1, <2>2, IInvParts
<1>2. CASE RequestAllocate(c)
  <2>1. Goto(c, "usage") \/ Finish(c)
    BY <1>2 DEF RequestAllocate
  <2>2. ManagerInv' /\ granted' \in [Tenants -> Nat] /\ cpuQuota' = cpuQuota
    <3>1. CASE Of(c) \notin Tracked /\ Fits(Of(c)) /\ AddTenant(Of(c))
      <4>1. Of(c) \in Tenants
        BY <1>2 DEF RequestAllocate, IInv, Reread
      <4> QED  BY <1>0, <1>2, <3>1, <4>1, AddTenantInv DEF RequestAllocate, AddTenant
    <3>2. CASE Unallocated
      BY <1>0, <1>2, <3>2, SameQuotasInv DEF RequestAllocate, Unallocated, manager
    <3> QED  BY <1>2, <3>1, <3>2 DEF RequestAllocate
  <2>3. RequestInv'
    BY <2>1, <2>2, FinishForm, GotoForm, RequestChange
  <2> QED  BY <2>2, <2>3, IInvParts
<1>3. CASE CheckUsage(c)
  <2>1. ManagerInv'
    BY <1>3, SameQuotasInv DEF CheckUsage, manager
  <2>2. Finish(c) \/ Proceed(c, "quota", Usage(Of(c)))
    BY <1>3 DEF CheckUsage
  <2>3. RequestInv'
    BY <1>0, <1>3, <2>2, FinishForm, ProceedForm, RequestChange DEF CheckUsage
  <2> QED  BY <2>1, <2>3, IInvParts
<1>4. CASE CheckQuota(c)
  <2>1. ManagerInv'
    BY <1>4, SameQuotasInv DEF CheckQuota, manager
  <2>2. Finish(c) \/ Goto(c, "reread")
    BY <1>4 DEF CheckQuota
  <2>3. granted' \in [Tenants -> Nat] /\ cpuQuota' = cpuQuota
    BY <1>0, <1>4, QuotaAssumption DEF CheckQuota
  <2>4. RequestInv'
    BY <2>2, <2>3, FinishForm, GotoForm, RequestChange
  <2> QED  BY <2>1, <2>4, IInvParts
<1>5. CASE RereadUsage(c)
  <2>1. ManagerInv'
    BY <1>5, SameQuotasInv DEF RereadUsage, manager
  <2>2. Finish(c) \/ (Usage(Of(c)) \in NonNegative /\ Proceed(c, "record", Usage(Of(c))))
    <3>1. CASE Usage(Of(c)) \in NonNegative
      BY <1>5, <3>1, Zenon DEF RereadUsage
    <3>2. CASE Usage(Of(c)) \notin NonNegative
      BY <1>5, <3>2, Zenon DEF RereadUsage
    <3> QED  BY <3>1, <3>2
  <2>3. RequestInv'
    BY <1>0, <1>5, <2>2, FinishForm, ProceedForm, RequestChange DEF RereadUsage
  <2> QED  BY <2>1, <2>3, IInvParts
<1>6. CASE RecordUsage(c)
  <2>1. Plus(request[c].usage, RequestSize) \in NonNegative
    <3>1. request[c].usage \in NonNegative /\ RequestSize \in Nat
      BY <1>6, QuotaAssumption DEF RecordUsage, IInv, Reread
    <3> QED  BY <3>1 DEF Plus, NonNegative, Infinite
  <2>2. ManagerInv'
    BY <1>6, <2>1, SameQuotasInv DEF RecordUsage
  <2>3. RequestInv'
    BY <1>0, <1>6, FinishForm, RequestChange DEF RecordUsage
  <2> QED  BY <2>2, <2>3, IInvParts
<1> QED  BY <1>1, <1>2, <1>3, <1>4, <1>5, <1>6

LEMMA NextIInv ==
  ASSUME IInv, [Next]_vars
  PROVE  IInv'
<1>1. CASE Next
  <2> PICK c \in Clients :
        \/ \E n \in Totals : Initialize(c, n)
        \/ \E t \in Tenants : Allocate(c, t) \/ Release(c, t) \/ BeginRequest(c, t)
        \/ \E t \in Tenants, q \in CpuQuotas : UpdateTenantQuota(c, t, q)
        \/ RequestAllocate(c) \/ CheckUsage(c) \/ CheckQuota(c)
        \/ RereadUsage(c) \/ RecordUsage(c)
    BY <1>1 DEF Next
  <2> QED  BY AdminStepInv, RequestStepInv
<1>2. CASE UNCHANGED vars
  <2>1. ManagerInv'
    BY <1>2, SameQuotasInv DEF vars, manager
  <2>2. RequestInv'
    BY <1>2 DEF vars, manager, RequestInv, IInv, TypeOK, Reread, At, Of
  <2> QED  BY <2>1, <2>2, IInvParts
<1> QED  BY <1>1, <1>2

\* Whatever the clients do and however their requests interleave, the invariant
\* that the theorems below are read off.
LEMMA QuotaInvariant == Spec => []IInv
<1>1. Init => IInv
  BY InitIInv
<1>2. IInv /\ [Next]_vars => IInv'
  BY NextIInv
<1> QED  BY <1>1, <1>2, PTL DEF Spec

\* Type correctness; what is subtracted from the allocated total is never more
\* than it, so the unsigned counter does not wrap.
THEOREM QuotaTypes == Spec => []TypeOK
<1>1. IInv => TypeOK
  BY DEF IInv
<1> QED  BY <1>1, QuotaInvariant, PTL

\* The allocated total is the whole units of the quotas that are stored.
THEOREM QuotaAccounting == Spec => []Accounting
<1>1. IInv => Accounting
  BY DEF IInv
<1> QED  BY <1>1, QuotaInvariant, PTL

\* The quotas exceed the total by less than a unit for each tenant but one: a
\* thousandth short of a unit is what each can hide from the allocated total.
THEOREM QuotaOvercommit == Spec => []OvercommitBounded
<1>1. IInv => OvercommitBounded
  <2> SUFFICES ASSUME IInv, Tracked # {}
               PROVE  HandedOut <= 1000 * total + 999 * (Cardinality(Tracked) - 1)
    BY DEF OvercommitBounded
  <2> DEFINE f == Thousandths
             n == Cardinality(Tracked)
  <2>1. /\ Amounts(f) /\ DOMAIN f = Tracked
        /\ \A t \in Tracked : f[t] = stats[t].quota % 1000
    BY DEF IInv, SumInv, Thousandths
  <2>2. \A t \in Tracked : f[t] <= 999
    BY <2>1 DEF IInv, TypeOK
  <2>3. total \in Nat /\ allocatedTotal \in Nat /\ allocatedTotal <= total
    BY DEF IInv, TypeOK, LastUnit
  <2>4. HandedOut = 1000 * allocatedTotal + SumOver(f)
    BY DEF HandedOut, IInv, Accounting
  <2>5. IsFiniteSet(Tracked) /\ n \in Nat /\ n # 0
    BY <2>1, FS_CardinalityType, FS_EmptySet DEF Amounts
  <2>6. SumOver(f) \in Nat
    BY <2>1, SumType
  <2> HIDE DEF f, n
  <2>7. CASE allocatedTotal < total
    <3>1. SumOver(f) <= 999 * n
      BY <2>1, <2>2, SumBound DEF n
    <3> QED  BY <2>3, <2>4, <2>5, <2>6, <2>7, <3>1 DEF n
  <2>8. CASE allocatedTotal = total /\ total > 0
    <3>1. PICK u \in Tracked : f[u] = 0
      BY <2>1, <2>8 DEF IInv, LastUnit
    <3>2. Cardinality(Tracked \ {u}) = n - 1
      BY <2>5, FS_RemoveElement DEF n
    <3>3. SumOver(f) <= 999 * Cardinality(Tracked \ {u})
      BY <2>1, <2>2, <3>1, SumBound
    <3> QED  BY <2>3, <2>4, <2>5, <2>6, <2>8, <3>2, <3>3 DEF n
  <2>9. CASE total = 0
    <3>1. \A t \in Tracked : f[t] = 0
      BY <2>1, <2>9 DEF IInv, LastUnit
    <3>2. SumOver(f) <= 999 * Cardinality({})
      BY <2>1, <2>2, <3>1, SumBound
    <3>3. Cardinality({}) = 0
      BY FS_EmptySet
    <3> QED  BY <2>3, <2>4, <2>5, <2>6, <2>9, <3>2, <3>3 DEF n
  <2> QED  BY <2>3, <2>7, <2>8, <2>9
<1> QED  BY <1>1, QuotaInvariant, PTL
================================================================================
