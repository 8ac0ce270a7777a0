------------------------- MODULE TenantLifecycleProofs -------------------------
(***************************************************************************)
(* Theorems about TenantLifecycle, for every value of its constants.       *)
(*                                                                         *)
(* What a registered tenant owns is only claimed while the mutex is free,  *)
(* which is not inductive: IInv says what the call in progress has made or *)
(* has still to release at each of its steps (Progress, Shares), and that  *)
(* every other registered tenant has its shares.                           *)
(***************************************************************************)
EXTENDS TenantLifecycle, TLAPS

InAdmin(c) == client[c].at \in AdminLabels
AtAny(c, S) == client[c].at \in S

\* Groups and monitor entries belong to registered tenants, at every step.
Owned == Grouped \subseteq Registered /\ monitored \subseteq Registered

\* The call of c: its tenant is registered, has no monitor entry or group that
\* c has not made itself, and what is left of them is still to be released.
Progress(c) ==
  /\ Of(c) \in Registered
  /\ AtAny(c, {"allocCpu", "allocMem", "allocDisk", "register"}) => Of(c) \notin monitored
  /\ AtAny(c, {"allocCpu", "allocMem", "allocDisk", "register", "makeGroup"}) => Of(c) \notin Grouped
  /\ AtAny(c, {"release"}) =>
       /\ "erase" \in client[c].todo
       /\ Of(c) \in monitored => "monitor" \in client[c].todo
       /\ Of(c) \in Grouped => "group" \in client[c].todo

\* The shares that the call of c has allocated, or found.
Shares(c) ==
  /\ AtAny(c, {"allocMem", "allocDisk", "register", "makeGroup", "resize"}) => Of(c) \in Allocated
  /\ AtAny(c, {"allocDisk", "register", "makeGroup", "resize"}) => Of(c) \in memory
  /\ AtAny(c, {"register", "makeGroup", "resize"}) => Of(c) \in disk
  /\ AtAny(c, {"makeGroup", "resize"}) => Of(c) \in monitored

BusyTenants == {Of(c) : c \in {d \in Clients : InAdmin(d)}}

\* Once no server is initialised under its tenants, nobody but removeTenant
\* takes a share away.
SharesKept ==
  /\ \A c \in Clients : InAdmin(c) => Shares(c)
  /\ \A t \in Registered \ BusyTenants : HoldsShares(t)

\* Whoever is not idle is busy with a tenant.
Named ==
  /\ \A c \in Clients : client[c].at # "idle" => Of(c) \in Tenants
  /\ mon.at = "update" => mon.target \in Tenants

IInv == /\ TypeOK /\ Named /\ Owned
        /\ \A c \in Clients : InAdmin(c) => Progress(c)
        /\ ~LateInit => SharesKept
-------------------------------------------------------------------------------
(***************************************************************************)
(* The maps of the code                                                    *)
(***************************************************************************)

\* m[x] = v: one more entry at most.
LEMMA WithFacts ==
  ASSUME NEW R, NEW f, f \in [DOMAIN f -> R], NEW x, NEW v \in R
  PROVE  DOMAIN With(f, x, v) = DOMAIN f \cup {x} /\ With(f, x, v) \in [DOMAIN f \cup {x} -> R]
BY DEF With

\* m.erase(x): one entry less at most.
LEMMA WithoutFacts ==
  ASSUME NEW R, NEW f, f \in [DOMAIN f -> R], NEW x
  PROVE  DOMAIN Without(f, x) = DOMAIN f \ {x} /\ Without(f, x) \in [DOMAIN f \ {x} -> R]
BY DEF Without
-------------------------------------------------------------------------------
(***************************************************************************)
(* What a step has to show, by the part it plays in an admin call          *)
(***************************************************************************)

\* The mutex lets one client at a time into an admin call.
LEMMA OneHolder ==
  ASSUME TypeOK, NEW c \in Clients, InAdmin(c)
  PROVE  lock = c /\ \A d \in Clients : InAdmin(d) => d = c
BY DEF TypeOK, InAdmin

LEMMA NoHolder ==
  ASSUME TypeOK, lock = NoClient
  PROVE  \A c \in Clients : ~InAdmin(c)
BY LifecycleAssumption DEF TypeOK, InAdmin

\* Requests, the monitor and the servers leave the call in progress alone and
\* take no share away while there are tenants.
LEMMA BystanderIInv ==
  ASSUME IInv, TypeOK', Named', UNCHANGED <<tenants, monitored>>,
         Grouped' \subseteq Grouped, Allocated \subseteq Allocated',
         \A c \in Clients : InAdmin(c) \/ InAdmin(c)' => client'[c] = client[c],
         ~LateInit => Registered = {} \/ (memory \subseteq memory' /\ disk \subseteq disk')
  PROVE  IInv'
<1> USE DEF IInv
<1>1. Registered' = Registered
  BY DEF Registered
<1>2. \A c \in Clients : InAdmin(c)' <=> InAdmin(c)
  BY DEF InAdmin
<1>3. \A c \in Clients : InAdmin(c) => Of(c)' = Of(c)
  BY DEF Of
<1>4. Owned'
  BY <1>1 DEF Owned
<1>5. \A c \in Clients : InAdmin(c)' => Progress(c)'
  BY <1>1, <1>2, <1>3 DEF Progress, AtAny
<1>6. ~LateInit => SharesKept'
  <2> SUFFICES ASSUME ~LateInit PROVE SharesKept'
    OBVIOUS
  <2>1. CASE Registered = {}
    BY <1>1, <1>2, <2>1 DEF Progress, SharesKept
  <2>2. CASE memory \subseteq memory' /\ disk \subseteq disk'
    <3>1. \A c \in Clients : InAdmin(c)' => Shares(c)'
      BY <1>2, <1>3, <2>2 DEF SharesKept, Shares, AtAny
    <3>2. BusyTenants' = BusyTenants
      BY <1>2, <1>3 DEF BusyTenants
    <3>3. \A t \in Registered : HoldsShares(t) => HoldsShares(t)'
      BY <2>2 DEF HoldsShares
    <3> QED  BY <1>1, <3>1, <3>2, <3>3 DEF SharesKept
  <2> QED  BY <2>1, <2>2
<1> QED  BY <1>4, <1>5, <1>6

\* A call begins: it owes nothing yet, and the others' shares stay.
LEMMA BeginOfCall ==
  ASSUME IInv, TypeOK', Named', NEW c \in Clients, lock = NoClient, InAdmin(c)',
         \A d \in Clients \ {c} : client'[d] = client[d],
         UNCHANGED <<cpu, memory, disk, monitored, groups>>,
         Registered' = Registered \cup {Of(c)'}, Progress(c)', ~LateInit => Shares(c)'
  PROVE  IInv'
<1> USE DEF IInv
<1>1. \A d \in Clients : InAdmin(d)' => d = c
  BY NoHolder DEF InAdmin
<1>2. Owned'
  BY DEF Owned, Grouped
<1>3. ~LateInit => SharesKept'
  <2>1. BusyTenants = {} /\ BusyTenants' = {Of(c)'}
    BY <1>1, NoHolder DEF BusyTenants
  <2>2. \A t \in Registered : HoldsShares(t) => HoldsShares(t)'
    BY DEF HoldsShares, Allocated
  <2> QED  BY <1>1, <2>1, <2>2 DEF SharesKept
<1> QED  BY <1>1, <1>2, <1>3

\* A call goes on: it answers for its own tenant only.
LEMMA StepOfCall ==
  ASSUME IInv, TypeOK', Named', NEW c \in Clients, InAdmin(c), InAdmin(c)',
         \A d \in Clients \ {c} : client'[d] = client[d],
         Of(c)' = Of(c), Registered' = Registered,
         Owned', Progress(c)', ~LateInit => (Shares(c) => Shares(c)'),
         \A t \in Tenants \ {Of(c)} : HoldsShares(t) => HoldsShares(t)'
  PROVE  IInv'
<1> USE DEF IInv
<1>1. \A d \in Clients : InAdmin(d)' => d = c
  BY OneHolder DEF InAdmin
<1>2. ~LateInit => SharesKept'
  <2>1. BusyTenants = {Of(c)} /\ BusyTenants' = {Of(c)'}
    BY <1>1, OneHolder DEF BusyTenants
  <2>2. Registered \subseteq Tenants
    BY DEF TypeOK
  <2> QED  BY <1>1, <2>1, <2>2 DEF SharesKept
<1> QED  BY <1>1, <1>2

\* A call ends: its tenant is gone or has its shares.
LEMMA EndOfCall ==
  ASSUME IInv, TypeOK', Named', NEW c \in Clients, NEW u \in Tenants, u = Of(c),
         InAdmin(c), ~InAdmin(c)',
         \A d \in Clients \ {c} : client'[d] = client[d],
         Registered' \subseteq Registered, Owned',
         ~LateInit /\ Shares(c) /\ u \in Registered' => HoldsShares(u)',
         \A t \in Tenants \ {u} : HoldsShares(t) => HoldsShares(t)'
  PROVE  IInv'
<1> USE DEF IInv
<1>1. \A d \in Clients : ~InAdmin(d)'
  BY OneHolder DEF InAdmin
<1>2. ~LateInit => SharesKept'
  <2> SUFFICES ASSUME ~LateInit PROVE SharesKept'
    OBVIOUS
  <2>1. BusyTenants = {u} /\ Registered' \subseteq Tenants
    BY OneHolder DEF BusyTenants, TypeOK
  <2>2. ASSUME NEW t \in Registered' PROVE HoldsShares(t)'
    <3>1. CASE t = u
      BY <2>1, <3>1 DEF SharesKept
    <3>2. CASE t # u
      BY <2>1, <2>2, <3>2 DEF SharesKept
    <3> QED  BY <3>1, <3>2
  <2> QED  BY <1>1, <2>2 DEF SharesKept
<1> QED  BY <1>1, <1>2
-------------------------------------------------------------------------------
(***************************************************************************)
(* How a client moves                                                      *)
(***************************************************************************)

\* c alone moves, to a state that has the right type.
Moves(c) == /\ client' \in [Clients -> ClientType]
            /\ \A d \in Clients \ {c} : client'[d] = client[d]

LEMMA GotoFacts ==
  ASSUME TypeOK, NEW c \in Clients, NEW label \in Labels, Goto(c, label)
  PROVE  Moves(c) /\ client'[c].at = label /\ Of(c)' = Of(c)
BY DEF TypeOK, ClientType, Goto, Moves, Of

LEMMA ReturnFacts ==
  ASSUME TypeOK, NEW c \in Clients, Return(c)
  PROVE  Moves(c) /\ client'[c].at = "idle"
BY DEF TypeOK, ClientType, Return, Moves, IdleClient, Labels

LEMMA RollbackFacts ==
  ASSUME TypeOK, NEW c \in Clients, NEW done \in SUBSET Releases, Rollback(c, done)
  PROVE  /\ Moves(c) /\ client'[c].at = "release" /\ Of(c)' = Of(c)
         /\ client'[c].todo = done \cup {"erase"}
<1>1. "erase" \in Releases /\ "release" \in Labels
  BY DEF Releases, Labels, AdminLabels
<1>2. done \cup {"erase"} \in SUBSET Releases
  BY <1>1
<1> QED  BY <1>1, <1>2 DEF TypeOK, ClientType, Rollback, Moves, Of

\* A call of c begins for tenant t.
LEMMA EnterFacts ==
  ASSUME TypeOK, NEW c \in Clients, NEW t \in Tenants, NEW label \in Labels,
         client' = [client EXCEPT ![c].at = label, ![c].tenant = t]
  PROVE  Moves(c) /\ client'[c].at = label /\ Of(c)' = t
BY DEF TypeOK, ClientType, Moves, Of

LEMMA EndRequestFacts ==
  ASSUME TypeOK, NEW c \in Clients, EndRequest(c)
  PROVE  Moves(c) /\ client'[c].at = "ready" /\ Of(c)' = Of(c)
<1>1. "ready" \in Labels
  BY DEF Labels
<1> QED  BY <1>1 DEF TypeOK, ClientType, EndRequest, Moves, Of

\* The mutex stays with its holder when c stays inside a call, or outside.
LEMMA LockKept ==
  ASSUME TypeOK, NEW c \in Clients, Moves(c), lock' = lock, InAdmin(c)' <=> InAdmin(c)
  PROVE  \A d \in Clients : client'[d].at \in AdminLabels <=> lock' = d
BY DEF TypeOK, Moves, InAdmin

\* c leaves its call and the mutex.
LEMMA LockFreed ==
  ASSUME TypeOK, NEW c \in Clients, Moves(c), InAdmin(c), ~InAdmin(c)', Unlock
  PROVE  /\ lock' \in Clients \cup {NoClient}
         /\ \A d \in Clients : client'[d].at \in AdminLabels <=> lock' = d
BY OneHolder, LifecycleAssumption DEF TypeOK, Moves, InAdmin, Unlock

\* c enters a call and has the mutex.
LEMMA LockTaken ==
  ASSUME TypeOK, NEW c \in Clients, Moves(c), lock = NoClient, InAdmin(c)', lock' = c
  PROVE  /\ lock' \in Clients \cup {NoClient}
         /\ \A d \in Clients : client'[d].at \in AdminLabels <=> lock' = d
BY NoHolder DEF TypeOK, Moves, InAdmin

\* c goes on with the same tenant, or has none.
LEMMA NamedKept ==
  ASSUME Named, NEW c \in Clients, Moves(c), mon' = mon,
         client'[c].at = "idle" \/ Of(c)' \in Tenants
  PROVE  Named'
BY DEF Named, Moves, Of

\* Inside a call there is a tenant.
LEMMA TenantOf ==
  ASSUME Named, NEW c \in Clients, client[c].at # "idle"
  PROVE  Of(c) \in Tenants
BY DEF Named
-------------------------------------------------------------------------------
(***************************************************************************)
(* Connections and requests                                                *)
(***************************************************************************)
Usages == {"neg", "ok", "high"}

\* What any step of a connection or a request does to the state.
LEMMA BystanderMove ==
  ASSUME IInv, NEW c \in Clients, Moves(c), ~InAdmin(c), ~InAdmin(c)',
         client'[c].at = "idle" \/ Of(c)' \in Tenants,
         UNCHANGED <<lock, tenants, disk, monitored, pool, mon, crashed>>,
         Allocated \subseteq Allocated', Allocated' \subseteq Tenants,
         cpu' \in [Allocated' -> Usages],
         memory \subseteq memory', memory' \subseteq Tenants
  PROVE  IInv'
<1>1. TypeOK'
  <2>1. \A d \in Clients : client'[d].at \in AdminLabels <=> lock' = d
    BY LockKept DEF IInv
  <2> QED  BY <2>1 DEF IInv, TypeOK, Usages, Moves, Registered, Grouped, pool
<1>2. Named'
  BY NamedKept DEF IInv
<1>3. \A d \in Clients : InAdmin(d) \/ InAdmin(d)' => client'[d] = client[d]
  BY DEF Moves
<1>4. Grouped' \subseteq Grouped
  BY DEF Grouped, pool
<1> QED  BY <1>1, <1>2, <1>3, <1>4, BystanderIInv

LEMMA ConnectIInv ==
  ASSUME IInv, NEW c \in Clients,
         \/ \E t \in Tenants : Authenticate(c, t)
         \/ ConnectUsage(c) \/ ConnectQuota(c) \/ ConnectFetch(c) \/ Disconnect(c)
         \/ RequestCpu(c) \/ RequestMemory(c) \/ RequestCheck(c) \/ RequestSubmit(c)
  PROVE  IInv'
<1> DEFINE Frame == /\ UNCHANGED <<lock, tenants, managers, pool, mon, crashed>>
                    /\ ~InAdmin(c)
<1>1. ASSUME Frame, Moves(c), ~InAdmin(c)', client'[c].at = "idle" \/ Of(c)' \in Tenants
      PROVE  IInv'
  <2>1. cpu' \in [Allocated' -> Usages] /\ Allocated' = Allocated /\ Allocated \subseteq Tenants
    BY <1>1 DEF IInv, TypeOK, Usages, Allocated, managers
  <2>2. memory' = memory /\ memory \subseteq Tenants
    BY <1>1 DEF IInv, TypeOK, managers
  <2>3. UNCHANGED <<lock, tenants, disk, monitored, pool, mon, crashed>>
    BY <1>1 DEF managers
  <2> QED  BY <1>1, <2>1, <2>2, <2>3, BystanderMove
<1>2. ASSUME NEW t \in Tenants, Authenticate(c, t)
      PROVE  IInv'
  <2>1. Moves(c) /\ client'[c].at = "connUsage" /\ Of(c)' = t
    BY <1>2, EnterFacts DEF IInv, Authenticate, Labels
  <2>2. Frame
    BY <1>2 DEF Authenticate, At, InAdmin, AdminLabels
  <2> QED  BY <1>1, <2>1, <2>2 DEF InAdmin, AdminLabels
<1>3. ASSUME NEW label \in Labels \ AdminLabels, Goto(c, label), Frame, client[c].at # "idle"
      PROVE  IInv'
  <2>1. Moves(c) /\ client'[c].at = label /\ Of(c)' = Of(c)
    BY <1>3, GotoFacts DEF IInv
  <2> QED  BY <1>1, <1>3, <2>1, TenantOf DEF IInv, InAdmin
<1>4. ASSUME Return(c), Frame
      PROVE  IInv'
  <2>1. Moves(c) /\ client'[c].at = "idle"
    BY <1>4, ReturnFacts DEF IInv
  <2> QED  BY <1>1, <1>4, <2>1 DEF InAdmin, AdminLabels
<1>5. ASSUME EndRequest(c), Frame, client[c].at # "idle"
      PROVE  IInv'
  <2>1. Moves(c) /\ client'[c].at = "ready" /\ Of(c)' = Of(c)
    BY <1>5, EndRequestFacts DEF IInv
  <2> QED  BY <1>1, <1>5, <2>1, TenantOf DEF IInv, InAdmin, AdminLabels
<1>6. {"connQuota", "connFetch", "ready", "reqCheck", "reqAllocMem", "reqSubmit", "reqUpdate"}
        \subseteq Labels \ AdminLabels
  BY DEF Labels, AdminLabels, RequestLabels
<1>7. ASSUME ConnectUsage(c) \/ ConnectQuota(c) \/ ConnectFetch(c) \/ Disconnect(c)
      PROVE  IInv'
  <2>1. Frame /\ client[c].at # "idle"
    BY <1>7 DEF ConnectUsage, ConnectQuota, ConnectFetch, Disconnect, At, InAdmin, AdminLabels
  <2>2. Return(c) \/ Goto(c, "connQuota") \/ Goto(c, "connFetch") \/ Goto(c, "ready")
    BY <1>7 DEF ConnectUsage, ConnectQuota, ConnectFetch, Disconnect
  <2> QED  BY <1>3, <1>4, <1>6, <2>1, <2>2
<1>8. ASSUME RequestMemory(c) \/ RequestCheck(c) \/ RequestSubmit(c)
      PROVE  IInv'
  <2>1. Frame /\ client[c].at # "idle"
    BY <1>8 DEF RequestMemory, RequestCheck, RequestSubmit, At, InAdmin, AdminLabels
  <2>2. \/ EndRequest(c) \/ Goto(c, "reqCheck") \/ Goto(c, "reqAllocMem")
        \/ Goto(c, "reqSubmit") \/ Goto(c, "reqUpdate")
    BY <1>8 DEF RequestMemory, RequestCheck, RequestSubmit
  <2> QED  BY <1>3, <1>5, <1>6, <2>1, <2>2
<1>9. ASSUME RequestCpu(c)
      PROVE  IInv'
  <2>1. Frame /\ client[c].at # "idle"
    BY <1>9 DEF RequestCpu, At, InAdmin, AdminLabels
  <2> DEFINE u == IF Of(c) \in Allocated THEN cpu[Of(c)] ELSE "none"
             label == IF u = "ok" THEN "reqMem" ELSE "reqAllocCpu"
  <2>2. client' = [client EXCEPT ![c].usage = u, ![c].at = label]
    BY <1>9 DEF RequestCpu
  <2>3. u \in {"none", "neg", "ok", "high"} /\ label \in Labels \ AdminLabels
    BY DEF IInv, TypeOK, Labels, RequestLabels, AdminLabels
  <2> HIDE DEF u, label
  <2>4. Moves(c) /\ client'[c].at = label /\ Of(c)' = Of(c)
    BY <2>2, <2>3 DEF IInv, TypeOK, ClientType, Moves, Of
  <2> QED  BY <1>1, <2>1, <2>3, <2>4, TenantOf DEF IInv, InAdmin
<1> QED  BY <1>2, <1>7, <1>8, <1>9

\* The steps of a request that store something: entries are only added.
LEMMA RequestStoresIInv ==
  ASSUME IInv, NEW c \in Clients,
         RequestAllocCpu(c) \/ RequestAllocMemory(c) \/ RequestUpdate(c)
  PROVE  IInv'
<1>1. ~InAdmin(c) /\ client[c].at # "idle"
  BY DEF RequestAllocCpu, RequestAllocMemory, RequestUpdate, At, InAdmin, AdminLabels
<1>2. Of(c) \in Tenants
  BY <1>1, TenantOf DEF IInv
<1>3. UNCHANGED <<lock, tenants, disk, monitored, pool, mon, crashed>>
  BY DEF RequestAllocCpu, RequestAllocMemory, RequestUpdate
<1>4. \/ EndRequest(c) \/ Goto(c, "reqMem") \/ Goto(c, "reqCheck")
  BY DEF RequestAllocCpu, RequestAllocMemory, RequestUpdate
<1>5. {"reqMem", "reqCheck"} \subseteq Labels \ AdminLabels
  BY DEF Labels, AdminLabels, RequestLabels
<1>6. Moves(c) /\ ~InAdmin(c)' /\ Of(c)' \in Tenants
  BY <1>2, <1>4, <1>5, GotoFacts, EndRequestFacts DEF IInv, InAdmin, AdminLabels
<1>7. cpu \in [Allocated -> Usages] /\ Allocated \subseteq Tenants /\ memory \subseteq Tenants
  BY DEF IInv, TypeOK, Usages
<1>8. cpu' = cpu \/ \E u \in Usages : cpu' = With(cpu, Of(c), u)
  <2>1. \A u : Increment(u) \subseteq Usages
    BY DEF Increment, Usages
  <2> QED  BY <2>1 DEF RequestAllocCpu, RequestAllocMemory, RequestUpdate, Usages
<1> DEFINE Grown == /\ Allocated \subseteq Allocated' /\ Allocated' \subseteq Tenants
                    /\ cpu' \in [Allocated' -> Usages]
<1>9. Grown
  <2>1. CASE cpu' = cpu
    BY <1>7, <2>1 DEF Allocated
  <2>2. ASSUME NEW u \in Usages, cpu' = With(cpu, Of(c), u)
        PROVE  Grown
    <3>1. /\ DOMAIN With(cpu, Of(c), u) = Allocated \cup {Of(c)}
          /\ With(cpu, Of(c), u) \in [Allocated \cup {Of(c)} -> Usages]
      BY <1>7, <2>2, WithFacts DEF Allocated
    <3> QED  BY <1>2, <1>7, <2>2, <3>1 DEF Allocated
  <2> QED  BY <1>8, <2>1, <2>2
<1>10. memory \subseteq memory' /\ memory' \subseteq Tenants
  BY <1>2, <1>7 DEF RequestAllocCpu, RequestAllocMemory, RequestUpdate
<1> QED  BY <1>1, <1>3, <1>6, <1>9, <1>10, BystanderMove
-------------------------------------------------------------------------------
(***************************************************************************)
(* The monitor and the servers                                             *)
(***************************************************************************)
LEMMA MonitorIInv ==
  ASSUME IInv, MonitorStep
  PROVE  IInv'
<1> USE DEF IInv
<1>1. UNCHANGED <<lock, tenants, memory, disk, monitored, pool, client, crashed>>
  BY DEF MonitorStep, MonitorPass, MonitorPick, MonitorUpdate, MonitorSleep, managers
<1>2. /\ Allocated \subseteq Allocated' /\ Allocated' \subseteq Tenants
      /\ cpu' \in [Allocated' -> Usages]
  <2>1. cpu \in [Allocated -> Usages] /\ Allocated \subseteq Tenants
    BY DEF TypeOK, Usages
  <2>2. CASE cpu' = cpu
    BY <2>1, <2>2 DEF Allocated
  <2>3. CASE MonitorUpdate
    <3>1. mon.target \in Tenants
      BY <2>3 DEF Named, MonitorUpdate
    <3>2. PICK u \in Usages : cpu' = With(cpu, mon.target, u)
      BY <2>3 DEF MonitorUpdate, Usages
    <3>3. /\ DOMAIN With(cpu, mon.target, u) = Allocated \cup {mon.target}
          /\ With(cpu, mon.target, u) \in [Allocated \cup {mon.target} -> Usages]
      BY <2>1, <3>2, WithFacts DEF Allocated
    <3> HIDE DEF IInv
    <3> QED  BY <2>1, <3>1, <3>2, <3>3 DEF Allocated
  <2> QED  BY <2>2, <2>3 DEF MonitorStep, MonitorPass, MonitorPick, MonitorSleep, managers
<1> DEFINE MonType == [at : {"sleep", "loop", "update"}, target : Tenants \cup {NoTenant},
                       seen : SUBSET Tenants]
<1>3. mon' \in MonType /\ (mon'.at = "update" => mon'.target \in Tenants)
  <2>1. mon \in MonType
    BY DEF TypeOK
  <2>2. CASE MonitorPass \/ MonitorSleep
    BY <2>2 DEF MonitorPass, MonitorSleep
  <2>3. ASSUME NEW t \in Tenants, MonitorPick(t)
        PROVE  mon' \in MonType /\ mon'.target \in Tenants
    <3>1. mon.seen \cup {t} \in SUBSET Tenants
      BY <2>1
    <3>2. mon' = [at |-> "update", target |-> t, seen |-> mon.seen \cup {t}]
      BY <2>3 DEF MonitorPick
    <3> QED  BY <3>1, <3>2
  <2>4. CASE MonitorUpdate
    BY <2>1, <2>4 DEF MonitorUpdate
  <2> QED  BY <2>2, <2>3, <2>4 DEF MonitorStep
<1>4. TypeOK'
  BY <1>1, <1>2, <1>3 DEF TypeOK, Usages, Registered, Grouped, pool
<1>5. Named'
  BY <1>1, <1>3 DEF Named, Of
<1>6. Grouped' \subseteq Grouped
  BY <1>1 DEF Grouped, pool
<1> QED  BY <1>1, <1>2, <1>4, <1>5, <1>6, BystanderIInv

LEMMA ServerIInv ==
  ASSUME IInv, ServerStep
  PROVE  IInv'
<1> USE DEF IInv, ServerStep, PoolInitialize, ServerInitialize, DataInitialize, ServerStart,
            PoolShutdown, ServerStop
<1>1. UNCHANGED <<lock, tenants, cpu, monitored, client, mon, crashed>>
  BY DEF managers
<1>2. memory' \in {memory, {}} /\ disk' \in {disk, {}} /\ groups' \in {groups, <<>>}
  BY DEF managers, pool
<1>3. poolReady' \in BOOLEAN /\ serving' \in BOOLEAN
  BY DEF TypeOK, pool
<1>4. ~LateInit => Registered = {} \/ (memory \subseteq memory' /\ disk \subseteq disk')
  BY DEF MayInitialize, managers
<1> HIDE DEF ServerStep, PoolInitialize, ServerInitialize, DataInitialize, ServerStart,
             PoolShutdown, ServerStop
<1>5. Grouped' \subseteq Grouped /\ groups' \in [Grouped' -> Quotas]
  <2>1. CASE groups' = groups
    BY <2>1 DEF TypeOK, Grouped
  <2>2. CASE groups' = <<>>
    BY <2>2 DEF Grouped
  <2> QED  BY <1>2, <2>1, <2>2
<1>6. TypeOK'
  BY <1>1, <1>2, <1>3, <1>5 DEF TypeOK, Registered, Allocated
<1>7. Named'
  BY <1>1 DEF Named, Of
<1> QED  BY <1>1, <1>4, <1>5, <1>6, <1>7, BystanderIInv DEF Allocated
-------------------------------------------------------------------------------
(***************************************************************************)
(* TenantManager: a call begins                                            *)
(***************************************************************************)
LEMMA BeginCreateIInv ==
  ASSUME IInv, NEW c \in Clients, NEW t \in Tenants, NEW q \in Quotas, BeginCreate(c, t, q)
  PROVE  IInv'
<1>1. /\ lock = NoClient /\ lock' = c /\ t \notin Registered /\ tenants' = With(tenants, t, q)
      /\ client' = [client EXCEPT ![c].at = "allocCpu", ![c].tenant = t]
      /\ UNCHANGED <<cpu, memory, disk, monitored, poolReady, groups, serving, mon, crashed>>
  BY DEF BeginCreate, managers, pool
<1>2. "allocCpu" \in Labels /\ "allocCpu" \in AdminLabels
  BY DEF Labels, AdminLabels
<1>3. Moves(c) /\ client'[c].at = "allocCpu" /\ Of(c)' = t
  BY <1>1, <1>2, EnterFacts DEF IInv
<1>4. InAdmin(c)'
  BY <1>2, <1>3 DEF InAdmin
<1>5. Registered' = Registered \cup {t} /\ tenants' \in [Registered' -> Quotas]
  <2>1. tenants \in [DOMAIN tenants -> Quotas]
    BY DEF IInv, TypeOK, Registered
  <2>2. /\ DOMAIN With(tenants, t, q) = DOMAIN tenants \cup {t}
        /\ With(tenants, t, q) \in [DOMAIN tenants \cup {t} -> Quotas]
    BY <2>1, WithFacts
  <2> QED  BY <1>1, <2>2 DEF Registered
<1>6. TypeOK'
  <2>1. /\ lock' \in Clients \cup {NoClient}
        /\ \A d \in Clients : client'[d].at \in AdminLabels <=> lock' = d
    BY <1>1, <1>3, <1>4, LockTaken DEF IInv
  <2> QED  BY <1>1, <1>3, <1>5, <2>1 DEF IInv, TypeOK, Moves, Allocated, Grouped
<1>7. Named'
  BY <1>1, <1>3, NamedKept DEF IInv
<1>8. Progress(c)'
  BY <1>1, <1>3, <1>5 DEF IInv, Owned, Progress, AtAny, Grouped
<1>9. Shares(c)'
  BY <1>3 DEF Shares, AtAny
<1> QED  BY <1>1, <1>3, <1>4, <1>5, <1>6, <1>7, <1>8, <1>9, BeginOfCall DEF Moves

LEMMA BeginUpdateIInv ==
  ASSUME IInv, NEW c \in Clients, NEW t \in Tenants, NEW q \in Quotas, BeginUpdate(c, t, q)
  PROVE  IInv'
<1>1. /\ lock = NoClient /\ lock' = c /\ t \in Registered
      /\ tenants' = [tenants EXCEPT ![t] = q]
      /\ client' = [client EXCEPT ![c].at = "resize", ![c].tenant = t]
      /\ UNCHANGED <<cpu, memory, disk, monitored, poolReady, groups, serving, mon, crashed>>
  BY DEF BeginUpdate, managers, pool
<1>2. "resize" \in Labels /\ "resize" \in AdminLabels
  BY DEF Labels, AdminLabels
<1>3. Moves(c) /\ client'[c].at = "resize" /\ Of(c)' = t
  BY <1>1, <1>2, EnterFacts DEF IInv
<1>4. InAdmin(c)'
  BY <1>2, <1>3 DEF InAdmin
<1>5. Registered' = Registered \cup {t} /\ tenants' \in [Registered' -> Quotas]
  BY <1>1 DEF IInv, TypeOK, Registered
<1>6. TypeOK'
  <2>1. /\ lock' \in Clients \cup {NoClient}
        /\ \A d \in Clients : client'[d].at \in AdminLabels <=> lock' = d
    BY <1>1, <1>3, <1>4, LockTaken DEF IInv
  <2> QED  BY <1>1, <1>3, <1>5, <2>1 DEF IInv, TypeOK, Moves, Allocated, Grouped
<1>7. Named'
  BY <1>1, <1>3, NamedKept DEF IInv
<1>8. Progress(c)'
  BY <1>3, <1>5 DEF Progress, AtAny
<1>9. ~LateInit => Shares(c)'
  <2>1. BusyTenants = {}
    BY <1>1, NoHolder DEF IInv, BusyTenants
  <2>2. ~LateInit => HoldsShares(t)
    BY <1>1, <2>1 DEF IInv, SharesKept
  <2> QED  BY <1>1, <1>3, <2>2 DEF Shares, AtAny, HoldsShares, Allocated
<1> QED  BY <1>1, <1>3, <1>4, <1>5, <1>6, <1>7, <1>8, <1>9, BeginOfCall DEF Moves

LEMMA BeginRemoveIInv ==
  ASSUME IInv, NEW c \in Clients, NEW t \in Tenants, BeginRemove(c, t)
  PROVE  IInv'
<1>1. /\ lock = NoClient /\ lock' = c /\ t \in Registered
      /\ client' = [client EXCEPT ![c].at = "release", ![c].tenant = t, ![c].todo = Releases]
      /\ UNCHANGED <<tenants, cpu, memory, disk, monitored, poolReady, groups, serving, mon, crashed>>
  BY DEF BeginRemove, managers, pool
<1>2. "release" \in Labels /\ "release" \in AdminLabels
  BY DEF Labels, AdminLabels
<1>3. Moves(c) /\ client'[c].at = "release" /\ Of(c)' = t /\ client'[c].todo = Releases
  BY <1>1, <1>2 DEF IInv, TypeOK, ClientType, Moves, Of
<1>4. InAdmin(c)'
  BY <1>2, <1>3 DEF InAdmin
<1>5. Registered' = Registered \cup {t}
  BY <1>1 DEF Registered
<1>6. TypeOK'
  <2>1. /\ lock' \in Clients \cup {NoClient}
        /\ \A d \in Clients : client'[d].at \in AdminLabels <=> lock' = d
    BY <1>1, <1>3, <1>4, LockTaken DEF IInv
  <2> QED  BY <1>1, <1>3, <2>1 DEF IInv, TypeOK, Moves, Allocated, Grouped, Registered
<1>7. Named'
  BY <1>1, <1>3, NamedKept DEF IInv
<1>8. Progress(c)'
  BY <1>3, <1>5 DEF Progress, AtAny, Releases
<1>9. Shares(c)'
  BY <1>3 DEF Shares, AtAny
<1> QED  BY <1>1, <1>3, <1>4, <1>5, <1>6, <1>7, <1>8, <1>9, BeginOfCall DEF Moves
-------------------------------------------------------------------------------
(***************************************************************************)
(* TenantManager: a call of createTenant goes on, or rolls back            *)
(***************************************************************************)

\* The call of c, its tenant and its mutex stay as they are; the managers'
\* maps keep their types.
LEMMA CallMove ==
  ASSUME IInv, NEW c \in Clients, InAdmin(c), InAdmin(c)', Moves(c), Of(c)' = Of(c),
         UNCHANGED <<lock, tenants, poolReady, serving, mon>>,
         Allocated' \subseteq Tenants, cpu' \in [Allocated' -> Usages],
         memory' \subseteq Tenants, disk' \subseteq Tenants,
         monitored' \subseteq Registered, Grouped' \subseteq Registered,
         groups' \in [Grouped' -> Quotas], crashed' \in BOOLEAN,
         Progress(c)', ~LateInit => (Shares(c) => Shares(c)'),
         \A t \in Tenants \ {Of(c)} : HoldsShares(t) => HoldsShares(t)'
  PROVE  IInv'
<1>1. Registered' = Registered /\ Registered \subseteq Tenants
  BY DEF Registered, IInv, TypeOK
<1>2. \A d \in Clients : client'[d].at \in AdminLabels <=> lock' = d
  BY LockKept DEF IInv
<1>3. TypeOK'
  BY <1>1, <1>2 DEF IInv, TypeOK, Moves, Usages, Registered
<1>4. Of(c) \in Tenants
  BY <1>1 DEF IInv, Progress
<1>5. Named'
  BY <1>4, NamedKept DEF IInv
<1>6. Owned'
  BY <1>1 DEF Owned
<1> QED  BY <1>1, <1>3, <1>5, <1>6, StepOfCall DEF Moves

\* What the state of a call in progress has to offer.
LEMMA InCall ==
  ASSUME IInv, NEW c \in Clients, client[c].at \in AdminLabels
  PROVE  /\ InAdmin(c) /\ lock = c /\ Progress(c)
         /\ Of(c) \in Registered /\ Of(c) \in Tenants
         /\ monitored \subseteq Registered /\ Grouped \subseteq Registered
         /\ Registered \subseteq Tenants /\ Allocated \subseteq Tenants
         /\ cpu \in [Allocated -> Usages] /\ groups \in [Grouped -> Quotas]
         /\ memory \subseteq Tenants /\ disk \subseteq Tenants
         /\ crashed \in BOOLEAN
<1>1. InAdmin(c) /\ lock = c
  BY DEF IInv, TypeOK, InAdmin
<1>2. Progress(c) /\ Registered \subseteq Tenants
  BY <1>1 DEF IInv, TypeOK
<1>3. Of(c) \in Registered
  BY <1>2 DEF Progress
<1> QED  BY <1>1, <1>2, <1>3 DEF IInv, TypeOK, Owned, Usages

LEMMA RollbackIInv ==
  ASSUME IInv, NEW c \in Clients, client[c].at \in AdminLabels,
         NEW done \in SUBSET Releases, Rollback(c, done),
         UNCHANGED <<lock, tenants, managers, pool, mon, crashed>>,
         Of(c) \in monitored => "monitor" \in done,
         Of(c) \notin Grouped
  PROVE  IInv'
<1>1. /\ Moves(c) /\ client'[c].at = "release" /\ Of(c)' = Of(c)
      /\ client'[c].todo = done \cup {"erase"}
  BY RollbackFacts DEF IInv
<1>2. InAdmin(c)'
  BY <1>1 DEF InAdmin, AdminLabels
<1>3. UNCHANGED <<cpu, memory, disk, monitored, groups, poolReady, serving>>
  BY DEF managers, pool
<1>4. Progress(c)'
  BY <1>1, <1>3, InCall DEF Progress, AtAny, Registered, Grouped
<1>5. Shares(c)'
  BY <1>1 DEF Shares, AtAny
<1>6. \A t \in Tenants : HoldsShares(t) => HoldsShares(t)'
  BY <1>3 DEF HoldsShares, Allocated
<1>7. Allocated' = Allocated /\ Grouped' = Grouped
  BY <1>3 DEF Allocated, Grouped
<1> QED  BY <1>1, <1>2, <1>3, <1>4, <1>5, <1>6, <1>7, InCall, CallMove

LEMMA CreateCpuIInv ==
  ASSUME IInv, NEW c \in Clients, CreateCpu(c)
  PROVE  IInv'
<1>1. client[c].at = "allocCpu" /\ client[c].at \in AdminLabels
  BY DEF CreateCpu, At, AdminLabels
<1>2. UNCHANGED <<lock, tenants, memory, disk, monitored, poolReady, groups, serving, mon, crashed>>
  BY DEF CreateCpu, pool
<1>3. Of(c) \notin monitored /\ Of(c) \notin Grouped
  BY <1>1, InCall DEF Progress, AtAny
<1>4. CASE Rollback(c, {}) /\ UNCHANGED cpu
  BY <1>1, <1>2, <1>3, <1>4, RollbackIInv DEF managers, pool
<1>5. CASE Goto(c, "allocMem") /\ cpu' = With(cpu, Of(c), "ok")
  <2>1. "allocMem" \in Labels /\ "allocMem" \in AdminLabels
    BY DEF Labels, AdminLabels
  <2>2. Moves(c) /\ client'[c].at = "allocMem" /\ Of(c)' = Of(c)
    BY <1>5, <2>1, GotoFacts DEF IInv
  <2>3. Allocated' = Allocated \cup {Of(c)} /\ cpu' \in [Allocated' -> Usages]
    <3>1. cpu \in [DOMAIN cpu -> Usages] /\ "ok" \in Usages
      BY <1>1, InCall DEF Allocated, Usages
    <3>2. /\ DOMAIN With(cpu, Of(c), "ok") = DOMAIN cpu \cup {Of(c)}
          /\ With(cpu, Of(c), "ok") \in [DOMAIN cpu \cup {Of(c)} -> Usages]
      BY <3>1, WithFacts
    <3> QED  BY <1>5, <3>2 DEF Allocated
  <2>4. Progress(c)'
    BY <1>1, <1>2, <1>3, <2>2, InCall DEF Progress, AtAny, Registered, Grouped
  <2>5. Shares(c)'
    BY <2>2, <2>3 DEF Shares, AtAny
  <2>6. \A t \in Tenants : HoldsShares(t) => HoldsShares(t)'
    BY <1>2, <2>3 DEF HoldsShares
  <2>7. Grouped' = Grouped /\ InAdmin(c)'
    BY <1>2, <2>1, <2>2 DEF Grouped, InAdmin
  <2> QED  BY <1>1, <1>2, <2>2, <2>3, <2>4, <2>5, <2>6, <2>7, InCall, CallMove
<1> QED  BY <1>4, <1>5 DEF CreateCpu

LEMMA CreateMemoryIInv ==
  ASSUME IInv, NEW c \in Clients, CreateMemory(c)
  PROVE  IInv'
<1>1. client[c].at = "allocMem" /\ client[c].at \in AdminLabels
  BY DEF CreateMemory, At, AdminLabels
<1>2. UNCHANGED <<lock, tenants, cpu, disk, monitored, poolReady, groups, serving, mon, crashed>>
  BY DEF CreateMemory, pool
<1>3. Of(c) \notin monitored /\ Of(c) \notin Grouped
  BY <1>1, InCall DEF Progress, AtAny
<1>4. CASE Rollback(c, {"cpu"}) /\ UNCHANGED memory
  BY <1>1, <1>2, <1>3, <1>4, RollbackIInv DEF managers, pool, Releases
<1>5. CASE Goto(c, "allocDisk") /\ memory' = memory \cup {Of(c)}
  <2>1. "allocDisk" \in Labels /\ "allocDisk" \in AdminLabels
    BY DEF Labels, AdminLabels
  <2>2. Moves(c) /\ client'[c].at = "allocDisk" /\ Of(c)' = Of(c)
    BY <1>5, <2>1, GotoFacts DEF IInv
  <2>3. Allocated' = Allocated /\ Grouped' = Grouped /\ InAdmin(c)'
    BY <1>2, <2>1, <2>2 DEF Allocated, Grouped, InAdmin
  <2>4. Progress(c)'
    BY <1>1, <1>2, <1>3, <2>2, InCall DEF Progress, AtAny, Registered, Grouped
  <2>5. Shares(c) => Shares(c)'
    BY <1>1, <1>2, <1>5, <2>2, <2>3 DEF Shares, AtAny
  <2>6. \A t \in Tenants : HoldsShares(t) => HoldsShares(t)'
    BY <1>2, <1>5, <2>3 DEF HoldsShares
  <2> QED  BY <1>1, <1>2, <1>5, <2>2, <2>3, <2>4, <2>5, <2>6, InCall, CallMove
<1> QED  BY <1>4, <1>5 DEF CreateMemory

LEMMA CreateDiskIInv ==
  ASSUME IInv, NEW c \in Clients, CreateDisk(c)
  PROVE  IInv'
<1>1. client[c].at = "allocDisk" /\ client[c].at \in AdminLabels
  BY DEF CreateDisk, At, AdminLabels
<1>2. UNCHANGED <<lock, tenants, cpu, memory, monitored, poolReady, groups, serving, mon, crashed>>
  BY DEF CreateDisk, pool
<1>3. Of(c) \notin monitored /\ Of(c) \notin Grouped
  BY <1>1, InCall DEF Progress, AtAny
<1>4. CASE Rollback(c, {"cpu", "memory"}) /\ UNCHANGED disk
  BY <1>1, <1>2, <1>3, <1>4, RollbackIInv DEF managers, pool, Releases
<1>5. CASE Goto(c, "register") /\ disk' = disk \cup {Of(c)}
  <2>1. "register" \in Labels /\ "register" \in AdminLabels
    BY DEF Labels, AdminLabels
  <2>2. Moves(c) /\ client'[c].at = "register" /\ Of(c)' = Of(c)
    BY <1>5, <2>1, GotoFacts DEF IInv
  <2>3. Allocated' = Allocated /\ Grouped' = Grouped /\ InAdmin(c)'
    BY <1>2, <2>1, <2>2 DEF Allocated, Grouped, InAdmin
  <2>4. Progress(c)'
    BY <1>1, <1>2, <1>3, <2>2, InCall DEF Progress, AtAny, Registered, Grouped
  <2>5. Shares(c) => Shares(c)'
    BY <1>1, <1>2, <1>5, <2>2, <2>3 DEF Shares, AtAny
  <2>6. \A t \in Tenants : HoldsShares(t) => HoldsShares(t)'
    BY <1>2, <1>5, <2>3 DEF HoldsShares
  <2> QED  BY <1>1, <1>2, <1>5, <2>2, <2>3, <2>4, <2>5, <2>6, InCall, CallMove
<1> QED  BY <1>4, <1>5 DEF CreateDisk

LEMMA CreateMonitorIInv ==
  ASSUME IInv, NEW c \in Clients, CreateMonitor(c)
  PROVE  IInv'
<1>1. client[c].at = "register" /\ client[c].at \in AdminLabels
  BY DEF CreateMonitor, At, AdminLabels
<1>2. /\ UNCHANGED <<lock, tenants, cpu, memory, disk, poolReady, groups, serving, mon>>
      /\ monitored' = monitored \cup {Of(c)} /\ crashed' \in BOOLEAN
  BY DEF CreateMonitor, pool, Race
<1>3. Of(c) \notin Grouped
  BY <1>1, InCall DEF Progress, AtAny
<1>4. "makeGroup" \in Labels /\ "makeGroup" \in AdminLabels
  BY DEF Labels, AdminLabels
<1>5. Moves(c) /\ client'[c].at = "makeGroup" /\ Of(c)' = Of(c)
  BY <1>4, GotoFacts DEF IInv, CreateMonitor
<1>6. Allocated' = Allocated /\ Grouped' = Grouped /\ InAdmin(c)'
  BY <1>2, <1>4, <1>5 DEF Allocated, Grouped, InAdmin
<1>7. Progress(c)'
  BY <1>1, <1>2, <1>3, <1>5, <1>6, InCall DEF Progress, AtAny, Registered
<1>8. Shares(c) => Shares(c)'
  BY <1>1, <1>2, <1>5, <1>6 DEF Shares, AtAny
<1>9. \A t \in Tenants : HoldsShares(t) => HoldsShares(t)'
  BY <1>2, <1>6 DEF HoldsShares
<1> QED  BY <1>1, <1>2, <1>5, <1>6, <1>7, <1>8, <1>9, InCall, CallMove

-------------------------------------------------------------------------------
(***************************************************************************)
(* TenantManager: a call ends                                              *)
(***************************************************************************)

\* The call of c returns: its tenant is gone with its group and monitor entry,
\* or stays with the shares the call answers for.
LEMMA CallEnd ==
  ASSUME IInv, NEW c \in Clients, client[c].at \in AdminLabels, Return(c), Unlock,
         UNCHANGED <<cpu, memory, disk, monitored, poolReady, serving, mon, crashed>>,
         Registered' \subseteq Registered, tenants' \in [Registered' -> Quotas],
         monitored \subseteq Registered', Grouped' \subseteq Registered',
         groups' \in [Grouped' -> Quotas],
         Of(c) \in Registered' /\ Shares(c) => HoldsShares(Of(c))
  PROVE  IInv'
<1>1. Moves(c) /\ client'[c].at = "idle"
  BY ReturnFacts DEF IInv
<1>2. InAdmin(c) /\ ~InAdmin(c)'
  BY <1>1 DEF InAdmin, AdminLabels
<1>3. Allocated' = Allocated /\ Registered \subseteq Tenants
  BY InCall DEF Allocated
<1>4. TypeOK'
  <2>1. /\ lock' \in Clients \cup {NoClient}
        /\ \A d \in Clients : client'[d].at \in AdminLabels <=> lock' = d
    BY <1>1, <1>2, LockFreed DEF IInv
  <2> QED  BY <1>1, <1>3, <2>1 DEF IInv, TypeOK, Moves
<1>5. Named'
  BY <1>1, NamedKept DEF IInv
<1>6. Owned'
  BY DEF Owned
<1>7. \A t \in Tenants : HoldsShares(t) <=> HoldsShares(t)'
  BY <1>3 DEF HoldsShares
<1>8. PICK u \in Tenants : u = Of(c)
  BY InCall
<1>9. ~LateInit /\ Shares(c) /\ u \in Registered' => HoldsShares(u)'
  BY <1>7, <1>8
<1> QED  BY <1>1, <1>2, <1>4, <1>5, <1>6, <1>7, <1>8, <1>9, EndOfCall DEF Moves

LEMMA CreateGroupIInv ==
  ASSUME IInv, NEW c \in Clients, CreateGroup(c)
  PROVE  IInv'
<1>1. client[c].at = "makeGroup" /\ client[c].at \in AdminLabels
  BY DEF CreateGroup, At, AdminLabels
<1>2. /\ UNCHANGED <<tenants, managers, poolReady, serving, mon, crashed>>
      /\ UNCHANGED <<cpu, memory, disk, monitored>>
  BY DEF CreateGroup, managers
<1>3. Of(c) \notin Grouped
  BY <1>1, InCall DEF Progress, AtAny
<1>4. CASE /\ Rollback(c, {"cpu", "memory", "disk", "monitor"})
           /\ UNCHANGED <<groups, lock>>
  BY <1>1, <1>2, <1>3, <1>4, RollbackIInv DEF pool, Releases
<1>5. Registered' = Registered /\ tenants' \in [Registered' -> Quotas]
  BY <1>2 DEF IInv, TypeOK, Registered
<1>6. Shares(c) => HoldsShares(Of(c))
  BY <1>1 DEF Shares, AtAny, HoldsShares
<1>7. ASSUME Return(c), Unlock, Grouped' \subseteq Registered, groups' \in [Grouped' -> Quotas]
      PROVE  IInv'
  BY <1>1, <1>2, <1>5, <1>6, <1>7, InCall, CallEnd
<1>8. CASE Return(c) /\ Unlock /\ UNCHANGED groups
  BY <1>1, <1>7, <1>8, InCall DEF Grouped
<1>9. CASE Return(c) /\ Unlock /\ groups' = With(groups, Of(c), tenants[Of(c)])
  <2>1. groups \in [DOMAIN groups -> Quotas] /\ tenants[Of(c)] \in Quotas
    BY <1>1, InCall DEF IInv, TypeOK, Grouped
  <2>2. /\ DOMAIN With(groups, Of(c), tenants[Of(c)]) = DOMAIN groups \cup {Of(c)}
        /\ With(groups, Of(c), tenants[Of(c)]) \in [DOMAIN groups \cup {Of(c)} -> Quotas]
    BY <2>1, WithFacts
  <2> QED  BY <1>1, <1>7, <1>9, <2>2, InCall DEF Grouped
<1> QED  BY <1>4, <1>8, <1>9 DEF CreateGroup

LEMMA ResizeGroupIInv ==
  ASSUME IInv, NEW c \in Clients, ResizeGroup(c)
  PROVE  IInv'
<1>1. client[c].at = "resize" /\ client[c].at \in AdminLabels
  BY DEF ResizeGroup, At, AdminLabels
<1>2. /\ UNCHANGED <<tenants, cpu, memory, disk, monitored, poolReady, serving, mon, crashed>>
      /\ Return(c) /\ Unlock
  BY DEF ResizeGroup, managers
<1>3. Registered' = Registered /\ tenants' \in [Registered' -> Quotas]
  BY <1>2 DEF IInv, TypeOK, Registered
<1>4. Shares(c) => HoldsShares(Of(c))
  BY <1>1 DEF Shares, AtAny, HoldsShares
<1>5. Grouped' = Grouped /\ groups' \in [Grouped' -> Quotas]
  <2>1. groups \in [Grouped -> Quotas] /\ tenants[Of(c)] \in Quotas
    BY <1>1, InCall DEF IInv, TypeOK
  <2>2. groups' = groups \/ groups' = [groups EXCEPT ![Of(c)] = tenants[Of(c)]]
    BY DEF ResizeGroup
  <2> QED  BY <2>1, <2>2 DEF Grouped
<1> QED  BY <1>1, <1>2, <1>3, <1>4, <1>5, InCall, CallEnd

\* Releasing something of the call's tenant touches no other tenant; the entry
\* of m_tenants goes last, when nothing is left to release.
LEMMA ReleaseIInv ==
  ASSUME IInv, NEW c \in Clients, NEW r \in Releases, Release(c, r)
  PROVE  IInv'
<1>1. client[c].at = "release" /\ client[c].at \in AdminLabels
  BY DEF Release, At, AdminLabels
<1>2. r \in client[c].todo /\ client[c].todo \subseteq Releases
  BY DEF Release, IInv, TypeOK, ClientType
<1>3. /\ Of(c) \in monitored => "monitor" \in client[c].todo
      /\ Of(c) \in Grouped => "group" \in client[c].todo
      /\ "erase" \in client[c].todo
  BY <1>1, InCall DEF Progress, AtAny
<1>4. UNCHANGED <<poolReady, serving, mon>>
  BY DEF Release
<1>5. CASE r = "erase"
  <2>1. client[c].todo = {"erase"}
    <3>1. Before["erase"] = Releases \ {"erase"}
      BY DEF Before, Releases
    <3> QED  BY <1>2, <1>5, <3>1 DEF Release
  <2>2. Of(c) \notin monitored /\ Of(c) \notin Grouped
    BY <1>3, <2>1
  <2>3. /\ UNCHANGED <<cpu, memory, disk, monitored, groups, crashed>>
        /\ tenants' = Without(tenants, Of(c)) /\ Return(c) /\ Unlock
    BY <1>5 DEF Release
  <2>4. Registered' = Registered \ {Of(c)} /\ tenants' \in [Registered' -> Quotas]
    <3>1. tenants \in [DOMAIN tenants -> Quotas]
      BY DEF IInv, TypeOK, Registered
    <3>2. /\ DOMAIN Without(tenants, Of(c)) = DOMAIN tenants \ {Of(c)}
          /\ Without(tenants, Of(c)) \in [DOMAIN tenants \ {Of(c)} -> Quotas]
      BY <3>1, WithoutFacts
    <3> QED  BY <2>3, <3>2 DEF Registered
  <2>5. Grouped' = Grouped /\ groups' \in [Grouped' -> Quotas]
    BY <1>1, <2>3, InCall DEF Grouped
  <2>6. monitored \subseteq Registered' /\ Grouped' \subseteq Registered'
    BY <1>1, <2>2, <2>4, <2>5, InCall
  <2> QED  BY <1>1, <1>4, <2>3, <2>4, <2>5, <2>6, CallEnd
<1>6. CASE r # "erase"
  <2>1. /\ client' = [client EXCEPT ![c].todo = @ \ {r}]
        /\ UNCHANGED <<tenants, lock>>
    BY <1>6 DEF Release
  <2>2. /\ Moves(c) /\ client'[c].at = "release" /\ Of(c)' = Of(c)
        /\ client'[c].todo = client[c].todo \ {r}
    <3>1. client[c].todo \ {r} \in SUBSET Releases
      BY <1>2
    <3> QED  BY <1>1, <2>1, <3>1 DEF IInv, TypeOK, ClientType, Moves, Of
  <2>3. InAdmin(c)'
    BY <2>2 DEF InAdmin, AdminLabels
  <2>4. /\ Allocated \ {Of(c)} \subseteq Allocated' /\ Allocated' \subseteq Allocated
        /\ cpu' \in [Allocated' -> Usages]
    <3>1. cpu \in [DOMAIN cpu -> Usages]
      BY <1>1, InCall DEF Allocated
    <3>2. /\ DOMAIN Without(cpu, Of(c)) = DOMAIN cpu \ {Of(c)}
          /\ Without(cpu, Of(c)) \in [DOMAIN cpu \ {Of(c)} -> Usages]
      BY <3>1, WithoutFacts
    <3>3. cpu' = cpu \/ cpu' = Without(cpu, Of(c))
      BY DEF Release
    <3> QED  BY <3>1, <3>2, <3>3 DEF Allocated
  <2>5. /\ Grouped' = IF r = "group" THEN Grouped \ {Of(c)} ELSE Grouped
        /\ groups' \in [Grouped' -> Quotas]
    <3>1. groups \in [DOMAIN groups -> Quotas]
      BY <1>1, InCall DEF Grouped
    <3>2. /\ DOMAIN Without(groups, Of(c)) = DOMAIN groups \ {Of(c)}
          /\ Without(groups, Of(c)) \in [DOMAIN groups \ {Of(c)} -> Quotas]
      BY <3>1, WithoutFacts
    <3>3. groups' = IF r = "group" THEN Without(groups, Of(c)) ELSE groups
      BY DEF Release
    <3> QED  BY <3>1, <3>2, <3>3 DEF Grouped
  <2>6. /\ memory' \in {memory, memory \ {Of(c)}}
        /\ disk' \in {disk, disk \ {Of(c)}}
        /\ monitored' = IF r = "monitor" THEN monitored \ {Of(c)} ELSE monitored
    BY DEF Release
  <2>7. crashed' \in BOOLEAN
    BY <1>1, InCall DEF Release, Race
  <2>8. Progress(c)'
    BY <1>1, <1>2, <1>3, <1>6, <2>1, <2>2, <2>5, <2>6, InCall DEF Progress, AtAny, Registered
  <2>9. Shares(c)'
    BY <2>2 DEF Shares, AtAny
  <2>10. \A t \in Tenants \ {Of(c)} : HoldsShares(t) => HoldsShares(t)'
    BY <2>4, <2>6 DEF HoldsShares
  <2>11. /\ Allocated' \subseteq Tenants /\ memory' \subseteq Tenants /\ disk' \subseteq Tenants
         /\ monitored' \subseteq Registered /\ Grouped' \subseteq Registered
    BY <1>1, <2>4, <2>5, <2>6, InCall
  <2> QED  BY <1>1, <1>4, <2>1, <2>2, <2>3, <2>4, <2>5, <2>7, <2>8, <2>9, <2>10, <2>11,
              InCall, CallMove
<1> QED  BY <1>5, <1>6
-------------------------------------------------------------------------------
(***************************************************************************)
(* The theorems                                                            *)
(***************************************************************************)
LEMMA InitIInv == Init => IInv
<1> SUFFICES ASSUME Init PROVE IInv
  OBVIOUS
<1> USE DEF Init
<1>1. Registered = {} /\ Allocated = {} /\ Grouped = {}
  BY DEF Registered, Allocated, Grouped
<1>2. \A c \in Clients : client[c] = IdleClient
  OBVIOUS
<1>3. TypeOK
  <2>1. DOMAIN tenants = {} /\ DOMAIN cpu = {} /\ DOMAIN groups = {}
    OBVIOUS
  <2>2. tenants \in [Registered -> Quotas]
    BY <1>1, <2>1
  <2>3. cpu \in [Allocated -> {"neg", "ok", "high"}]
    BY <1>1, <2>1
  <2>4. groups \in [Grouped -> Quotas]
    BY <1>1, <2>1
  <2>5. IdleClient \in ClientType
    BY DEF IdleClient, ClientType, Labels
  <2>6. \A c \in Clients : client[c].at \in AdminLabels <=> lock = c
    BY LifecycleAssumption DEF IdleClient, AdminLabels
  <2> QED  BY <1>1, <2>2, <2>3, <2>4, <2>5, <2>6 DEF TypeOK
<1>4. \A c \in Clients : ~InAdmin(c)
  BY DEF InAdmin, IdleClient, AdminLabels
<1>5. Named /\ Owned
  BY <1>1 DEF Named, Owned, IdleClient
<1> QED  BY <1>1, <1>3, <1>4, <1>5 DEF IInv, SharesKept

LEMMA StutterIInv == ASSUME IInv, UNCHANGED vars PROVE IInv'
<1>1. UNCHANGED <<lock, tenants, cpu, memory, disk, monitored, poolReady, groups, serving,
                  client, mon, crashed>>
  BY DEF vars, managers, pool
<1>2. Allocated' = Allocated /\ Grouped' = Grouped /\ Registered' = Registered
  BY <1>1 DEF Allocated, Grouped, Registered
<1>3. TypeOK'
  BY <1>1, <1>2 DEF IInv, TypeOK
<1>4. Named'
  BY <1>1 DEF IInv, Named, Of
<1> QED  BY <1>1, <1>2, <1>3, <1>4, BystanderIInv

LEMMA NextIInv == ASSUME IInv, [Next]_vars PROVE IInv'
<1>1. ASSUME NEW c \in Clients, Call(c)
      PROVE  IInv'
  BY <1>1, BeginCreateIInv, BeginUpdateIInv, BeginRemoveIInv, ConnectIInv DEF Call
<1>2. ASSUME NEW c \in Clients, AdminStep(c)
      PROVE  IInv'
  BY <1>2, CreateCpuIInv, CreateMemoryIInv, CreateDiskIInv, CreateMonitorIInv, CreateGroupIInv,
     ReleaseIInv, ResizeGroupIInv DEF AdminStep
<1>3. ASSUME NEW c \in Clients, RequestStep(c)
      PROVE  IInv'
  BY <1>3, ConnectIInv, RequestStoresIInv DEF RequestStep
<1>4. CASE MonitorStep
  BY <1>4, MonitorIInv
<1>5. CASE ServerStep
  BY <1>5, ServerIInv
<1>6. CASE UNCHANGED vars
  BY <1>6, StutterIInv
<1> QED  BY <1>1, <1>2, <1>3, <1>4, <1>5, <1>6 DEF Next

\* The inductive invariant, for any clients, tenants, quotas and size of the
\* pool, with or without requests, the monitor, failing threads and restarts.
THEOREM LifecycleInvariant == Spec => []IInv
<1>1. Init => IInv
  BY InitIInv
<1>2. IInv /\ [Next]_vars => IInv'
  BY NextIInv
<1> QED  BY <1>1, <1>2, PTL DEF Spec

\* Every variable keeps its type, and an admin call runs if and only if its
\* caller has the mutex of TenantManager.
THEOREM LifecycleTypeOK == Spec => []TypeOK
<1>1. IInv => TypeOK
  BY DEF IInv
<1> QED  BY <1>1, LifecycleInvariant, PTL

\* No thread group and no monitor entry outlives its tenant, or is made for a
\* tenant that is not there, whatever interleaves with the admin calls.
THEOREM LifecycleOwned == Spec => []OwnedByTenants
<1>1. IInv => OwnedByTenants
  BY DEF IInv, Owned, OwnedByTenants
<1> QED  BY <1>1, LifecycleInvariant, PTL

\* A step of one client is none of another's.
LEMMA OthersStay ==
  ASSUME TypeOK, NEW c \in Clients, NEW d \in Clients \ {c}, Call(d) \/ AdminStep(d) \/ RequestStep(d)
  PROVE  client'[c] = client[c]
<1> USE DEF TypeOK, Goto, Return, Rollback, EndRequest
<1>1. CASE Call(d)
  BY <1>1 DEF Call, BeginCreate, BeginUpdate, BeginRemove, Authenticate, ConnectUsage, ConnectQuota,
              ConnectFetch, RequestCpu, Disconnect
<1>2. CASE AdminStep(d)
  <2>1. ASSUME NEW r \in Releases, Release(d, r) PROVE client'[c] = client[c]
    BY <2>1 DEF Release
  <2> QED  BY <1>2, <2>1 DEF AdminStep, CreateCpu, CreateMemory, CreateDisk, CreateMonitor,
                             CreateGroup, ResizeGroup
<1>3. CASE RequestStep(d)
  BY <1>3 DEF RequestStep, RequestAllocCpu, RequestMemory, RequestAllocMemory, RequestCheck,
              RequestSubmit, RequestUpdate
<1> QED  BY <1>1, <1>2, <1>3

\* Only the thread pool's answer takes a request from reqSubmit to reqUpdate.
LEMMA SubmitStep ==
  ASSUME TypeOK, Next, NEW c \in Clients,
         client[c].at = "reqSubmit", client'[c].at = "reqUpdate"
  PROVE  RequestSubmit(c)
<1>1. ASSUME MonitorStep \/ ServerStep PROVE FALSE
  BY <1>1 DEF MonitorStep, MonitorPass, MonitorPick, MonitorUpdate, MonitorSleep, ServerStep,
              PoolInitialize, ServerInitialize, DataInitialize, ServerStart, PoolShutdown, ServerStop
<1>2. Call(c) \/ AdminStep(c) \/ RequestStep(c)
  BY <1>1, OthersStay DEF Next
<1>3. ~Call(c)
  BY DEF Call, BeginCreate, BeginUpdate, BeginRemove, Authenticate, ConnectUsage, ConnectQuota,
         ConnectFetch, RequestCpu, Disconnect, At
<1>4. ~AdminStep(c)
  BY DEF AdminStep, CreateCpu, CreateMemory, CreateDisk, CreateMonitor, CreateGroup, Release,
         ResizeGroup, At
<1> QED  BY <1>2, <1>3, <1>4 DEF RequestStep, RequestAllocCpu, RequestMemory, RequestAllocMemory,
                               RequestCheck, RequestUpdate, At

\* No request goes to the thread pool for a tenant that is not registered: the
\* group is made after the entry of m_tenants, and ends before it.
THEOREM LifecycleServed == Spec => ServedWhileRegistered
<1>1. ASSUME IInv, [Next]_vars
      PROVE  [\A c \in Clients : client[c].at = "reqSubmit" /\ client'[c].at = "reqUpdate"
                                 => Of(c) \in Registered]_vars
  <2> SUFFICES ASSUME Next, NEW c \in Clients,
                      client[c].at = "reqSubmit", client'[c].at = "reqUpdate"
               PROVE  Of(c) \in Registered
    BY <1>1
  <2>1. RequestSubmit(c)
    BY <1>1, SubmitStep DEF IInv
  <2>2. ~EndRequest(c)
    BY <1>1, EndRequestFacts DEF IInv
  <2>3. Of(c) \in Grouped
    BY <2>1, <2>2 DEF RequestSubmit
  <2> QED  BY <1>1, <2>3 DEF IInv, Owned
<1> QED  BY <1>1, LifecycleInvariant, PTL DEF ServedWhileRegistered, Spec

\* Between admin calls every registered tenant has its CPU, memory and disk
\* shares and is monitored, provided that no server is initialised later than
\* the first tenant.
THEOREM LifecycleProvisioned ==
  ASSUME ~LateInit
  PROVE  Spec => []Provisioned
<1>1. IInv => Provisioned
  <2> SUFFICES ASSUME IInv, Quiet PROVE \A t \in Registered : HoldsShares(t)
    BY DEF Provisioned
  <2>1. BusyTenants = {}
    BY NoHolder DEF IInv, Quiet, BusyTenants
  <2> QED  BY <2>1 DEF IInv, SharesKept
<1> QED  BY <1>1, LifecycleInvariant, PTL

-------------------------------------------------------------------------------
(***************************************************************************)
(* TenantLifecycle implements TenantRegistry, for any clients, tenants,    *)
(* quotas and size of the pool, as long as only TenantManager touches the  *)
(* managers.                                                               *)
(*                                                                         *)
(* The invariant Exact says of every step of a call which resources its    *)
(* tenant has: what createTenant has made, what is left to release, or     *)
(* everything.  A create takes effect when the thread group is made, a     *)
(* remove and an update when they begin; all other steps are stutters.     *)
(***************************************************************************)
\* Nobody else is at work.
Alone == ~Requests /\ ~Monitoring /\ ~PoolMayStop /\ ~LateInit /\ ~SpawnMayFail

Made == [allocCpu  |-> {},
         allocMem  |-> {"cpu"},
         allocDisk |-> {"cpu", "memory"},
         register  |-> {"cpu", "memory", "disk"},
         makeGroup |-> {"cpu", "memory", "disk", "monitor"},
         resize    |-> Resources]

\* What the tenant of c's call has at this step.
Due(c) == IF client[c].at = "release" THEN client[c].todo \ {"erase"} ELSE Made[client[c].at]

Exact ==
  /\ \A c \in Clients : InAdmin(c) \/ client[c].at = "idle"
  /\ mon.at = "sleep"
  /\ \A c \in Clients : InAdmin(c) => Held(Of(c)) = Due(c)
  /\ \A t \in Tenants \ BusyTenants : Held(t) = IF t \in Registered THEN Resources ELSE {}
-------------------------------------------------------------------------------
(***************************************************************************)
(* What a tenant holds                                                     *)
(***************************************************************************)
LEMMA HeldMore ==
  ASSUME NEW t, NEW r \in Resources,
         t \in Allocated' <=> (r = "cpu" \/ t \in Allocated),
         t \in memory' <=> (r = "memory" \/ t \in memory),
         t \in disk' <=> (r = "disk" \/ t \in disk),
         t \in monitored' <=> (r = "monitor" \/ t \in monitored),
         t \in Grouped' <=> (r = "group" \/ t \in Grouped)
  PROVE  Held(t)' = Held(t) \cup {r}
BY DEF Held, Resources

LEMMA HeldLess ==
  ASSUME NEW t, NEW r \in Resources,
         t \in Allocated' <=> (r # "cpu" /\ t \in Allocated),
         t \in memory' <=> (r # "memory" /\ t \in memory),
         t \in disk' <=> (r # "disk" /\ t \in disk),
         t \in monitored' <=> (r # "monitor" /\ t \in monitored),
         t \in Grouped' <=> (r # "group" /\ t \in Grouped)
  PROVE  Held(t)' = Held(t) \ {r}
BY DEF Held, Resources

LEMMA HeldSame ==
  ASSUME UNCHANGED <<cpu, memory, disk, monitored, groups>>
  PROVE  \A t \in Tenants : Held(t)' = Held(t)
BY DEF Held, Allocated, Grouped
-------------------------------------------------------------------------------
(***************************************************************************)
(* The parts a step can play                                               *)
(***************************************************************************)

\* The holder of the mutex, and its tenant.
LEMMA Holder ==
  ASSUME IInv, NEW c \in Clients, client[c].at \in AdminLabels
  PROVE  /\ InAdmin(c) /\ lock = c /\ lock # NoClient
         /\ \A d \in Clients \ {c} : ~InAdmin(d)
         /\ BusyTenants = {Of(c)} /\ Of(c) \in Registered /\ Of(c) \in Tenants
         /\ Pending = IF client[c].at = "resize" THEN {} ELSE {Of(c)}
<1>1. InAdmin(c) /\ lock = c /\ Of(c) \in Registered /\ Of(c) \in Tenants
  BY InCall
<1>2. \A d \in Clients \ {c} : ~InAdmin(d)
  BY <1>1, OneHolder DEF IInv
<1>3. BusyTenants = {Of(c)}
  BY <1>1, <1>2 DEF BusyTenants
<1>4. lock # NoClient
  BY <1>1, LifecycleAssumption
<1> QED  BY <1>1, <1>2, <1>3, <1>4 DEF Pending

\* While the mutex is free nobody is busy.
LEMMA Free ==
  ASSUME IInv, lock = NoClient
  PROVE  (\A c \in Clients : ~InAdmin(c)) /\ BusyTenants = {} /\ Pending = {}
BY NoHolder DEF IInv, BusyTenants, Pending

\* Nothing that a tenant has changes.
LEMMA StandStill ==
  ASSUME Exact, UNCHANGED <<lock, tenants, client, mon>>,
         \A t \in Tenants : Held(t)' = Held(t),
         \A c \in Clients : InAdmin(c) => Of(c) \in Tenants
  PROVE  Exact' /\ UNCHANGED Registry!vars
<1>1. Pending' = Pending /\ Registered' = Registered /\ BusyTenants' = BusyTenants
  BY DEF Pending, Registered, BusyTenants, InAdmin, Of
<1>2. \A c \in Clients : InAdmin(c)' = InAdmin(c) /\ Due(c)' = Due(c) /\ Of(c)' = Of(c)
  BY DEF InAdmin, Due, Of
<1>3. \A c \in Clients : InAdmin(c) => Held(Of(c))' = Held(Of(c))
  BY <1>2 DEF Held, Allocated, Grouped
<1> QED  BY <1>1, <1>2, <1>3 DEF Exact, Registry!vars

\* A create or remove goes on: its tenant is not there for anybody.
LEMMA GoesOn ==
  ASSUME IInv, Exact, NEW c \in Clients, NEW u \in Tenants, u = Of(c), Of(c)' = u,
         client[c].at \in AdminLabels \ {"resize"}, client'[c].at \in AdminLabels \ {"resize"},
         Moves(c), UNCHANGED <<lock, tenants, mon>>,
         Held(u)' = Due(c)', \A t \in Tenants \ {u} : Held(t)' = Held(t)
  PROVE  Exact' /\ UNCHANGED Registry!vars
<1>1. /\ InAdmin(c) /\ lock = c /\ lock # NoClient /\ BusyTenants = {u} /\ Pending = {u}
      /\ \A d \in Clients \ {c} : ~InAdmin(d)
  BY Holder
<1>2. InAdmin(c)' /\ \A d \in Clients \ {c} : ~InAdmin(d)' /\ client'[d] = client[d]
  BY <1>1 DEF InAdmin, Moves
<1>3. BusyTenants' = {u} /\ Pending' = {u} /\ Registered' = Registered
  BY <1>1, <1>2 DEF BusyTenants, Pending, Registered
<1>4. Held(Of(c))' = Due(c)'
  BY DEF Held, Allocated, Grouped
<1>5. Exact'
  BY <1>1, <1>2, <1>3, <1>4 DEF Exact
<1>6. UNCHANGED Registry!vars
  BY <1>1, <1>3 DEF Registry!vars
<1> QED  BY <1>5, <1>6

\* A call begins: its tenant has what it had.
LEMMA Begins ==
  ASSUME IInv, Exact, NEW c \in Clients, NEW t \in Tenants, Of(c)' = t,
         lock = NoClient, lock' = c, client'[c].at \in AdminLabels, Moves(c), mon' = mon,
         Registered' \ {t} = Registered \ {t},
         UNCHANGED <<cpu, memory, disk, monitored, groups>>,
         Held(t) = Due(c)'
  PROVE  /\ Exact' /\ Pending = {}
         /\ Pending' = IF client'[c].at = "resize" THEN {} ELSE {t}
         /\ \A u \in Tenants : Held(u)' = Held(u)
<1>1. (\A d \in Clients : ~InAdmin(d)) /\ BusyTenants = {} /\ Pending = {}
  BY Free
<1>2. InAdmin(c)' /\ \A d \in Clients \ {c} : ~InAdmin(d)' /\ client'[d] = client[d]
  BY <1>1 DEF InAdmin, Moves
<1>3. BusyTenants' = {t} /\ Pending' = IF client'[c].at = "resize" THEN {} ELSE {t}
  BY <1>2, LifecycleAssumption DEF BusyTenants, Pending
<1>4. \A u \in Tenants : Held(u)' = Held(u)
  BY HeldSame
<1>5. Held(Of(c))' = Due(c)'
  BY <1>4 DEF Held, Allocated, Grouped
<1>6. \A u \in Tenants \ {t} : u \in Registered' <=> u \in Registered
  OBVIOUS
<1>7. Exact'
  BY <1>1, <1>2, <1>3, <1>4, <1>5, <1>6 DEF Exact
<1> QED  BY <1>1, <1>3, <1>4, <1>7

\* A call ends: its tenant is registered and has everything, or neither.
LEMMA Ends ==
  ASSUME IInv, Exact, NEW c \in Clients, NEW u \in Tenants, u = Of(c),
         client[c].at \in AdminLabels, Return(c), Unlock, mon' = mon,
         Registered' \ {u} = Registered \ {u},
         Held(u)' = IF u \in Registered' THEN Resources ELSE {},
         \A t \in Tenants \ {u} : Held(t)' = Held(t)
  PROVE  Exact' /\ Pending' = {}
<1>1. /\ InAdmin(c) /\ BusyTenants = {u}
      /\ \A d \in Clients \ {c} : ~InAdmin(d)
  BY Holder
<1>2. Moves(c) /\ client'[c].at = "idle"
  BY ReturnFacts DEF IInv
<1>3. \A d \in Clients : ~InAdmin(d)' /\ client'[d].at = "idle"
  BY <1>1, <1>2 DEF InAdmin, Moves, AdminLabels, Exact
<1>4. BusyTenants' = {} /\ Pending' = {}
  BY <1>3 DEF BusyTenants, Pending, Unlock
<1>5. \A t \in Tenants \ {u} : t \in Registered' <=> t \in Registered
  OBVIOUS
<1>6. Exact'
  BY <1>1, <1>3, <1>4, <1>5 DEF Exact
<1> QED  BY <1>4, <1>6
-------------------------------------------------------------------------------
(***************************************************************************)
(* A call begins                                                           *)
(***************************************************************************)
Refines == Exact' /\ [Registry!Next]_(Registry!vars)

LEMMA BeginCreateRefines ==
  ASSUME IInv, Exact, NEW c \in Clients, NEW t \in Tenants, NEW q \in Quotas, BeginCreate(c, t, q)
  PROVE  Refines
<1>1. /\ lock = NoClient /\ lock' = c /\ mon' = mon /\ t \notin Registered
      /\ tenants' = With(tenants, t, q)
      /\ client' = [client EXCEPT ![c].at = "allocCpu", ![c].tenant = t]
      /\ UNCHANGED <<cpu, memory, disk, monitored, groups>>
  BY DEF BeginCreate, managers, pool
<1>2. "allocCpu" \in Labels /\ "allocCpu" \in AdminLabels
  BY DEF Labels, AdminLabels
<1>3. Moves(c) /\ client'[c].at = "allocCpu" /\ Of(c)' = t
  BY <1>1, <1>2, EnterFacts DEF IInv
<1>4. Registered' = Registered \cup {t} /\ \A u \in Registered : tenants'[u] = tenants[u]
  BY <1>1 DEF Registered, With
<1>5. Held(t) = {} /\ Due(c)' = {}
  <2>1. Held(t) = {}
    BY <1>1, Free DEF Exact
  <2>2. Due(c)' = {}
    BY <1>3 DEF Due, Made
  <2> QED  BY <2>1, <2>2
<1>6. /\ Exact' /\ Pending = {} /\ Pending' = {t}
      /\ \A u \in Tenants : Held(u)' = Held(u)
  BY <1>1, <1>2, <1>3, <1>4, <1>5, Begins
<1>7. Registered' \ Pending' = Registered \ Pending
  BY <1>1, <1>4, <1>6
<1>8. UNCHANGED Registry!vars
  BY <1>4, <1>5, <1>6, <1>7 DEF Registry!vars
<1> QED  BY <1>6, <1>8 DEF Refines

LEMMA BeginRemoveRefines ==
  ASSUME IInv, Exact, NEW c \in Clients, NEW t \in Tenants, BeginRemove(c, t)
  PROVE  Refines
<1>1. /\ lock = NoClient /\ lock' = c /\ mon' = mon /\ t \in Registered
      /\ client' = [client EXCEPT ![c].at = "release", ![c].tenant = t, ![c].todo = Releases]
      /\ UNCHANGED <<tenants, cpu, memory, disk, monitored, groups>>
  BY DEF BeginRemove, managers, pool
<1>2. "release" \in Labels /\ "release" \in AdminLabels
  BY DEF Labels, AdminLabels
<1>3. Moves(c) /\ client'[c].at = "release" /\ Of(c)' = t /\ client'[c].todo = Releases
  BY <1>1, <1>2 DEF IInv, TypeOK, ClientType, Moves, Of
<1>4. Registered' = Registered
  BY <1>1 DEF Registered
<1>5. Held(t) = Due(c)'
  <2>1. Held(t) = Resources
    BY <1>1, Free DEF Exact
  <2>2. Releases \ {"erase"} = Resources
    BY DEF Releases, Resources
  <2> QED  BY <1>3, <2>1, <2>2 DEF Due
<1>6. /\ Exact' /\ Pending = {} /\ Pending' = {t}
      /\ \A u \in Tenants : Held(u)' = Held(u)
  BY <1>1, <1>2, <1>3, <1>4, <1>5, Begins
<1>7. Registry!Remove(t)
  BY <1>1, <1>4, <1>6 DEF Registry!Remove, Registry!Present
<1> QED  BY <1>6, <1>7 DEF Refines, Registry!Next

LEMMA BeginUpdateRefines ==
  ASSUME IInv, Exact, NEW c \in Clients, NEW t \in Tenants, NEW q \in Quotas, BeginUpdate(c, t, q)
  PROVE  Refines
<1>1. /\ lock = NoClient /\ lock' = c /\ mon' = mon /\ t \in Registered
      /\ tenants' = [tenants EXCEPT ![t] = q]
      /\ client' = [client EXCEPT ![c].at = "resize", ![c].tenant = t]
      /\ UNCHANGED <<cpu, memory, disk, monitored, groups>>
  BY DEF BeginUpdate, managers, pool
<1>2. "resize" \in Labels /\ "resize" \in AdminLabels
  BY DEF Labels, AdminLabels
<1>3. Moves(c) /\ client'[c].at = "resize" /\ Of(c)' = t
  BY <1>1, <1>2, EnterFacts DEF IInv
<1>4. Registered' = Registered
  BY <1>1 DEF Registered
<1>5. Held(t) = Due(c)'
  <2>1. Held(t) = Resources
    BY <1>1, Free DEF Exact
  <2> QED  BY <1>3, <2>1 DEF Due, Made
<1>6. /\ Exact' /\ Pending = {} /\ Pending' = {}
      /\ \A u \in Tenants : Held(u)' = Held(u)
  BY <1>1, <1>2, <1>3, <1>4, <1>5, Begins
<1>7. Registry!Update(t, q)
  BY <1>1, <1>4, <1>6 DEF Registry!Update, Registry!Present, Registered
<1> QED  BY <1>6, <1>7 DEF Refines, Registry!Next
-------------------------------------------------------------------------------
(***************************************************************************)
(* createTenant goes on                                                    *)
(***************************************************************************)
LEMMA RollbackRefines ==
  ASSUME IInv, Exact, NEW c \in Clients, client[c].at \in AdminLabels \ {"resize"},
         NEW done \in SUBSET Releases, "erase" \notin done, Rollback(c, done), Held(Of(c)) = done,
         UNCHANGED <<lock, tenants, cpu, memory, disk, monitored, groups, mon>>
  PROVE  Refines
<1>1. /\ Moves(c) /\ client'[c].at = "release" /\ Of(c)' = Of(c)
      /\ client'[c].todo = done \cup {"erase"}
  BY RollbackFacts DEF IInv
<1>2. PICK u \in Tenants : u = Of(c)
  BY Holder
<1>3. \A t \in Tenants : Held(t)' = Held(t)
  BY HeldSame
<1>4. Held(u)' = Due(c)'
  BY <1>1, <1>2, <1>3 DEF Due
<1> QED  BY <1>1, <1>2, <1>3, <1>4, GoesOn DEF Refines, AdminLabels

LEMMA CreateCpuRefines ==
  ASSUME IInv, Exact, NEW c \in Clients, CreateCpu(c)
  PROVE  Refines
<1>1. client[c].at = "allocCpu" /\ client[c].at \in AdminLabels \ {"resize"}
  BY DEF CreateCpu, At, AdminLabels
<1>2. UNCHANGED <<lock, tenants, memory, disk, monitored, groups, mon>>
  BY DEF CreateCpu, pool
<1>3. PICK u \in Tenants : u = Of(c)
  BY <1>1, Holder
<1>4. Held(u) = {}
  BY <1>1, <1>3, Holder DEF Exact, Due, Made
<1>5. CASE Goto(c, "allocMem") /\ cpu' = With(cpu, u, "ok")
  <2>1. Moves(c) /\ client'[c].at = "allocMem" /\ Of(c)' = u
    BY <1>3, <1>5, GotoFacts DEF IInv, Labels, AdminLabels
  <2>2. Allocated' = Allocated \cup {u}
    BY <1>5 DEF Allocated, With
  <2>3. Due(c)' = {} \cup {"cpu"}
    BY <2>1 DEF Due, Made
  <2>4. Held(u)' = {} \cup {"cpu"}
    BY <1>2, <1>4, <1>5, <2>2, HeldMore DEF Grouped, Resources
  <2>5. \A t \in Tenants \ {u} : Held(t)' = Held(t)
    BY <1>2, <1>5, <2>2 DEF Held, Grouped
  <2> QED  BY <1>1, <1>2, <1>3, <2>1, <2>3, <2>4, <2>5, GoesOn DEF Refines, AdminLabels
<1>6. CASE Rollback(c, {}) /\ UNCHANGED cpu
  BY <1>1, <1>2, <1>3, <1>4, <1>6, RollbackRefines DEF Releases
<1> QED  BY <1>3, <1>5, <1>6 DEF CreateCpu

LEMMA CreateMemoryRefines ==
  ASSUME IInv, Exact, NEW c \in Clients, CreateMemory(c)
  PROVE  Refines
<1>1. client[c].at = "allocMem" /\ client[c].at \in AdminLabels \ {"resize"}
  BY DEF CreateMemory, At, AdminLabels
<1>2. UNCHANGED <<lock, tenants, cpu, disk, monitored, groups, mon>>
  BY DEF CreateMemory, pool
<1>3. PICK u \in Tenants : u = Of(c)
  BY <1>1, Holder
<1>4. Held(u) = {"cpu"}
  BY <1>1, <1>3, Holder DEF Exact, Due, Made
<1>5. CASE Goto(c, "allocDisk") /\ memory' = memory \cup {u}
  <2>1. Moves(c) /\ client'[c].at = "allocDisk" /\ Of(c)' = u
    BY <1>3, <1>5, GotoFacts DEF IInv, Labels, AdminLabels
  <2>2. Allocated' = Allocated
    BY <1>2 DEF Allocated
  <2>3. Due(c)' = {"cpu"} \cup {"memory"}
    BY <2>1 DEF Due, Made
  <2>4. Held(u)' = {"cpu"} \cup {"memory"}
    BY <1>2, <1>4, <1>5, <2>2, HeldMore DEF Grouped, Resources
  <2>5. \A t \in Tenants \ {u} : Held(t)' = Held(t)
    BY <1>2, <1>5, <2>2 DEF Held, Grouped
  <2> QED  BY <1>1, <1>2, <1>3, <2>1, <2>3, <2>4, <2>5, GoesOn DEF Refines, AdminLabels
<1>6. CASE Rollback(c, {"cpu"}) /\ UNCHANGED memory
  BY <1>1, <1>2, <1>3, <1>4, <1>6, RollbackRefines DEF Releases
<1> QED  BY <1>3, <1>5, <1>6 DEF CreateMemory

LEMMA CreateDiskRefines ==
  ASSUME IInv, Exact, NEW c \in Clients, CreateDisk(c)
  PROVE  Refines
<1>1. client[c].at = "allocDisk" /\ client[c].at \in AdminLabels \ {"resize"}
  BY DEF CreateDisk, At, AdminLabels
<1>2. UNCHANGED <<lock, tenants, cpu, memory, monitored, groups, mon>>
  BY DEF CreateDisk, pool
<1>3. PICK u \in Tenants : u = Of(c)
  BY <1>1, Holder
<1>4. Held(u) = {"cpu", "memory"}
  BY <1>1, <1>3, Holder DEF Exact, Due, Made
<1>5. CASE Goto(c, "register") /\ disk' = disk \cup {u}
  <2>1. Moves(c) /\ client'[c].at = "register" /\ Of(c)' = u
    BY <1>3, <1>5, GotoFacts DEF IInv, Labels, AdminLabels
  <2>2. Allocated' = Allocated
    BY <1>2 DEF Allocated
  <2>3. Due(c)' = {"cpu", "memory"} \cup {"disk"}
    BY <2>1 DEF Due, Made
  <2>4. Held(u)' = {"cpu", "memory"} \cup {"disk"}
    BY <1>2, <1>4, <1>5, <2>2, HeldMore DEF Grouped, Resources
  <2>5. \A t \in Tenants \ {u} : Held(t)' = Held(t)
    BY <1>2, <1>5, <2>2 DEF Held, Grouped
  <2> QED  BY <1>1, <1>2, <1>3, <2>1, <2>3, <2>4, <2>5, GoesOn DEF Refines, AdminLabels
<1>6. CASE Rollback(c, {"cpu", "memory"}) /\ UNCHANGED disk
  BY <1>1, <1>2, <1>3, <1>4, <1>6, RollbackRefines DEF Releases
<1> QED  BY <1>3, <1>5, <1>6 DEF CreateDisk

LEMMA CreateMonitorRefines ==
  ASSUME IInv, Exact, NEW c \in Clients, CreateMonitor(c)
  PROVE  Refines
<1>1. client[c].at = "register" /\ client[c].at \in AdminLabels \ {"resize"}
  BY DEF CreateMonitor, At, AdminLabels
<1>2. UNCHANGED <<lock, tenants, cpu, memory, disk, groups, mon>>
  BY DEF CreateMonitor, pool
<1>3. PICK u \in Tenants : u = Of(c)
  BY <1>1, Holder
<1>4. Moves(c) /\ client'[c].at = "makeGroup" /\ Of(c)' = u /\ monitored' = monitored \cup {u}
  BY <1>3, GotoFacts DEF CreateMonitor, IInv, Labels, AdminLabels
<1>5. Held(u) = {"cpu", "memory", "disk"}
  BY <1>1, <1>3, Holder DEF Exact, Due, Made
<1>6. Due(c)' = {"cpu", "memory", "disk"} \cup {"monitor"}
  BY <1>4 DEF Due, Made
<1>7. Held(u)' = {"cpu", "memory", "disk"} \cup {"monitor"}
  BY <1>2, <1>4, <1>5, HeldMore DEF Allocated, Grouped, Resources
<1>8. \A t \in Tenants \ {u} : Held(t)' = Held(t)
  BY <1>2, <1>4 DEF Held, Allocated, Grouped
<1> QED  BY <1>1, <1>2, <1>3, <1>4, <1>6, <1>7, <1>8, GoesOn DEF Refines, AdminLabels

-------------------------------------------------------------------------------
(***************************************************************************)
(* A call ends                                                             *)
(***************************************************************************)

\* createTenant succeeds, or the pool refuses and everything is undone.
LEMMA CreateGroupRefines ==
  ASSUME IInv, Exact, ~SpawnMayFail, NEW c \in Clients, CreateGroup(c)
  PROVE  Refines
<1>1. client[c].at = "makeGroup" /\ client[c].at \in AdminLabels \ {"resize"}
  BY DEF CreateGroup, At, AdminLabels
<1>2. UNCHANGED <<tenants, cpu, memory, disk, monitored, mon>>
  BY DEF CreateGroup, managers
<1>3. PICK u \in Tenants : u = Of(c) /\ u \in Registered /\ Pending = {u}
  BY <1>1, Holder
<1>4. Held(u) = {"cpu", "memory", "disk", "monitor"}
  BY <1>1, <1>3, Holder DEF Exact, Due, Made
<1>5. CASE groups' = With(groups, u, tenants[u]) /\ Return(c) /\ Unlock
  <2>1. Grouped' = Grouped \cup {u} /\ Registered' = Registered /\ Allocated' = Allocated
    BY <1>2, <1>5 DEF Grouped, Registered, Allocated, With
  <2>2. Held(u)' = {"cpu", "memory", "disk", "monitor"} \cup {"group"}
    BY <1>2, <1>4, <2>1, HeldMore DEF Resources
  <2>3. Held(u)' = Resources
    BY <2>2 DEF Resources
  <2>4. \A t \in Tenants \ {u} : Held(t)' = Held(t)
    BY <1>2, <2>1 DEF Held
  <2>5. Exact' /\ Pending' = {}
    BY <1>1, <1>2, <1>3, <1>5, <2>1, <2>3, <2>4, Ends
  <2>6. PICK q \in Quotas : q = tenants[u]
    BY <1>3 DEF IInv, TypeOK
  <2>7. Registry!Create(u, q)
    BY <1>2, <1>3, <2>1, <2>3, <2>4, <2>5, <2>6 DEF Registry!Create, Registry!Present
  <2> QED  BY <2>5, <2>7 DEF Refines, Registry!Next
<1>6. CASE Rollback(c, {"cpu", "memory", "disk", "monitor"}) /\ UNCHANGED <<groups, lock>>
  BY <1>1, <1>2, <1>3, <1>4, <1>6, RollbackRefines DEF Releases
<1>7. \/ groups' = With(groups, Of(c), tenants[Of(c)]) /\ Return(c) /\ Unlock
      \/ Rollback(c, {"cpu", "memory", "disk", "monitor"}) /\ UNCHANGED <<groups, lock>>
      \/ SpawnMayFail
  BY Zenon DEF CreateGroup
<1>8. CASE groups' = With(groups, Of(c), tenants[Of(c)]) /\ Return(c) /\ Unlock
  BY <1>3, <1>5, <1>8
<1> QED  BY Zenon, <1>6, <1>7, <1>8

LEMMA ResizeGroupRefines ==
  ASSUME IInv, Exact, NEW c \in Clients, ResizeGroup(c)
  PROVE  Refines
<1>1. client[c].at = "resize" /\ client[c].at \in AdminLabels
  BY DEF ResizeGroup, At, AdminLabels
<1>2. UNCHANGED <<tenants, cpu, memory, disk, monitored, mon>> /\ Return(c) /\ Unlock
  BY DEF ResizeGroup, managers
<1>3. PICK u \in Tenants : u = Of(c) /\ u \in Registered /\ Pending = {}
  BY <1>1, Holder
<1>4. Grouped' = Grouped /\ Registered' = Registered /\ Allocated' = Allocated
  BY <1>2 DEF ResizeGroup, Grouped, Registered, Allocated
<1>5. \A t \in Tenants : Held(t)' = Held(t)
  BY <1>2, <1>4 DEF Held
<1>6. Held(u) = Resources
  BY <1>1, <1>3, Holder DEF Exact, Due, Made
<1>7. Exact' /\ Pending' = {}
  BY <1>1, <1>2, <1>3, <1>4, <1>5, <1>6, Ends
<1>8. UNCHANGED Registry!vars
  BY <1>2, <1>3, <1>4, <1>5, <1>7 DEF Registry!vars
<1> QED  BY <1>7, <1>8 DEF Refines

\* Nothing is left when the entry of m_tenants goes.
LEMMA ReleaseRefines ==
  ASSUME IInv, Exact, NEW c \in Clients, NEW r \in Releases, Release(c, r)
  PROVE  Refines
<1>1. client[c].at = "release" /\ client[c].at \in AdminLabels \ {"resize"} /\ mon' = mon
  BY DEF Release, At, AdminLabels
<1>2. PICK u \in Tenants : u = Of(c) /\ u \in Registered /\ Pending = {u}
  BY <1>1, Holder
<1>3. Held(u) = client[c].todo \ {"erase"}
  BY <1>1, <1>2, Holder DEF Exact, Due
<1>4. r \in client[c].todo /\ client[c].todo \subseteq Releases
  BY DEF Release, IInv, TypeOK, ClientType
<1>5. CASE r = "erase"
  <2>1. client[c].todo = {"erase"}
    <3>1. Before["erase"] = Releases \ {"erase"}
      BY DEF Before, Releases
    <3> QED  BY <1>4, <1>5, <3>1 DEF Release
  <2>2. /\ UNCHANGED <<cpu, memory, disk, monitored, groups>>
        /\ tenants' = Without(tenants, u) /\ Return(c) /\ Unlock
    BY <1>2, <1>5 DEF Release
  <2>3. Registered' = Registered \ {u} /\ \A t \in Registered' : tenants'[t] = tenants[t]
    BY <2>2 DEF Registered, Without
  <2>4. Held(u) = {} /\ \A t \in Tenants : Held(t)' = Held(t)
    BY <1>3, <2>1, <2>2, HeldSame
  <2>5. Exact' /\ Pending' = {}
    BY <1>1, <1>2, <2>2, <2>3, <2>4, Ends
  <2>6. UNCHANGED Registry!vars
    BY <1>2, <2>3, <2>4, <2>5 DEF Registry!vars
  <2> QED  BY <2>5, <2>6 DEF Refines
<1>6. CASE r # "erase"
  <2>1. client' = [client EXCEPT ![c].todo = @ \ {r}] /\ UNCHANGED <<tenants, lock>>
    BY <1>6 DEF Release
  <2>2. /\ Moves(c) /\ client'[c].at = "release" /\ Of(c)' = u
        /\ client'[c].todo = client[c].todo \ {r}
    <3>1. client[c].todo \ {r} \in SUBSET Releases
      BY <1>4
    <3> QED  BY <1>1, <1>2, <2>1, <3>1 DEF IInv, TypeOK, ClientType, Moves, Of
  <2>3. r \in Resources
    BY <1>6 DEF Releases, Resources
  <2>4. /\ Allocated' = IF r = "cpu" THEN Allocated \ {u} ELSE Allocated
        /\ Grouped' = IF r = "group" THEN Grouped \ {u} ELSE Grouped
    BY <1>2 DEF Release, Allocated, Grouped, Without
  <2>5. /\ memory' = IF r = "memory" THEN memory \ {u} ELSE memory
        /\ disk' = IF r = "disk" THEN disk \ {u} ELSE disk
        /\ monitored' = IF r = "monitor" THEN monitored \ {u} ELSE monitored
    BY <1>2 DEF Release
  <2>6. Held(u)' = Held(u) \ {r}
    BY <2>3, <2>4, <2>5, HeldLess
  <2>7. \A t \in Tenants \ {u} : Held(t)' = Held(t)
    BY <2>4, <2>5 DEF Held
  <2>8. Held(u)' = Due(c)'
    BY <1>3, <2>2, <2>6 DEF Due
  <2> QED  BY <1>1, <1>2, <2>1, <2>2, <2>7, <2>8, GoesOn DEF Refines, AdminLabels
<1> QED  BY <1>5, <1>6
-------------------------------------------------------------------------------
(***************************************************************************)
(* Everybody else                                                          *)
(***************************************************************************)
LEMMA BusyAreRegistered ==
  ASSUME IInv
  PROVE  \A c \in Clients : InAdmin(c) => Of(c) \in Tenants /\ Of(c) \in Registered
BY DEF IInv, Progress, TypeOK

\* A server is initialised before the first tenant: there is nothing to forget.
LEMMA ServerRefines ==
  ASSUME IInv, Exact, ~LateInit, ~PoolMayStop, ServerStep
  PROVE  Refines
<1>1. UNCHANGED <<lock, tenants, client, mon, cpu, monitored, groups>>
  BY DEF ServerStep, PoolInitialize, ServerInitialize, DataInitialize, ServerStart,
         PoolShutdown, ServerStop, managers, pool
<1>2. UNCHANGED <<memory, disk>>
  <2>1. CASE UNCHANGED <<memory, disk>>
    BY <2>1
  <2>2. CASE ServerInitialize \/ DataInitialize
    <3>1. Registered = {} /\ BusyTenants = {}
      BY <2>2, BusyAreRegistered DEF ServerInitialize, DataInitialize, MayInitialize, BusyTenants
    <3>2. \A t \in Tenants : Held(t) = {}
      BY <3>1 DEF Exact
    <3>3. memory = {} /\ disk = {}
      BY <3>2 DEF Held, Resources, IInv, TypeOK
    <3> QED  BY <2>2, <3>3 DEF ServerInitialize, DataInitialize
  <2> QED  BY <2>1, <2>2 DEF ServerStep, PoolInitialize, ServerStart, PoolShutdown, ServerStop,
                             managers
<1>3. \A t \in Tenants : Held(t)' = Held(t)
  BY <1>1, <1>2, HeldSame
<1> QED  BY <1>1, <1>3, BusyAreRegistered, StandStill DEF Refines

\* No request is under way, and the monitor sleeps.
LEMMA NobodyElse ==
  ASSUME Exact, ~Requests, ~Monitoring
  PROVE  /\ ~MonitorStep
         /\ \A c \in Clients : ~RequestStep(c)
         /\ \A c \in Clients, t \in Tenants : ~Authenticate(c, t)
         /\ \A c \in Clients : /\ ~ConnectUsage(c) /\ ~ConnectQuota(c) /\ ~ConnectFetch(c)
                                /\ ~RequestCpu(c) /\ ~Disconnect(c)
<1>1. ~MonitorStep
  BY DEF MonitorStep, MonitorPass, MonitorPick, MonitorUpdate, MonitorSleep, Exact
<1>2. \A c \in Clients, l \in RequestLabels \cup {"connUsage", "connQuota", "connFetch", "ready"} :
        client[c].at # l
  BY DEF Exact, InAdmin, AdminLabels, RequestLabels
<1>3. \A c \in Clients : ~RequestStep(c)
  BY <1>2 DEF RequestStep, RequestAllocCpu, RequestMemory, RequestAllocMemory, RequestCheck,
              RequestSubmit, RequestUpdate, At, RequestLabels
<1>4. \A c \in Clients : /\ ~ConnectUsage(c) /\ ~ConnectQuota(c) /\ ~ConnectFetch(c)
                         /\ ~RequestCpu(c) /\ ~Disconnect(c)
  BY <1>2 DEF ConnectUsage, ConnectQuota, ConnectFetch, RequestCpu, Disconnect, At
<1> QED  BY <1>1, <1>3, <1>4 DEF Authenticate

LEMMA NextRefines ==
  ASSUME IInv, Exact, Alone, [Next]_vars
  PROVE  Refines
<1>1. ~Requests /\ ~Monitoring /\ ~PoolMayStop /\ ~LateInit /\ ~SpawnMayFail
  BY DEF Alone
<1>2. ASSUME NEW c \in Clients, Call(c)
      PROVE  Refines
  BY <1>1, <1>2, NobodyElse, BeginCreateRefines, BeginUpdateRefines, BeginRemoveRefines DEF Call
<1>3. ASSUME NEW c \in Clients, AdminStep(c)
      PROVE  Refines
  BY <1>1, <1>3, CreateCpuRefines, CreateMemoryRefines, CreateDiskRefines, CreateMonitorRefines,
     CreateGroupRefines, ReleaseRefines, ResizeGroupRefines DEF AdminStep
<1>4. CASE ServerStep
  BY <1>1, <1>4, ServerRefines
<1>5. CASE UNCHANGED vars
  <2>1. UNCHANGED <<lock, tenants, client, mon, cpu, memory, disk, monitored, groups>>
    BY <1>5 DEF vars, managers, pool
  <2> QED  BY <2>1, HeldSame, BusyAreRegistered, StandStill DEF Refines
<1> QED  BY <1>1, <1>2, <1>3, <1>4, <1>5, NobodyElse DEF Next

LEMMA InitRefines ==
  ASSUME Init
  PROVE  Exact /\ Registry!Init
<1>1. Registered = {} /\ lock = NoClient /\ tenants = <<>>
  BY DEF Init, Registered
<1>2. \A c \in Clients : client[c].at = "idle"
  BY DEF Init, IdleClient
<1>3. BusyTenants = {} /\ Pending = {}
  BY <1>1, <1>2 DEF BusyTenants, Pending, InAdmin, AdminLabels
<1>4. \A t \in Tenants : Held(t) = {}
  BY DEF Init, Held, Allocated, Grouped
<1>5. Exact
  BY <1>1, <1>2, <1>3, <1>4 DEF Init, Exact, InAdmin, AdminLabels
<1>6. [t \in Registered \ Pending |-> tenants[t]] = <<>>
  BY <1>1
<1>7. Registry!Init
  BY <1>3, <1>4, <1>6 DEF Registry!Init
<1> QED  BY <1>5, <1>7
-------------------------------------------------------------------------------
(***************************************************************************)
(* The theorems                                                            *)
(***************************************************************************)

\* TenantManager alone implements TenantRegistry: seen from outside its mutex,
\* createTenant, removeTenant and updateTenantQuota take effect at once and as
\* a whole, or not at all, and touch no other tenant.
THEOREM RegistryRefined ==
  ASSUME Alone
  PROVE  Spec => RegistrySpec
<1>1. Init => IInv /\ Exact /\ Registry!Init
  BY InitIInv, InitRefines
<1>2. IInv /\ Exact /\ [Next]_vars => IInv' /\ Exact' /\ [Registry!Next]_(Registry!vars)
  BY NextIInv, NextRefines DEF Refines
<1> QED  BY <1>1, <1>2, PTL DEF Spec, RegistrySpec, Registry!Spec

\* TenantManager alone never leaves a tenant half made: between its calls a
\* registered tenant has every resource and any other tenant none.
THEOREM LifecycleAllOrNothing ==
  ASSUME Alone
  PROVE  Spec => []AllOrNothing
<1>1. Init => IInv /\ Exact
  BY InitIInv, InitRefines
<1>2. IInv /\ Exact /\ [Next]_vars => IInv' /\ Exact'
  BY NextIInv, NextRefines DEF Refines
<1>3. IInv /\ Exact => AllOrNothing
  <2> SUFFICES ASSUME IInv, Exact, Quiet, NEW t \in Tenants
               PROVE  IF t \in Registered THEN HasAll(t) ELSE HasNone(t)
    BY DEF AllOrNothing
  <2>1. Held(t) = IF t \in Registered THEN Resources ELSE {}
    BY Free DEF Quiet, Exact
  <2>2. CASE t \in Registered
    <3>1. \A r \in Resources : r \in Held(t)
      BY <2>1, <2>2
    <3> QED  BY <2>2, <3>1 DEF Held, Resources, HasAll, HoldsShares
  <2>3. CASE t \notin Registered
    <3>1. \A r \in Resources : r \notin Held(t)
      BY <2>1, <2>3
    <3> QED  BY <2>3, <3>1 DEF Held, Resources, HasNone
  <2> QED  BY <2>2, <2>3
<1> QED  BY <1>1, <1>2, <1>3, PTL DEF Spec
===============================================================================
