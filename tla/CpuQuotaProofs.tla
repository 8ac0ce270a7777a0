---------------------------- MODULE CpuQuotaProofs ----------------------------
(***************************************************************************)
(* The CPU usage under any number of clients, for every step and every     *)
(* figure that others write.                                               *)
(***************************************************************************)
EXTENDS CpuQuota, TLAPS

\* What a client remembers of the usage: a request in progress was admitted at
\* the threshold or below it, and a comparison is of a usage that was there.
SeenInv ==
  \A c \in Clients :
    /\ At(c, "compare") => Seen(c) >= 0
    /\ At(c, "allocate") => Seen(c) <= Threshold
    /\ At(c, "work") => Seen(c) <= Threshold

\* What was handled accounts for the usage and for the ones that requests in
\* progress remember.
ChargeInv ==
  /\ Accounted(usage)
  /\ \A c \in Clients : At(c, "allocate") \/ At(c, "work") => Accounted(Seen(c))

IInv == TypeOK /\ UsageBounded /\ SeenInv /\ ChargeInv

Labels == {"idle", "check", "compare", "ready", "allocate", "work"}

\* The product is the only arithmetic that is not linear.
LEMMA Charge ==
  ASSUME NEW n \in Nat
  PROVE  /\ Step * n \in Nat
         /\ Step * (n + 1) = Step * n + Step
BY CpuQuotaAssumption

LEMMA InitIInv == Init => IInv
<1> SUFFICES ASSUME Init PROVE IInv
  OBVIOUS
<1>1. TypeOK
  BY CpuQuotaAssumption DEF Init, TypeOK
<1>2. UsageBounded /\ SeenInv
  BY CpuQuotaAssumption DEF Init, UsageBounded, SeenInv, At, Seen, Threshold
<1>3. ChargeInv
  BY CpuQuotaAssumption DEF Init, ChargeInv, Accounted, At
<1> QED BY <1>1, <1>2, <1>3 DEF IInv

LEMMA AdminIInv ==
  ASSUME IInv, CreateTenant \/ RemoveTenant \/ UpdateQuota \/ UpdateUsage
  PROVE  IInv'
<1> USE CpuQuotaAssumption
<1>0. handled \in Nat /\ Step * handled \in Nat
  BY Charge DEF IInv, TypeOK
<1>1. TypeOK'
  <2>1. usage' \in Int
    <3>1. Figures \subseteq Int /\ usage \in Int /\ Absent \in Int /\ 0 \in Int
      BY DEF IInv, TypeOK, Absent
    <3>2. usage' \in Figures \cup {0, Absent, usage}
      BY DEF CreateTenant, RemoveTenant, UpdateQuota, UpdateUsage
    <3> QED BY <3>1, <3>2
  <2>2. quota' \in Quotas \cup {Gone}
    BY DEF IInv, TypeOK, CreateTenant, RemoveTenant, UpdateQuota, UpdateUsage
  <2>3. UNCHANGED <<client, handled, granted>>
    BY DEF CreateTenant, RemoveTenant, UpdateQuota, UpdateUsage
  <2> QED BY <2>1, <2>2, <2>3 DEF IInv, TypeOK
<1>2. UsageBounded'
  BY DEF IInv, TypeOK, UsageBounded, CreateTenant, RemoveTenant, UpdateQuota, UpdateUsage,
         Absent, Threshold
<1>3. SeenInv'
  BY DEF IInv, SeenInv, CreateTenant, RemoveTenant, UpdateQuota, UpdateUsage, At, Seen
<1>4. ChargeInv'
  <2>1. UNCHANGED <<client, handled>>
    BY DEF CreateTenant, RemoveTenant, UpdateQuota, UpdateUsage
  <2>2. usage' \in Figures \cup {0, Absent, usage}
    BY DEF CreateTenant, RemoveTenant, UpdateQuota, UpdateUsage
  <2>3. \A u \in Figures \cup {0, Absent} : Accounted(u)
    BY <1>0 DEF Accounted, Absent
  <2>4. Accounted(usage')
    BY <2>2, <2>3 DEF IInv, ChargeInv
  <2> QED BY <2>1, <2>4 DEF IInv, ChargeInv, Accounted, At, Seen
<1> QED BY <1>1, <1>2, <1>3, <1>4 DEF IInv

\* Steps that leave the usage alone and remember none that a request uses.
LEMMA ConnectIInv ==
  ASSUME IInv, NEW c \in Clients,
         Authenticate(c) \/ CheckUsage(c) \/ CompareQuota(c) \/ Disconnect(c) \/ Refuse(c)
  PROVE  IInv'
<1> USE CpuQuotaAssumption
<1>1. TypeOK'
  BY DEF IInv, TypeOK, SeenInv, Authenticate, CheckUsage, CompareQuota, Disconnect, Refuse, Goto,
         ReadUsage, At, Seen, Registered, Gone, BelowQuota
<1>2. UsageBounded'
  BY DEF IInv, UsageBounded, Authenticate, CheckUsage, CompareQuota, Disconnect, Refuse
<1>3. ASSUME NEW d \in Clients
      PROVE  /\ At(d, "compare")' => Seen(d)' >= 0
             /\ At(d, "allocate")' \/ At(d, "work")' =>
                  Seen(d)' = Seen(d) /\ (At(d, "allocate") \/ At(d, "work"))
             /\ At(d, "allocate")' \/ At(d, "work")' => Seen(d) <= Threshold
  BY DEF IInv, TypeOK, SeenInv, Authenticate, CheckUsage, CompareQuota, Disconnect, Refuse, Goto,
         ReadUsage, At, Seen
<1>4. SeenInv'
  BY <1>3 DEF SeenInv
<1>5. UNCHANGED <<usage, handled>>
  BY DEF Authenticate, CheckUsage, CompareQuota, Disconnect, Refuse
<1>6. ChargeInv'
  BY <1>3, <1>5 DEF IInv, ChargeInv, Accounted
<1> QED BY <1>1, <1>2, <1>4, <1>6 DEF IInv

LEMMA BeginIInv ==
  ASSUME IInv, NEW c \in Clients, BeginRequest(c)
  PROVE  IInv'
<1> USE CpuQuotaAssumption
<1>1. TypeOK'
  <2>1. PICK l \in {"allocate", "work"} :
          client' = [client EXCEPT ![c].at = l, ![c].seen = usage]
    BY DEF BeginRequest, ReadUsage
  <2>2. client' \in [Clients -> [at : Labels, seen : Int]]
    <3> DEFINE new == [client[c] EXCEPT !.at = l, !.seen = usage]
    <3>1. client' = [client EXCEPT ![c] = new]
      BY <2>1
    <3>2. client \in [Clients -> [at : Labels, seen : Int]]
      BY DEF IInv, TypeOK, Labels
    <3>3. client[c] \in [at : Labels, seen : Int] /\ l \in Labels /\ usage \in Int
      BY <3>2 DEF IInv, TypeOK, Labels
    <3>4. new \in [at : Labels, seen : Int]
      BY <3>3
    <3> HIDE DEF new
    <3> QED BY <3>1, <3>2, <3>4
  <2> QED BY <2>2 DEF IInv, TypeOK, BeginRequest, Labels
<1>2. UsageBounded'
  BY DEF IInv, UsageBounded, BeginRequest
<1>3. ASSUME NEW d \in Clients
      PROVE  \/ client'[d] = client[d]
             \/ /\ Seen(d)' = usage /\ usage <= Threshold
                /\ At(d, "allocate")' \/ At(d, "work")'
                /\ ~At(d, "compare")'
  BY DEF IInv, TypeOK, BeginRequest, ReadUsage, At, Seen
<1>4. SeenInv'
  BY <1>3 DEF IInv, SeenInv, At, Seen
<1>5. UNCHANGED <<usage, handled>>
  BY DEF BeginRequest
<1>6. ChargeInv'
  BY <1>3, <1>5 DEF IInv, ChargeInv, Accounted, At, Seen
<1> QED BY <1>1, <1>2, <1>4, <1>6 DEF IInv

LEMMA WorkIInv ==
  ASSUME IInv, NEW c \in Clients, Allocate(c) \/ Finish(c)
  PROVE  IInv'
<1> USE CpuQuotaAssumption
<1>0. handled \in Nat /\ Step * handled \in Nat /\ Step * (handled + 1) = Step * handled + Step
  BY Charge DEF IInv, TypeOK
<1>1. TypeOK'
  BY DEF IInv, TypeOK, Allocate, Finish, Goto, Seen
<1>2. UsageBounded'
  BY DEF IInv, TypeOK, UsageBounded, SeenInv, Allocate, Finish, Threshold, Seen
<1>3. ASSUME NEW d \in Clients
      PROVE  /\ Seen(d)' = Seen(d)
             /\ At(d, "compare")' => At(d, "compare")
             /\ At(d, "allocate")' \/ At(d, "work")' => At(d, "allocate") \/ At(d, "work")
  BY DEF IInv, TypeOK, Allocate, Finish, Goto, At, Seen
<1>4. SeenInv'
  BY <1>3 DEF IInv, SeenInv
<1>5. CASE Allocate(c)
  <2>1. handled' = handled /\ usage' \in {0, usage}
    BY <1>5 DEF Allocate
  <2>2. Accounted(0)
    BY <1>0 DEF Accounted
  <2> QED BY <2>1, <2>2, <1>1, <1>2, <1>3, <1>4 DEF IInv, ChargeInv, Accounted
<1>6. CASE Finish(c)
  <2>1. handled' = handled + 1 /\ usage' = Seen(c) + Step /\ At(c, "work")
    BY <1>6 DEF Finish
  <2>2. \A d \in Clients : Seen(d) \in Int
    BY DEF IInv, TypeOK, Seen
  <2>3. Step \in Nat
    OBVIOUS
  <2>4. ASSUME NEW u \in Int, Accounted(u)
        PROVE  Accounted(u)' /\ Accounted(u + Step)'
    BY <2>1, <2>3, <2>4, <1>0 DEF Accounted
  <2>5. ChargeInv'
    BY <2>1, <2>2, <2>4, <1>3 DEF IInv, ChargeInv, Accounted
  <2> QED BY <2>5, <1>1, <1>2, <1>4 DEF IInv
<1> QED BY <1>5, <1>6

LEMMA StepIInv == IInv /\ [Next]_vars => IInv'
<1> SUFFICES ASSUME IInv, [Next]_vars PROVE IInv'
  OBVIOUS
<1>1. CASE UNCHANGED vars
  BY <1>1 DEF IInv, TypeOK, UsageBounded, SeenInv, ChargeInv, Accounted, At, Seen, vars
<1>2. CASE Next
  BY <1>2, AdminIInv, ConnectIInv, BeginIInv, WorkIInv DEF Next
<1> QED BY <1>1, <1>2

\* The inductive invariant: what is remembered of the usage is bounded, too.
THEOREM QuotaInvariant == Spec => []IInv
BY InitIInv, StepIInv, PTL DEF Spec

\* However many requests were admitted before any of them wrote the usage, it
\* stays within one step of the threshold, or is a figure someone else wrote.
THEOREM QuotaUsageBounded == Spec => []UsageBounded
BY QuotaInvariant, PTL DEF IInv

\* The usage never exceeds one step for each request handled on top of what
\* others may have written, whatever was lost, remembered or removed in between.
THEOREM QuotaChargedAtMostOnce == Spec => []ChargedAtMostOnce
<1>1. IInv => ChargedAtMostOnce
  BY DEF IInv, ChargeInv, ChargedAtMostOnce
<1> QED BY <1>1, QuotaInvariant, PTL
===============================================================================
