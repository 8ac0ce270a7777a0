--------------------------- MODULE CgroupFilesProofs ---------------------------
(***************************************************************************)
(* The tenants' cgroup directories, for any tenants, quotas and shares,    *)
(* through any sequence of failures, crashes and restarts.                 *)
(***************************************************************************)
EXTENDS CgroupFiles, TLAPS

\* A controller that is not there has no list and serves no groups: what a
\* crash leaves behind is directories only.
DownIsEmpty == ~up => listed = {} /\ DOMAIN groups = {}

\* A controller has its base directory.
UpHasBase == up => base

IInv == TypeOK /\ GroupHasCgroup /\ DownIsEmpty /\ UpHasBase

LEMMA NoneYet == DOMAIN <<>> = {}
OBVIOUS

LEMMA InitIInv == Init => IInv
<1> SUFFICES ASSUME Init PROVE IInv
  OBVIOUS
<1>1. DOMAIN dirs = {} /\ DOMAIN groups = {} /\ listed = {} /\ ~up /\ base = FALSE /\ up = FALSE
  BY NoneYet DEF Init
<1>2. used \in [Tenants -> 0..MaxTime] /\ throttled \in [Tenants -> 0..MaxTime]
  BY CgroupFilesAssumption DEF Init
<1> QED BY <1>1, <1>2 DEF IInv, TypeOK, GroupHasCgroup, DownIsEmpty, UpHasBase

\* The pool is set up, shut down or killed.
LEMMA LifeIInv ==
  ASSUME IInv, Initialize \/ Shutdown \/ Crash
  PROVE  IInv'
<1>1. CASE Initialize
  <2>1. base' \in BOOLEAN /\ up' \in BOOLEAN /\ (base => base') /\ (up' => base') /\ ~up
    <3>1. base \in BOOLEAN /\ ~up /\ base' \in {base, TRUE} /\ up' \in {FALSE, base'}
      BY <1>1 DEF IInv, TypeOK, Initialize
    <3>2. CASE base' = base
      BY <3>1, <3>2, Zenon
    <3>3. CASE base' = TRUE
      BY <3>1, <3>3, Zenon
    <3> QED BY <3>1, <3>2, <3>3, Zenon
  <2>2. UNCHANGED <<dirs, listed, groups, used, throttled>>
    BY <1>1 DEF Initialize, kernel
  <2>3. listed = {} /\ DOMAIN groups = {}
    BY <2>1 DEF IInv, DownIsEmpty
  <2> QED BY <2>1, <2>2, <2>3 DEF IInv, TypeOK, GroupHasCgroup, DownIsEmpty, UpHasBase
<1>2. CASE Shutdown
  <2>1. PICK S \in SUBSET listed : dirs' = [t \in DOMAIN dirs \ S |-> dirs[t]]
    BY <1>2 DEF Shutdown, Without, Restrict
  <2>2. DOMAIN dirs' \subseteq DOMAIN dirs /\ \A t \in DOMAIN dirs' : dirs'[t] = dirs[t]
    BY <2>1
  <2>3. up' = FALSE /\ listed' = {} /\ DOMAIN groups' = {} /\ UNCHANGED <<base, used, throttled>>
    BY <1>2, NoneYet DEF Shutdown, kernel
  <2> QED BY <2>2, <2>3 DEF IInv, TypeOK, GroupHasCgroup, DownIsEmpty, UpHasBase
<1>3. CASE Crash
  BY <1>3, NoneYet DEF IInv, TypeOK, GroupHasCgroup, DownIsEmpty, UpHasBase, Crash, kernel, files
<1> QED BY <1>1, <1>2, <1>3

LEMMA CreateIInv ==
  ASSUME IInv, NEW t \in Tenants, NEW q \in Quotas, Create(t, q)
  PROVE  IInv'
BY CgroupFilesAssumption
   DEF IInv, TypeOK, GroupHasCgroup, DownIsEmpty, UpHasBase, Create, kernel, With, DefaultShares

LEMMA RemoveIInv ==
  ASSUME IInv, NEW t \in Tenants, Remove(t)
  PROVE  IInv'
BY DEF IInv, TypeOK, GroupHasCgroup, DownIsEmpty, UpHasBase, Remove, kernel, Without, Restrict

\* Quotas, shares and the kernel's accounts.
LEMMA ChangeIInv ==
  ASSUME IInv, NEW t \in Tenants,
         (\E q \in Quotas : Resize(t, q)) \/ (\E s \in Shares : SetCpuShares(t, s)) \/ Run(t)
  PROVE  IInv'
<1> USE CgroupFilesAssumption
<1>1. ASSUME NEW q \in Quotas, Resize(t, q) PROVE IInv'
  BY <1>1 DEF IInv, TypeOK, GroupHasCgroup, DownIsEmpty, UpHasBase, Resize, With, files, kernel
<1>2. ASSUME NEW s \in Shares, SetCpuShares(t, s) PROVE IInv'
  BY <1>2 DEF IInv, TypeOK, GroupHasCgroup, DownIsEmpty, UpHasBase, SetCpuShares, With, kernel
<1>3. CASE Run(t)
  <2>1. UNCHANGED <<base, dirs, up, listed, groups>>
    BY <1>3 DEF Run, files
  <2>2. used' \in [Tenants -> 0..MaxTime] /\ throttled' \in [Tenants -> 0..MaxTime]
    BY <1>3 DEF IInv, TypeOK, Run
  <2> QED BY <2>1, <2>2 DEF IInv, TypeOK, GroupHasCgroup, DownIsEmpty, UpHasBase
<1> QED BY <1>1, <1>2, <1>3

LEMMA StepIInv == IInv /\ [Next]_vars => IInv'
<1> SUFFICES ASSUME IInv, [Next]_vars PROVE IInv'
  OBVIOUS
<1>1. CASE UNCHANGED vars
  BY <1>1 DEF IInv, TypeOK, GroupHasCgroup, DownIsEmpty, UpHasBase, vars, files, kernel
<1>2. CASE Next
  BY <1>2, LifeIInv, CreateIInv, RemoveIInv, ChangeIInv DEF Next
<1> QED BY <1>1, <1>2

\* The inductive invariant: what is there without a controller, and what it
\* needs when it is there.
THEOREM FilesInvariant == Spec => []IInv
BY InitIInv, StepIInv, PTL DEF Spec

\* Types; and whatever the controller lists, it can remove.
THEOREM FilesTypeOK == Spec => []TypeOK
BY FilesInvariant, PTL DEF IInv

\* A group's cgroup is there, listed, and has shares that this program wrote,
\* whatever earlier processes and failed operations left on the disk.
THEOREM FilesGroupHasCgroup == Spec => []GroupHasCgroup
BY FilesInvariant, PTL DEF IInv

\* The usage that is read for a group is the one the kernel has accounted.
THEOREM FilesCpuUsageSeen == Spec => []CpuUsageSeen
<1>1. IInv => CpuUsageSeen
  BY DEF IInv, TypeOK, GroupHasCgroup, CpuUsageSeen, GetCpuUsage, ReadCgroupFile, UsageFile, Line
<1> QED BY <1>1, FilesInvariant, PTL
===============================================================================
