---------------------------- MODULE CgroupFiles ----------------------------
(***************************************************************************)
(* CgroupController and the kernel's files, as the thread pool uses them:  *)
(* the directory of each tenant, its cpu.shares, and the figures read from *)
(* it.  Directories outlive the process; every file operation may fail.    *)
(* The list of threads and the tasks file are in module ThreadPool.        *)
(*                                                                         *)
(* External: the kernel, which makes the control files of a directory and  *)
(* writes cpu.stat, one "name value" pair a line, and cpuacct.usage.       *)
(***************************************************************************)
EXTENDS Integers, Sequences, Functions

CONSTANTS Tenants, Quotas,
          Shares,           \* arguments of setCpuShares
          MaxTime           \* bound of the kernel's clocks

ASSUME CgroupFilesAssumption ==
  Quotas \subseteq Nat \ {0} /\ Shares \subseteq Nat \ {0} /\ MaxTime \in Nat

VARIABLES
  base,             \* is there a directory basePath_?
  dirs,             \* the tenants' directories; cpu.shares of each, 0: kernel's own
  up,               \* does the pool have a controller?
  listed,           \* keys of tenantThreads_
  groups,           \* the pool's groups: the CPU quota of each
  used, throttled   \* the kernel's accounts of each tenant's directory

files  == <<base, dirs>>
kernel == <<used, throttled>>
vars   == <<files, up, listed, groups, kernel>>

DefaultShares == 1024

Init ==
  /\ base = FALSE /\ dirs = <<>>
  /\ up = FALSE /\ listed = {} /\ groups = <<>>
  /\ used = [t \in Tenants |-> 0] /\ throttled = [t \in Tenants |-> 0]

With(f, x, v) == [y \in DOMAIN f \cup {x} |-> IF y = x THEN v ELSE f[y]]
Without(f, S) == Restrict(f, DOMAIN f \ S)

\* A failing initialize leaves the pool uninitialised.
Initialize ==
  /\ ~up /\ base' \in {base, TRUE}
  /\ up' \in {FALSE, base'}
  /\ UNCHANGED <<dirs, listed, groups, kernel>>

\* Mutant: a directory that is there is used as it is.
CreateReusesDirectory(t, q) ==
  /\ up /\ t \notin DOMAIN groups
  /\ \/ /\ dirs' = IF t \in DOMAIN dirs THEN dirs ELSE With(dirs, t, DefaultShares)
        /\ listed' = listed \cup {t} /\ groups' = With(groups, t, q)
     \/ t \notin DOMAIN dirs /\ dirs' = With(dirs, t, 0) /\ UNCHANGED <<listed, groups>>
  /\ UNCHANGED <<base, up, kernel>>

\* createTenantCgroup, and the group if it succeeds and no thread of the group
\* fails to start: that exception leaves the cgroup behind, listed and without
\* a group.  createTenantCgroup fails if the directory cannot be made, or,
\* leaving the directory, if cpu.shares cannot be written.
Create(t, q) ==
  /\ up /\ t \notin DOMAIN groups
  /\ \/ /\ dirs' = With(dirs, t, DefaultShares) /\ listed' = listed \cup {t}
        /\ groups' \in {groups, With(groups, t, q)}
     \/ /\ dirs' \in {dirs, IF t \in DOMAIN dirs THEN dirs ELSE With(dirs, t, 0)}
        /\ UNCHANGED <<listed, groups>>
  /\ UNCHANGED <<base, up, kernel>>

\* Mutant: the list entry outlives the directory.
RemoveButListed(t) ==
  /\ up /\ t \in DOMAIN groups
  /\ groups' = Without(groups, {t}) /\ dirs' = Without(dirs, {t})
  /\ UNCHANGED <<base, up, listed, kernel>>

\* removeTenantThreadGroup ignores the result of removeTenantCgroup, which
\* keeps the list entry if the directory cannot be removed.
Remove(t) ==
  /\ up /\ t \in DOMAIN groups
  /\ groups' = Without(groups, {t})
  /\ \/ dirs' = Without(dirs, {t}) /\ listed' = listed \ {t}
     \/ UNCHANGED <<dirs, listed>>
  /\ UNCHANGED <<base, up, kernel>>

\* resizeTenantThreads
Resize(t, q) ==
  /\ up /\ t \in DOMAIN groups /\ groups' = With(groups, t, q)
  /\ UNCHANGED <<files, up, listed, kernel>>

\* Nothing in the program calls setCpuShares; it takes no lock and works on
\* any directory that is there.
SetCpuShares(t, s) ==
  /\ up /\ t \in DOMAIN dirs /\ dirs' = With(dirs, t, s)
  /\ UNCHANGED <<base, up, listed, groups, kernel>>

\* The controller's destructor erases from the map it iterates over; which
\* directories are gone afterwards is anybody's guess.
Shutdown ==
  /\ up /\ up' = FALSE /\ listed' = {} /\ groups' = <<>>
  /\ \E S \in SUBSET listed : dirs' = Without(dirs, S)
  /\ UNCHANGED <<base, kernel>>

\* The process ends without a shutdown, and is started again.
Crash ==
  /\ up /\ up' = FALSE /\ listed' = {} /\ groups' = <<>>
  /\ UNCHANGED <<files, kernel>>

\* The kernel accounts the time of a tenant's threads.
Run(t) ==
  /\ t \in DOMAIN groups
  /\ \/ used[t] < MaxTime /\ used' = [used EXCEPT ![t] = @ + 1] /\ UNCHANGED throttled
     \/ throttled[t] < MaxTime /\ throttled' = [throttled EXCEPT ![t] = @ + 1] /\ UNCHANGED used
  /\ UNCHANGED <<files, up, listed, groups>>

-------------------------------------------------------------------------------
Line(k, sep, n) == [key |-> k, sep |-> sep, value |-> n]

UsageFile(t) == IF t \in DOMAIN dirs THEN <<Line("", "", used[t])>> ELSE <<>>
StatFile(t)  ==
  IF t \in DOMAIN dirs
  THEN <<Line("nr_periods", " ", 0), Line("nr_throttled", " ", 0),
         Line("throttled_time", " ", throttled[t])>>
  ELSE <<>>

\* Mutant: the first line is taken for a header.
SkipHeader(f) == IF Len(f) < 2 THEN <<>> ELSE <<f[2]>>

\* One getline: the first line of the file, or nothing.
ReadCgroupFile(f) == IF f = <<>> THEN <<>> ELSE <<Head(f)>>

GetCpuUsage(t) ==
  LET c == ReadCgroupFile(UsageFile(t)) IN IF c = <<>> THEN 0 ELSE c[1].value

\* What follows "throttled_time" and an equals sign.
GetThrottledTime(t) ==
  LET c == ReadCgroupFile(StatFile(t))
      hits == {i \in DOMAIN c : c[i].key = "throttled_time" /\ c[i].sep = "="}
  IN IF hits = {} THEN 0 ELSE c[CHOOSE i \in hits : TRUE].value

-------------------------------------------------------------------------------
Next ==
  \/ Initialize \/ Shutdown \/ Crash
  \/ \E t \in Tenants :
       \/ \E q \in Quotas : Create(t, q) \/ Resize(t, q)
       \/ \E s \in Shares : SetCpuShares(t, s)
       \/ Remove(t) \/ Run(t)

Spec == Init /\ [][Next]_vars

\* Types; and what the controller lists it can also remove: through all
\* failures the directory is still there.
TypeOK ==
  /\ base \in BOOLEAN /\ up \in BOOLEAN
  /\ DOMAIN dirs \subseteq Tenants /\ \A t \in DOMAIN dirs : dirs[t] \in Nat
  /\ listed \subseteq DOMAIN dirs
  /\ DOMAIN groups \subseteq Tenants /\ \A t \in DOMAIN groups : groups[t] \in Quotas
  /\ used \in [Tenants -> 0..MaxTime] /\ throttled \in [Tenants -> 0..MaxTime]
  /\ DOMAIN dirs # {} => base

\* Through failed writes and removals, crashes and what earlier runs of the
\* process left behind: the cgroup of a group is there, with shares written by
\* this program, and the controller lists it.
GroupHasCgroup ==
  \A t \in DOMAIN groups : up /\ t \in listed /\ t \in DOMAIN dirs /\ dirs[t] # 0

\* The usage read is the kernel's, or zero if there is no directory to read.
CpuUsageSeen == \A t \in DOMAIN groups : GetCpuUsage(t) = used[t]

\* Refuted: getThrottledTime returns the time the tenant was throttled.
ThrottledTimeSeen == \A t \in DOMAIN groups : GetThrottledTime(t) = throttled[t]

\* Refuted: the shares of two tenants are in the proportion of their quotas.
SharesFollowQuota ==
  \A t, u \in DOMAIN groups : groups[t] * dirs[u] = groups[u] * dirs[t]
===============================================================================
