------------------------------ MODULE TaskService ------------------------------
(***************************************************************************)
(* What the thread pool promises the servers, without threads, queues or   *)
(* locks: a tenant is served or it is not; a task is accepted for a served *)
(* tenant, once; it is then settled (executed, or dropped as invalid) or   *)
(* lost, and it is lost only in the step that ends the service of the      *)
(* tenant it was accepted for.                                             *)
(***************************************************************************)
CONSTANTS Tenants, Tasks, NoTenant

VARIABLES served,    \* tenants with a thread group
          owner,     \* the tenant a task was accepted for
          outcome    \* of each task

vars == <<served, owner, outcome>>

Init ==
  /\ served = {}
  /\ owner = [k \in Tasks |-> NoTenant]
  /\ outcome = [k \in Tasks |-> "unsubmitted"]

Open(t) ==
  /\ t \notin served
  /\ served' = served \cup {t}
  /\ UNCHANGED <<owner, outcome>>

\* The service of the tenants in S ends; their pending tasks are lost.
Close(S) ==
  /\ S # {} /\ S \subseteq served
  /\ served' = served \ S
  /\ outcome' = [k \in Tasks |->
       IF owner[k] \in S /\ outcome[k] = "pending" THEN "lost" ELSE outcome[k]]
  /\ UNCHANGED owner

Accept(t, k) ==
  /\ t \in served /\ outcome[k] = "unsubmitted"
  /\ owner' = [owner EXCEPT ![k] = t]
  /\ outcome' = [outcome EXCEPT ![k] = "pending"]
  /\ UNCHANGED served

Settle(k) ==
  /\ outcome[k] = "pending" /\ owner[k] \in served
  /\ \E o \in {"executed", "discarded"} : outcome' = [outcome EXCEPT ![k] = o]
  /\ UNCHANGED <<served, owner>>

Next ==
  \/ \E t \in Tenants : Open(t)
  \/ \E S \in SUBSET Tenants : Close(S)
  \/ \E t \in Tenants, k \in Tasks : Accept(t, k)
  \/ \E k \in Tasks : Settle(k)

Spec == Init /\ [][Next]_vars
===============================================================================
