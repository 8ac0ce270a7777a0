---------------------------- MODULE TenantRegistry ----------------------------
(***************************************************************************)
(* What TenantManager promises those who call it, without its mutex, the   *)
(* managers behind it or the steps of a call: creating a tenant gives it   *)
(* all of its resources at once, removing it takes all of them at once, an *)
(* update changes its quota and nothing else, and a call that fails does   *)
(* nothing.                                                                *)
(***************************************************************************)
CONSTANTS Tenants, Quotas, Resources

VARIABLES quota,        \* of each tenant that is there
          held          \* the resources of each tenant

vars == <<quota, held>>

Present == DOMAIN quota

Init == quota = <<>> /\ held = [t \in Tenants |-> {}]

Create(t, q) ==
  /\ t \notin Present
  /\ quota' = [u \in Present \cup {t} |-> IF u = t THEN q ELSE quota[u]]
  /\ held' = [held EXCEPT ![t] = Resources]

Remove(t) ==
  /\ t \in Present
  /\ quota' = [u \in Present \ {t} |-> quota[u]]
  /\ held' = [held EXCEPT ![t] = {}]

Update(t, q) ==
  /\ t \in Present
  /\ quota' = [quota EXCEPT ![t] = q]
  /\ UNCHANGED held

Next == \E t \in Tenants : Remove(t) \/ (\E q \in Quotas : Create(t, q) \/ Update(t, q))

Spec == Init /\ [][Next]_vars
===============================================================================
