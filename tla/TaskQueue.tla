------------------------------- MODULE TaskQueue -------------------------------
(***************************************************************************)
(* What LockFreeQueue promises, and what module ThreadPool takes for       *)
(* granted of it: tasks leave in the order in which they came, each once.  *)
(***************************************************************************)
EXTENDS Sequences

CONSTANT Tasks
VARIABLES content, received   \* the queue; the tasks taken from it, in order

vars == <<content, received>>

Init == content = <<>> /\ received = <<>>

Put(k) == content' = Append(content, k) /\ UNCHANGED received

Take == /\ content # <<>>
        /\ content' = Tail(content)
        /\ received' = Append(received, Head(content))

Next == (\E k \in Tasks : Put(k)) \/ Take

Spec == Init /\ [][Next]_vars
===============================================================================
