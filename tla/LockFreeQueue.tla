----------------------------- MODULE LockFreeQueue -----------------------------
(***************************************************************************)
(* LockFreeQueue of a tenant's thread group, one atomic load, store or     *)
(* compare-and-swap per step.  Producers are the callers of submitTask,    *)
(* which ThreadPoolManager's mutex lets in one at a time; consumers are    *)
(* the group's worker threads.                                             *)
(*                                                                         *)
(* Nodes are memory cells: a node that is deleted is free for the next     *)
(* allocation.  Touching a free node is undefined behaviour: the model     *)
(* records the fault and stops.  compare_exchange_weak may fail although   *)
(* the value is the expected one on machines that build it from a load and *)
(* a conditional store (WeakCAS), and may not on x86.                      *)
(***************************************************************************)
EXTENDS Integers, Sequences, FiniteSets

CONSTANTS Producers, Consumers, Tasks,
          Nodes,          \* bound: the cells of the allocator
          SizeRange,      \* bound: 2^w of the size counter
          WeakCAS,        \* may compare_exchange_weak fail spuriously?
          NoNode, NoTask

ASSUME QueueAssumption ==
  /\ NoNode \notin Nodes /\ NoTask \notin Tasks
  \* allocation always succeeds
  /\ IsFiniteSet(Nodes) => Cardinality(Tasks) < Cardinality(Nodes)
  /\ WeakCAS \in BOOLEAN
  /\ SizeRange \in Nat /\ SizeRange > 1

VARIABLES
  alive, next, task,   \* the allocated nodes and their fields
  head, tail, size,    \* head_, tail_, size_
  prod, cons,          \* local variables of the threads
  submitted, received, \* history: the tasks put into a node, the tasks returned
  fault

heap    == <<alive, next, task>>
history == <<submitted, received>>
vars == <<heap, head, tail, size, prod, cons, history, fault>>

IdleProducer == [at |-> "idle", new |-> NoNode, tail |-> NoNode, next |-> NoNode]
IdleConsumer == [at |-> "idle", head |-> NoNode, tail |-> NoNode, next |-> NoNode,
                 task |-> NoTask]

Init ==
  \E dummy \in Nodes :
    /\ alive = {dummy} /\ head = dummy /\ tail = dummy
    /\ next = [n \in Nodes |-> NoNode] /\ task = [n \in Nodes |-> NoTask]
    /\ size = 0
    /\ prod = [p \in Producers |-> IdleProducer]
    /\ cons = [c \in Consumers |-> IdleConsumer]
    /\ submitted = {} /\ received = <<>>
    /\ fault = FALSE

\* A step of thread x at label; ptr is a node it dereferences.
ProducerAt(p, label) == ~fault /\ prod[p].at = label
ConsumerAt(c, label) == ~fault /\ cons[c].at = label
PGoto(p, label) == prod' = [prod EXCEPT ![p].at = label]
CGoto(c, label) == cons' = [cons EXCEPT ![c].at = label]
Crash == fault' = TRUE /\ UNCHANGED <<heap, head, tail, size, prod, cons, history>>
Safe  == UNCHANGED fault

\* tail_.compare_exchange_weak(expected, value)
SwingTail(expected, value) ==
  \/ tail = expected /\ tail' = value
  \/ (tail # expected \/ WeakCAS) /\ UNCHANGED tail

(***************************************************************************)
(* enqueue                                                                 *)
(***************************************************************************)
Enqueue(p, k, n) ==
  /\ ProducerAt(p, "idle") /\ k \notin submitted /\ n \in Nodes \ alive
  /\ alive' = alive \cup {n}
  /\ next' = [next EXCEPT ![n] = NoNode]
  /\ task' = [task EXCEPT ![n] = k]
  /\ submitted' = submitted \cup {k}
  /\ prod' = [prod EXCEPT ![p].at = "loadTail", ![p].new = n]
  /\ UNCHANGED <<head, tail, size, cons, received>> /\ Safe

LoadTail(p) ==
  /\ ProducerAt(p, "loadTail")
  /\ prod' = [prod EXCEPT ![p].at = "loadNext", ![p].tail = tail]
  /\ UNCHANGED <<heap, head, tail, size, cons, history>> /\ Safe

LoadNext(p) ==
  /\ ProducerAt(p, "loadNext")
  /\ IF prod[p].tail \in alive
     THEN /\ prod' = [prod EXCEPT ![p].at = "recheck", ![p].next = next[prod[p].tail]]
          /\ UNCHANGED <<heap, head, tail, size, cons, history>> /\ Safe
     ELSE Crash

RecheckTail(p) ==
  /\ ProducerAt(p, "recheck")
  /\ PGoto(p, IF prod[p].tail # tail THEN "loadTail"
              ELSE IF prod[p].next = NoNode THEN "link" ELSE "help")
  /\ UNCHANGED <<heap, head, tail, size, cons, history>> /\ Safe

\* Mutant: a plain store in place of the compare-and-swap of next.
LinkByStore(p) ==
  /\ ProducerAt(p, "link")
  /\ next' = [next EXCEPT ![prod[p].tail] = prod[p].new]
  /\ PGoto(p, "swing")
  /\ UNCHANGED <<alive, task, head, tail, size, cons, history>> /\ Safe

Link(p) ==
  LET last == prod[p].tail IN
  /\ ProducerAt(p, "link")
  /\ IF last \notin alive THEN Crash
     ELSE /\ \/ /\ next[last] = NoNode
                /\ next' = [next EXCEPT ![last] = prod[p].new]
                /\ PGoto(p, "swing")
             \/ /\ next[last] # NoNode \/ WeakCAS
                /\ PGoto(p, "loadTail") /\ UNCHANGED next
          /\ UNCHANGED <<alive, task, head, tail, size, cons, history>> /\ Safe

HelpEnqueue(p) ==
  /\ ProducerAt(p, "help")
  /\ SwingTail(prod[p].tail, prod[p].next)
  /\ PGoto(p, "loadTail")
  /\ UNCHANGED <<heap, head, size, cons, history>> /\ Safe

\* Mutant: enqueue leaves tail_ for others to help forward.
SwingLeftToOthers(p) ==
  /\ ProducerAt(p, "swing")
  /\ PGoto(p, "count")
  /\ UNCHANGED <<heap, head, tail, size, cons, history>> /\ Safe

\* Mutant: a task is counted only by who moves tail_ to it.
SwingCountsIfMoved(p) ==
  /\ ProducerAt(p, "swing")
  /\ \/ tail = prod[p].tail /\ tail' = prod[p].new /\ PGoto(p, "count")
     \/ /\ tail # prod[p].tail /\ UNCHANGED tail
        /\ prod' = [prod EXCEPT ![p] = IdleProducer]
  /\ UNCHANGED <<heap, head, size, cons, history>> /\ Safe

Swing(p) ==
  /\ ProducerAt(p, "swing")
  /\ SwingTail(prod[p].tail, prod[p].new)
  /\ PGoto(p, "count")
  /\ UNCHANGED <<heap, head, size, cons, history>> /\ Safe

Count(p) ==
  /\ ProducerAt(p, "count")
  /\ size' = (size + 1) % SizeRange
  /\ prod' = [prod EXCEPT ![p] = IdleProducer]
  /\ UNCHANGED <<heap, head, tail, cons, history>> /\ Safe

(***************************************************************************)
(* dequeue                                                                 *)
(***************************************************************************)
Dequeue(c) ==
  /\ ConsumerAt(c, "idle")
  /\ cons' = [cons EXCEPT ![c].at = "loadTail", ![c].head = head]
  /\ UNCHANGED <<heap, head, tail, size, prod, history>> /\ Safe

DequeueLoadTail(c) ==
  /\ ConsumerAt(c, "loadTail")
  /\ cons' = [cons EXCEPT ![c].at = "loadNext", ![c].tail = tail]
  /\ UNCHANGED <<heap, head, tail, size, prod, history>> /\ Safe

DequeueLoadNext(c) ==
  /\ ConsumerAt(c, "loadNext")
  /\ IF cons[c].head \in alive
     THEN /\ cons' = [cons EXCEPT ![c].at = "recheck", ![c].next = next[cons[c].head]]
          /\ UNCHANGED <<heap, head, tail, size, prod, history>> /\ Safe
     ELSE Crash

\* Mutant: on an empty queue dequeue waits, on the values it loaded before.
RecheckHeadWaits(c) ==
  LET me == cons[c] IN
  /\ ConsumerAt(c, "recheck")
  /\ cons' = IF me.head = me.tail /\ me.next = NoNode THEN cons
             ELSE IF me.head # head THEN [cons EXCEPT ![c] = IdleConsumer]
             ELSE [cons EXCEPT ![c].at = IF me.head = me.tail THEN "help" ELSE "unlink"]
  /\ UNCHANGED <<heap, head, tail, size, prod, history>> /\ Safe

\* An empty queue is reported here: dequeue returns nullptr.
RecheckHead(c) ==
  LET me == cons[c] IN
  /\ ConsumerAt(c, "recheck")
  /\ cons' = IF me.head # head \/ (me.head = me.tail /\ me.next = NoNode)
             THEN [cons EXCEPT ![c] = IdleConsumer]
             ELSE [cons EXCEPT ![c].at = IF me.head = me.tail THEN "help" ELSE "unlink"]
  /\ UNCHANGED <<heap, head, tail, size, prod, history>> /\ Safe

\* Mutant: tail_ is not helped forward.
NoHelp(c) ==
  /\ ConsumerAt(c, "help")
  /\ cons' = [cons EXCEPT ![c].at = "unlink"]
  /\ UNCHANGED <<heap, head, tail, size, prod, history>> /\ Safe

HelpDequeue(c) ==
  /\ ConsumerAt(c, "help")
  /\ SwingTail(cons[c].tail, cons[c].next)
  /\ cons' = [cons EXCEPT ![c] = IdleConsumer]
  /\ UNCHANGED <<heap, head, size, prod, history>> /\ Safe

Unlink(c) ==
  /\ ConsumerAt(c, "unlink")
  /\ \/ /\ head = cons[c].head
        /\ head' = cons[c].next
        /\ CGoto(c, "take")
     \/ /\ head # cons[c].head \/ WeakCAS
        /\ cons' = [cons EXCEPT ![c] = IdleConsumer]
        /\ UNCHANGED head
  /\ UNCHANGED <<heap, tail, size, prod, history>> /\ Safe

\* Mutant: the task of the dummy is returned, not that of the node after it.
TakeDummysTask(c) ==
  /\ ConsumerAt(c, "take")
  /\ cons' = [cons EXCEPT ![c].at = "uncount", ![c].task = task[cons[c].head]]
  /\ UNCHANGED <<heap, head, tail, size, prod, history>> /\ Safe

TakeTask(c) ==
  LET first == cons[c].next IN
  /\ ConsumerAt(c, "take")
  /\ IF first \notin alive THEN Crash
     ELSE /\ cons' = [cons EXCEPT ![c].at = "uncount", ![c].task = task[first]]
          /\ task' = [task EXCEPT ![first] = NoTask]
          /\ UNCHANGED <<alive, next, head, tail, size, prod, history>> /\ Safe

Uncount(c) ==
  /\ ConsumerAt(c, "uncount")
  /\ size' = (size - 1) % SizeRange
  /\ CGoto(c, "delete")
  /\ UNCHANGED <<heap, head, tail, prod, history>> /\ Safe

DeleteNode(c) ==
  /\ ConsumerAt(c, "delete")
  /\ IF cons[c].head \notin alive THEN Crash
     ELSE /\ alive' = alive \ {cons[c].head}
          /\ received' = Append(received, cons[c].task)
          /\ cons' = [cons EXCEPT ![c] = IdleConsumer]
          /\ UNCHANGED <<next, task, head, tail, size, prod, submitted>> /\ Safe

-------------------------------------------------------------------------------
ProducerStep(p) ==
  LoadTail(p) \/ LoadNext(p) \/ RecheckTail(p) \/ Link(p) \/ HelpEnqueue(p)
  \/ Swing(p) \/ Count(p)

ConsumerStep(c) ==
  Dequeue(c) \/ DequeueLoadTail(c) \/ DequeueLoadNext(c) \/ RecheckHead(c)
  \/ HelpDequeue(c) \/ Unlink(c) \/ TakeTask(c) \/ Uncount(c) \/ DeleteNode(c)

Next ==
  \/ \E p \in Producers : (\E k \in Tasks, n \in Nodes : Enqueue(p, k, n)) \/ ProducerStep(p)
  \/ \E c \in Consumers : ConsumerStep(c)

Spec == Init /\ [][Next]_vars

\* A thread inside enqueue goes on, and a worker calls dequeue again and again.
Fairness == /\ \A p \in Producers : WF_vars(ProducerStep(p))
            /\ \A c \in Consumers : WF_vars(ConsumerStep(c))
FairSpec == Spec /\ Fairness
-------------------------------------------------------------------------------
\* Types of the state; the queue always has its dummy and its last node.
TypeOK ==
  /\ alive \subseteq Nodes /\ {head, tail} \subseteq Nodes
  /\ next \in [Nodes -> Nodes \cup {NoNode}] /\ task \in [Nodes -> Tasks \cup {NoTask}]
  /\ size \in 0..(SizeRange - 1)
  /\ submitted \subseteq Tasks /\ received \in Seq(Tasks)
  /\ fault \in BOOLEAN

\* No thread touches a node that another one has deleted.
NoUseAfterFree == ~fault

\* q follows the next fields from the dummy to a node without successor.  There
\* is one such sequence of allocated nodes, and one only, while the list is whole.
Follows(q) ==
  \A i \in 0..Len(q) : next[IF i = 0 THEN head ELSE q[i]] = IF i < Len(q) THEN q[i + 1] ELSE NoNode

Chains == {q \in UNION {[1..n -> alive \ {head}] : n \in 0..(Cardinality(alive) - 1)} : Follows(q)}

\* The nodes after the dummy, and the tasks in them.
Chain   == IF Chains = {} THEN <<>> ELSE CHOOSE q \in Chains : TRUE
Content == LET nodes == Chain IN [i \in DOMAIN nodes |-> task[nodes[i]]]

\* tail_ is never behind head_: it is the dummy or a node after it, so the
\* dummy can be deleted without tail_ being left on a freed node.
TailInList == LET nodes == Chain IN tail = head \/ \E i \in DOMAIN nodes : nodes[i] = tail

\* The types of the state, and the list as a data structure.
WellFormed == TypeOK /\ TailInList

\* A task whose dummy was moved is on its way to its one consumer.
Underway ==
  LET takers == {c \in Consumers : cons[c].at \in {"take", "uncount", "delete"}} IN
  IF takers = {} THEN <<>>
  ELSE LET c == CHOOSE x \in takers : TRUE
       IN  <<IF cons[c].at = "take" THEN task[cons[c].next] ELSE cons[c].task>>

Queue == INSTANCE TaskQueue WITH content  <- Content,
                                 received <- received \o Underway

\* With one producer and one consumer at a time the list is a FIFO queue, each
\* operation taking effect at its compare-and-swap.
QueueSpec == Queue!Spec

\* The size counter is the length of the list, less what is linked and not yet
\* counted, plus what is unlinked and not yet uncounted; it is exact when nobody
\* is inside enqueue or dequeue, however the two ends overtook each other.
Uncounted  == {p \in Producers : prod[p].at \in {"swing", "count"}}
StillCounted == {c \in Consumers : cons[c].at \in {"take", "uncount"}}
SizeExact ==
  size = (Len(Chain) + Cardinality(StillCounted) - Cardinality(Uncounted)) % SizeRange

\* Refuted: the reported size is never larger than the number of tasks ever submitted.
SizeInBounds == size <= Cardinality(submitted)

\* A task that was submitted is taken in the end, by whoever calls dequeue.
TasksTaken ==
  \A k \in Tasks : k \in submitted ~> \E i \in DOMAIN received : received[i] = k
===============================================================================
