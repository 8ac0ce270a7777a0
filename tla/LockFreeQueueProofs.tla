--------------------------- MODULE LockFreeQueueProofs ---------------------------
(***************************************************************************)
(* The queue, for every number of tasks and nodes: first with at most one  *)
(* thread inside enqueue and at most one inside dequeue, on a machine      *)
(* whose compare-and-swap does not fail spuriously, then with any number   *)
(* of threads inside enqueue and none inside dequeue, on any machine.      *)
(* With a second worker the queue is unsafe (run queue_workers); with a    *)
(* worker and either WeakCAS or a second producer, a producer may be left  *)
(* on a dummy that is then deleted.                                        *)
(***************************************************************************)
EXTENDS LockFreeQueue, FiniteSetTheorems, NaturalsInduction, WellFoundedInduction, TLAPS

OneAtATime == /\ ~WeakCAS
              /\ \A p, r \in Producers : p = r
              /\ \A c, d \in Consumers : c = d

(***************************************************************************)
(* The inductive invariant, about a sequence q that turns out to be Chain. *)
(***************************************************************************)
Node(q, i) == IF i = 0 THEN head ELSE q[i]
Last(q)    == Node(q, Len(q))

ListInv(q) ==
  /\ q \in Seq(Nodes) /\ Follows(q)
  /\ \A i \in 0..Len(q) : Node(q, i) \in alive
  /\ \A i, j \in 0..Len(q) : Node(q, i) = Node(q, j) => i = j
  /\ \A i \in 1..Len(q) : task[q[i]] \in Tasks

\* tail_ is the last node or the one before it.
TailInv(q) == \/ tail = Last(q)
              \/ Len(q) >= 1 /\ tail = Node(q, Len(q) - 1)

Unlinked(q, n) == n \in alive /\ \A i \in 0..Len(q) : n # Node(q, i)

\* tail_ lags only while the producer is about to swing it; before, what the
\* producer has loaded is the end of the list, and its node is not in it.
ProducerOK(q, p) ==
  LET me == prod[p] IN
  /\ me.at # "help"
  /\ me.at # "swing" => tail = Last(q)
  /\ me.at = "swing" => me.new = Last(q) /\ (tail = Last(q) \/ tail = me.tail)
  /\ me.at \in {"loadTail", "loadNext", "recheck", "link"} =>
       Unlinked(q, me.new) /\ next[me.new] = NoNode /\ task[me.new] \in Tasks
  /\ me.at \in {"loadNext", "recheck", "link"} => me.tail = tail
  /\ me.at \in {"recheck", "link"} => me.next = NoNode

\* Once the worker has seen tail_ beyond the dummy, tail_ stays there until the
\* worker itself moves head_; and the dummy that it moved head_ from is its own.
ConsumerOK(q, c) ==
  LET me == cons[c] IN
  /\ me.at \in {"loadTail", "loadNext", "recheck", "help", "unlink"} => me.head = head
  /\ me.at \in {"loadNext", "recheck", "unlink"} /\ me.tail # me.head => tail # head
  /\ me.at \in {"recheck", "help", "unlink"} =>
       /\ me.next # NoNode => Len(q) >= 1 /\ me.next = q[1]
       /\ me.tail # me.head => me.next # NoNode
  /\ me.at = "help" => me.tail = me.head /\ me.next # NoNode
  /\ me.at = "unlink" => me.tail # me.head
  /\ me.at \in {"take", "uncount", "delete"} =>
       /\ Unlinked(q, me.head)
       /\ \A p \in Producers : prod[p].at \in {"loadTail", "loadNext", "recheck", "link"} =>
            me.head # prod[p].new
  /\ me.at = "take" => me.next = head /\ task[head] \in Tasks
  /\ me.at \in {"uncount", "delete"} => me.task \in Tasks

ProducerInv(q) == \A p \in Producers : ProducerOK(q, p)
ConsumerInv(q) == \A c \in Consumers : ConsumerOK(q, c)

SizeInv(q) ==
  size = (Len(q) + Cardinality(StillCounted) - Cardinality(Uncounted)) % SizeRange

ProducerType == [at : {"idle", "loadTail", "loadNext", "recheck", "link", "help", "swing", "count"},
                 new : Nodes \cup {NoNode}, tail : Nodes \cup {NoNode}, next : Nodes \cup {NoNode}]
ConsumerType == [at : {"idle", "loadTail", "loadNext", "recheck", "help", "unlink", "take",
                       "uncount", "delete"},
                 head : Nodes \cup {NoNode}, tail : Nodes \cup {NoNode},
                 next : Nodes \cup {NoNode}, task : Tasks \cup {NoTask}]

ThreadTypes == prod \in [Producers -> ProducerType] /\ cons \in [Consumers -> ConsumerType]

StateInv == TypeOK /\ ThreadTypes /\ IsFiniteSet(alive) /\ ~fault

QInv(q) == /\ StateInv /\ ListInv(q) /\ TailInv(q)
           /\ ProducerInv(q) /\ ConsumerInv(q) /\ SizeInv(q)

IInv == \E q \in Seq(Nodes) : QInv(q)

(***************************************************************************)
(* Sequences and remainders.                                               *)
(***************************************************************************)
LEMMA AppendNodes ==
  ASSUME NEW S, NEW q \in Seq(S), NEW n \in S, NEW r, r = Append(q, n)
  PROVE  /\ r \in Seq(S) /\ Len(r) = Len(q) + 1
         /\ \A i \in 1..Len(q) : r[i] = q[i]
         /\ r[Len(q) + 1] = n
OBVIOUS

LEMMA TailNodes ==
  ASSUME NEW S, NEW q \in Seq(S), Len(q) >= 1, NEW r, r = Tail(q)
  PROVE  /\ r \in Seq(S) /\ Len(r) = Len(q) - 1
         /\ \A i \in 1..Len(r) : r[i] = q[i + 1]
OBVIOUS

LEMMA Remainder ==
  ASSUME NEW m \in Nat, m > 0, NEW a \in Int, NEW k \in Int, NEW r \in 0..(m - 1),
         a = m * k + r
  PROVE  a % m = r
<1>1. a % m \in 0..(m - 1) /\ a \div m \in Int /\ a = m * (a \div m) + (a % m)
  OBVIOUS
<1>2. \A d \in Int : d >= 1 => m * d >= m
  OBVIOUS
<1>3. m * (k - (a \div m)) = (a % m) - r
  BY <1>1
<1>4. \A d, e \in Int : m * (d - e) = 0 - m * (e - d)
  OBVIOUS
<1>5. k - (a \div m) < 1 /\ (a \div m) - k < 1
  BY <1>1, <1>2, <1>3, <1>4
<1>6. k = a \div m
  BY <1>1, <1>5
<1> QED  BY <1>1, <1>6

\* Counting one up or down modulo m.
LEMMA CountUp ==
  ASSUME NEW m \in Nat, m > 1, NEW a \in Int
  PROVE  ((a % m) + 1) % m = (a + 1) % m
<1> DEFINE x == a % m
           k == a \div m
<1>1. x \in 0..(m - 1) /\ k \in Int /\ a = m * k + x
  OBVIOUS
<1> HIDE DEF x, k
<1>2. CASE x < m - 1
  <2>1. /\ x + 1 = m * 0 + (x + 1) /\ a + 1 = m * k + (x + 1)
        /\ x + 1 \in 0..(m - 1) /\ x + 1 \in Int /\ a + 1 \in Int
    BY <1>1, <1>2
  <2>2. (x + 1) % m = x + 1 /\ (a + 1) % m = x + 1
    BY <1>1, <2>1, Remainder
  <2> QED  BY <2>2 DEF x
<1>3. CASE x = m - 1
  <2>1. m * (k + 1) = m * k + m
    BY <1>1
  <2>2. /\ x + 1 = m * 1 + 0 /\ a + 1 = m * (k + 1) + 0
        /\ 0 \in 0..(m - 1) /\ x + 1 \in Int /\ a + 1 \in Int /\ k + 1 \in Int
    BY <1>1, <1>3, <2>1
  <2>3. (x + 1) % m = 0
    BY <2>2, Remainder
  <2>4. ASSUME NEW j \in Int, j = k + 1, NEW r \in 0..(m - 1), r = 0
        PROVE  (a + 1) % m = r
    <3>1. ASSUME NEW b \in Int, b = a + 1 PROVE b % m = r
      <4>1. b = m * j + r
        BY <2>2, <2>4, <3>1
      <4> QED  BY <4>1, Remainder
    <3> QED  BY <2>2, <3>1
  <2> QED  BY <2>2, <2>3, <2>4 DEF x
<1> QED  BY <1>1, <1>2, <1>3

LEMMA CountDown ==
  ASSUME NEW m \in Nat, m > 1, NEW a \in Int
  PROVE  ((a % m) - 1) % m = (a - 1) % m
<1> DEFINE x == a % m
           k == a \div m
<1>1. x \in 0..(m - 1) /\ k \in Int /\ a = m * k + x
  OBVIOUS
<1> HIDE DEF x, k
<1>2. CASE x > 0
  <2>1. /\ x - 1 = m * 0 + (x - 1) /\ a - 1 = m * k + (x - 1)
        /\ x - 1 \in 0..(m - 1) /\ x - 1 \in Int /\ a - 1 \in Int
    BY <1>1, <1>2
  <2>2. (x - 1) % m = x - 1 /\ (a - 1) % m = x - 1
    BY <1>1, <2>1, Remainder
  <2> QED  BY <2>2 DEF x
<1>3. CASE x = 0
  <2>1. m * (k - 1) = m * k - m /\ m * (0 - 1) = 0 - m
    BY <1>1
  <2>2. /\ x - 1 = m * (0 - 1) + (m - 1) /\ a - 1 = m * (k - 1) + (m - 1)
        /\ m - 1 \in 0..(m - 1) /\ x - 1 \in Int /\ a - 1 \in Int
        /\ k - 1 \in Int /\ 0 - 1 \in Int
    BY <1>1, <1>3, <2>1
  <2>3. (x - 1) % m = m - 1 /\ (a - 1) % m = m - 1
    BY <2>2, Remainder
  <2> QED  BY <2>3 DEF x
<1> QED  BY <1>1, <1>2, <1>3

\* Every set of natural numbers that is not empty has a least element.
LEMMA Least ==
  ASSUME NEW S \in SUBSET Nat, S # {}
  PROVE  \E n \in S : \A m \in S : n <= m
<1>1. PICK n \in S : \A m \in S : <<m, n>> \notin OpToRel(<, Nat)
  BY NatLessThanWellFounded, WFMin, Zenon
<1>2. \A m \in S : ~(m < n)
  BY <1>1, Zenon DEF OpToRel
<1> QED  BY <1>2

LEMMA AtMostOne ==
  ASSUME NEW T, \A x, y \in T : x = y
  PROVE  Cardinality(T) = IF T = {} THEN 0 ELSE 1
<1>1. CASE T = {}
  BY <1>1, FS_EmptySet
<1>2. CASE T # {}
  <2>1. PICK x \in T : T = {x}
    BY <1>2
  <2> QED  BY <1>2, <2>1, FS_Singleton
<1> QED  BY <1>1, <1>2

(***************************************************************************)
(* Initially.                                                              *)
(***************************************************************************)
LEMMA InitQInv == Init => QInv(<<>>)
<1> SUFFICES ASSUME Init PROVE QInv(<<>>)
  OBVIOUS
<1>1. PICK dummy \in Nodes :
        /\ alive = {dummy} /\ head = dummy /\ tail = dummy
        /\ next = [n \in Nodes |-> NoNode] /\ task = [n \in Nodes |-> NoTask]
  BY DEF Init
<1>2. StateInv
  <2>1. TypeOK
    <3>1. size \in 0..(SizeRange - 1)
      BY QueueAssumption DEF Init
    <3>2. submitted = {} /\ received = <<>> /\ fault = FALSE
      BY DEF Init
    <3>3. <<>> \in Seq(Tasks)
      OBVIOUS
    <3>4. /\ alive \subseteq Nodes /\ {head, tail} \subseteq Nodes
          /\ next \in [Nodes -> Nodes \cup {NoNode}]
          /\ task \in [Nodes -> Tasks \cup {NoTask}]
      BY <1>1
    <3> QED  BY <3>1, <3>2, <3>3, <3>4 DEF TypeOK
  <2>2. ThreadTypes
    BY DEF Init, ThreadTypes, ProducerType, ConsumerType, IdleProducer, IdleConsumer
  <2>3. IsFiniteSet(alive) /\ ~fault
    BY <1>1, FS_Singleton DEF Init
  <2> QED  BY <2>1, <2>2, <2>3 DEF StateInv
<1>3. Len(<<>>) = 0 /\ <<>> \in Seq(Nodes) /\ Node(<<>>, 0) = head /\ Last(<<>>) = head
  BY DEF Node, Last
<1>4. ListInv(<<>>)
  <2>1. Follows(<<>>)
    BY <1>1, <1>3 DEF Follows
  <2> QED  BY <1>1, <1>3, <2>1 DEF ListInv
<1>5. TailInv(<<>>)
  BY <1>1, <1>3 DEF TailInv
<1>6. ProducerInv(<<>>)
  BY <1>1, <1>3 DEF ProducerInv, ProducerOK, Init, IdleProducer
<1>7. ConsumerInv(<<>>)
  BY DEF ConsumerInv, ConsumerOK, Init, IdleConsumer
<1>8. SizeInv(<<>>)
  <2>1. Uncounted = {} /\ StillCounted = {}
    BY DEF Init, Uncounted, StillCounted, IdleProducer, IdleConsumer
  <2>2. Cardinality(Uncounted) = 0 /\ Cardinality(StillCounted) = 0
    BY <2>1, FS_EmptySet
  <2>3. 0 % SizeRange = 0
    BY QueueAssumption
  <2> QED  BY <1>3, <2>2, <2>3 DEF SizeInv, Init
<1> QED  BY <1>2, <1>4, <1>5, <1>6, <1>7, <1>8 DEF QInv

(***************************************************************************)
(* Steps that leave the list as it is.                                     *)
(***************************************************************************)
LEMMA SameList ==
  ASSUME NEW q, ListInv(q), head' = head,
         \A i \in 0..Len(q) : /\ Node(q, i) \in alive'
                              /\ next'[Node(q, i)] = next[Node(q, i)],
         \A i \in 1..Len(q) : task'[q[i]] \in Tasks
  PROVE  ListInv(q)'
BY DEF ListInv, Follows, Node

\* The counts of an operation under way, of which there is one at most.
LEMMA SameSize ==
  ASSUME NEW q, SizeInv(q), size' = size,
         Uncounted' = Uncounted, StillCounted' = StillCounted
  PROVE  SizeInv(q)'
BY DEF SizeInv

Early == {"loadTail", "loadNext", "recheck", "link"}

\* What a step of the producer that changes no node leaves to the worker.
LEMMA ProducerFrame ==
  ASSUME OneAtATime, NEW q, QInv(q), NEW p \in Producers,
         UNCHANGED <<heap, head, cons>>, tail # head => tail' # head,
         prod'[p].at \in Early => prod[p].at \in Early /\ prod'[p].new = prod[p].new
  PROVE  ListInv(q)' /\ ConsumerInv(q)'
<1>1. ListInv(q)'
  BY SameList DEF QInv, ListInv, heap
<1>2. ASSUME NEW c \in Consumers PROVE ConsumerOK(q, c)'
  <2>1. ConsumerOK(q, c)
    BY DEF QInv, ConsumerInv
  <2>2. /\ cons'[c] = cons[c] /\ head' = head /\ task' = task
        /\ Node(q, 0)' = Node(q, 0)
        /\ \A n : Unlinked(q, n) => Unlinked(q, n)'
    BY DEF heap, Unlinked, Node
  <2>3. ASSUME NEW r \in Producers, prod'[r].at \in Early
        PROVE  prod[r].at \in Early /\ prod'[r].new = prod[r].new
    BY <2>3 DEF OneAtATime
  <2> QED  BY <2>1, <2>2, <2>3 DEF ConsumerOK, Early
<1> QED  BY <1>1, <1>2 DEF ConsumerInv

LEMMA ProducerTypes ==
  ASSUME NEW q, QInv(q), NEW p \in Producers
  PROVE  /\ prod \in [Producers -> ProducerType] /\ prod[p] \in ProducerType
         /\ cons \in [Consumers -> ConsumerType]
         /\ ProducerOK(q, p) /\ ListInv(q) /\ TailInv(q) /\ SizeInv(q) /\ TypeOK
         /\ head \in Nodes /\ tail \in Nodes /\ Last(q) \in alive /\ Last(q) \in Nodes
         /\ Len(q) \in Nat /\ next[Last(q)] = NoNode
<1>1. Len(q) \in Nat /\ Last(q) \in alive
  BY DEF QInv, ListInv, Last
<1>2. next[Last(q)] = NoNode
  BY <1>1 DEF QInv, ListInv, Follows, Last, Node
<1> QED  BY <1>1, <1>2 DEF QInv, StateInv, ThreadTypes, TypeOK, ProducerInv

\* The loads and the comparison before the link: nothing but the producer's own
\* variables changes, and the last node of the list is what it finds.
LEMMA ProducerLoadsInv ==
  ASSUME OneAtATime, NEW q, QInv(q), NEW p \in Producers,
         LoadTail(p) \/ LoadNext(p) \/ RecheckTail(p)
  PROVE  QInv(q)'
<1>0. /\ prod \in [Producers -> ProducerType] /\ prod[p] \in ProducerType
      /\ ProducerOK(q, p) /\ tail \in Nodes /\ next[Last(q)] = NoNode /\ Last(q) \in alive
  BY ProducerTypes
<1>1. /\ UNCHANGED <<heap, head, tail, size, cons, history, fault>>
      /\ prod[p].at \in {"loadTail", "loadNext", "recheck"} /\ tail = Last(q)
      /\ prod' \in [Producers -> ProducerType]
      /\ prod'[p].at \in Early /\ prod'[p].new = prod[p].new
      /\ prod'[p].at # "loadTail" => prod'[p].tail = tail
      /\ prod'[p].at \in {"recheck", "link"} => prod'[p].next = NoNode
  <2>1. CASE LoadTail(p)
    BY <1>0, <2>1 DEF LoadTail, ProducerAt, ProducerOK, ProducerType, Early, Safe
  <2>2. CASE LoadNext(p)
    <3>1. prod[p].at = "loadNext" /\ prod[p].tail = Last(q) /\ tail = Last(q)
      BY <1>0, <2>2 DEF LoadNext, ProducerAt, ProducerOK
    <3>2. /\ prod' = [prod EXCEPT ![p].at = "recheck", ![p].next = next[prod[p].tail]]
          /\ UNCHANGED <<heap, head, tail, size, cons, history, fault>>
      BY <1>0, <2>2, <3>1 DEF LoadNext, Safe
    <3> QED  BY <1>0, <3>1, <3>2 DEF ProducerType, Early
  <2>3. CASE RecheckTail(p)
    <3>1. /\ prod[p].at = "recheck" /\ prod[p].tail = tail /\ tail = Last(q)
          /\ prod[p].next = NoNode
      BY <1>0, <2>3 DEF RecheckTail, ProducerAt, ProducerOK
    <3>2. /\ prod' = [prod EXCEPT ![p].at = "link"]
          /\ UNCHANGED <<heap, head, tail, size, cons, history, fault>>
      BY <2>3, <3>1 DEF RecheckTail, PGoto, Safe
    <3> QED  BY <1>0, <3>1, <3>2 DEF ProducerType, Early
  <2> QED  BY <2>1, <2>2, <2>3
<1>2. ListInv(q)' /\ ConsumerInv(q)'
  BY <1>1, ProducerFrame DEF Early
<1>3. Node(q, 0)' = Node(q, 0) /\ Last(q)' = Last(q) /\ \A n : Unlinked(q, n) => Unlinked(q, n)'
  BY <1>1 DEF Node, Last, Unlinked, heap
<1>4. ProducerInv(q)'
  <2>1. prod[p].at \in Early /\ next' = next /\ task' = task
    BY <1>1 DEF Early, heap
  <2>2. ProducerOK(q, p)'
    BY <1>0, <1>1, <1>3, <2>1 DEF ProducerOK, Early
  <2> QED  BY <2>2 DEF ProducerInv, OneAtATime
<1>5. StateInv' /\ TailInv(q)'
  BY <1>1 DEF QInv, StateInv, TypeOK, ThreadTypes, TailInv, Last, Node, heap, history
<1>6. SizeInv(q)'
  <2>1. Uncounted' = {} /\ Uncounted = {}
    BY <1>1 DEF Uncounted, OneAtATime, Early
  <2>2. StillCounted' = StillCounted
    BY <1>1 DEF StillCounted
  <2> QED  BY <1>1, <2>1, <2>2, SameSize DEF QInv
<1> QED  BY <1>2, <1>4, <1>5, <1>6 DEF QInv

\* A node from the allocator is not in the list, nor is it the worker's dummy.
LEMMA EnqueueInv ==
  ASSUME OneAtATime, NEW q, QInv(q), NEW p \in Producers, NEW k \in Tasks, NEW n \in Nodes,
         Enqueue(p, k, n)
  PROVE  QInv(q)'
<1>0. /\ prod \in [Producers -> ProducerType] /\ prod[p] \in ProducerType
      /\ ProducerOK(q, p) /\ ListInv(q)
  BY ProducerTypes
<1>1. /\ prod[p].at = "idle" /\ n \notin alive /\ alive' = alive \cup {n}
      /\ next' = [next EXCEPT ![n] = NoNode] /\ task' = [task EXCEPT ![n] = k]
      /\ prod' = [prod EXCEPT ![p].at = "loadTail", ![p].new = n]
      /\ submitted' = submitted \cup {k}
      /\ UNCHANGED <<head, tail, size, cons, received, fault>>
  BY DEF Enqueue, ProducerAt, Safe
<1>2. /\ prod' \in [Producers -> ProducerType]
      /\ prod'[p].at = "loadTail" /\ prod'[p].new = n
  BY <1>0, <1>1 DEF ProducerType
<1>3. /\ next \in [Nodes -> Nodes \cup {NoNode}] /\ task \in [Nodes -> Tasks \cup {NoTask}]
      /\ alive \subseteq Nodes
  BY DEF QInv, StateInv, TypeOK
<1>4. /\ next'[n] = NoNode /\ task'[n] = k
      /\ \A m \in alive : m # n /\ next'[m] = next[m] /\ task'[m] = task[m]
  BY <1>1, <1>3
<1>5. \A i \in 0..Len(q) : Node(q, i) \in alive
  BY <1>0 DEF ListInv
<1>6. \A i \in 1..Len(q) : q[i] = Node(q, i) /\ i \in 0..Len(q)
  BY <1>0 DEF Node, ListInv
<1>7. /\ Last(q)' = Last(q) /\ \A i : Node(q, i)' = Node(q, i)
      /\ \A m : Unlinked(q, m) => Unlinked(q, m)'
  BY <1>1 DEF Last, Node, Unlinked
<1>8. ListInv(q)'
  <2>1. \A i \in 0..Len(q) : Node(q, i) \in alive' /\ next'[Node(q, i)] = next[Node(q, i)]
    BY <1>1, <1>4, <1>5
  <2>2. \A i \in 1..Len(q) : task'[q[i]] \in Tasks
    <3>1. \A i \in 1..Len(q) : task[q[i]] \in Tasks
      BY <1>0 DEF ListInv
    <3> QED  BY <1>4, <1>5, <1>6, <3>1
  <2> QED  BY <1>0, <1>1, <2>1, <2>2, SameList
<1>9. Unlinked(q, n)'
  BY <1>1, <1>5, <1>7 DEF Unlinked
<1>10. ProducerInv(q)'
  <2>1. tail' = Last(q)'
    BY <1>0, <1>1, <1>7 DEF ProducerOK
  <2>2. ProducerOK(q, p)'
    BY <1>2, <1>4, <1>9, <2>1 DEF ProducerOK
  <2> QED  BY <2>2 DEF ProducerInv, OneAtATime
<1>11. ConsumerInv(q)'
  <2>1. ASSUME NEW c \in Consumers PROVE ConsumerOK(q, c)'
    <3>1. ConsumerOK(q, c)
      BY DEF QInv, ConsumerInv
    <3>2. head \in alive /\ task'[head] = task[head]
      BY <1>0, <1>4, <1>5 DEF Node, ListInv
    <3>3. \A m : Unlinked(q, m) => m # n
      BY <1>1 DEF Unlinked
    <3>4. ASSUME NEW r \in Producers PROVE prod'[r].new = n
      BY <1>2 DEF OneAtATime
    <3> QED  BY <1>1, <1>7, <3>1, <3>2, <3>3, <3>4 DEF ConsumerOK
  <2> QED  BY <2>1 DEF ConsumerInv
<1>12. StateInv'
  <2>1. IsFiniteSet(alive')
    BY <1>1, FS_AddElement DEF QInv, StateInv
  <2>2. TypeOK'
    BY <1>1 DEF QInv, StateInv, TypeOK
  <2> QED  BY <1>1, <1>2, <2>1, <2>2 DEF QInv, StateInv, ThreadTypes
<1>13. TailInv(q)'
  BY <1>1, <1>7 DEF QInv, TailInv
<1>14. SizeInv(q)'
  <2>1. Uncounted' = {} /\ Uncounted = {}
    BY <1>1, <1>2 DEF Uncounted, OneAtATime
  <2>2. StillCounted' = StillCounted
    BY <1>1 DEF StillCounted
  <2> QED  BY <1>1, <2>1, <2>2, SameSize DEF QInv
<1> QED  BY <1>8, <1>10, <1>11, <1>12, <1>13, <1>14 DEF QInv

\* The next field of the last node, and of no other node of the list, is null.
LEMMA EndOfList ==
  ASSUME NEW q, ListInv(q)
  PROVE  /\ Len(q) \in Nat /\ Len(q) \in 0..Len(q) /\ Last(q) \in alive /\ next[Last(q)] = NoNode
         /\ \A i \in 0..Len(q) : i # Len(q) => next[Node(q, i)] \in Nodes /\ i + 1 \in 0..Len(q)
                                                /\ next[Node(q, i)] = Node(q, i + 1)
<1>1. Len(q) \in Nat /\ Follows(q) /\ \A i \in 1..Len(q) : q[i] \in Nodes
  BY DEF ListInv
<1>2. Len(q) \in 0..Len(q)
  BY <1>1
<1>3. Last(q) \in alive /\ next[Last(q)] = NoNode
  BY <1>1, <1>2 DEF ListInv, Follows, Last, Node
<1>4. ASSUME NEW i \in 0..Len(q), i # Len(q)
      PROVE  next[Node(q, i)] \in Nodes /\ i + 1 \in 0..Len(q) /\ next[Node(q, i)] = Node(q, i + 1)
  <2>1. i < Len(q) /\ i + 1 \in 1..Len(q) /\ i + 1 # 0
    BY <1>1, <1>4
  <2>2. next[Node(q, i)] = q[i + 1]
    BY <1>1, <1>4, <2>1 DEF Follows, Node
  <2> QED  BY <1>1, <2>1, <2>2 DEF Node
<1> QED  BY <1>1, <1>2, <1>3, <1>4

\* Linking a node behind the last one appends it to the list.
LEMMA LinkAppends ==
  ASSUME StateInv, NEW q, ListInv(q), NEW n, Unlinked(q, n), next[n] = NoNode, task[n] \in Tasks,
         next' = [next EXCEPT ![Last(q)] = n], UNCHANGED <<alive, task, head>>,
         NEW r, r = Append(q, n)
  PROVE  ListInv(r)'
<1>0. Len(q) \in Nat /\ Last(q) \in alive /\ Len(q) \in 0..Len(q)
  BY EndOfList
<1>1. Unlinked(q, n) /\ next[n] = NoNode /\ task[n] \in Tasks
  OBVIOUS
<1>2. next' = [next EXCEPT ![Last(q)] = n] /\ UNCHANGED <<alive, task, head>>
  OBVIOUS
<1>3. /\ next \in [Nodes -> Nodes \cup {NoNode}] /\ alive \subseteq Nodes /\ n \in Nodes
      /\ NoNode \notin Nodes
  BY QueueAssumption DEF StateInv, TypeOK, Unlinked
<1>4. /\ r \in Seq(Nodes) /\ Len(r) = Len(q) + 1
      /\ \A i \in 1..Len(q) : r[i] = q[i]
      /\ r[Len(q) + 1] = n
  BY <1>0, <1>3, AppendNodes DEF ListInv
<1>5. /\ \A i \in 0..Len(q) : Node(r, i)' = Node(q, i)
      /\ Node(r, Len(r))' = n /\ Last(r)' = n
  BY <1>0, <1>2, <1>4 DEF Node, Last
<1>6. \A i \in 0..Len(q) : Node(q, i) \in alive /\ Node(q, i) # n
  BY <1>0, <1>1 DEF ListInv, Unlinked
<1>7. \A i, j \in 0..Len(q) : Node(q, i) = Node(q, j) => i = j
  BY DEF ListInv
<1>8. \A i \in 0..Len(r) : Node(r, i)' \in alive'
  BY <1>0, <1>1, <1>2, <1>4, <1>5, <1>6 DEF Unlinked
<1>9. \A i, j \in 0..Len(r) : Node(r, i)' = Node(r, j)' => i = j
  BY <1>0, <1>4, <1>5, <1>6, <1>7
<1>10. \A i \in 1..Len(r) : task'[r[i]] \in Tasks
  <2>1. \A i \in 1..Len(q) : task[q[i]] \in Tasks
    BY DEF ListInv
  <2> QED  BY <1>0, <1>1, <1>2, <1>4, <2>1
<1>11. ASSUME NEW i \in 0..Len(r)
      PROVE  next'[Node(r, i)'] = IF i < Len(r) THEN r[i + 1] ELSE NoNode
  <2>1. CASE i = Len(r)
    <3>1. next'[n] = next[n]
      BY <1>0, <1>1, <1>2, <1>3, <1>6 DEF Last
    <3> QED  BY <1>1, <1>5, <2>1, <3>1
  <2>2. CASE i = Len(q)
    <3>1. next'[Last(q)] = n
      BY <1>0, <1>1, <1>2, <1>3
    <3> QED  BY <1>0, <1>4, <1>5, <2>2, <3>1 DEF Last
  <2>3. CASE i < Len(q)
    <3>1. Node(q, i) # Last(q) /\ Node(q, i) \in Nodes
      BY <1>0, <1>3, <1>6, <1>7, <2>3 DEF Last
    <3>2. next'[Node(q, i)] = next[Node(q, i)]
      BY <1>1, <1>2, <1>3, <3>1
    <3>3. next[Node(q, i)] = q[i + 1]
      BY <2>3 DEF ListInv, Follows, Node
    <3> QED  BY <1>0, <1>4, <1>5, <2>3, <3>2, <3>3
  <2> QED  BY <1>0, <1>4, <2>1, <2>2, <2>3
<1>12. Follows(r)'
  BY <1>4, <1>11 DEF Follows, Node
<1> QED  BY <1>4, <1>8, <1>9, <1>10, <1>12 DEF ListInv

\* The link appends the producer's node to the list; tail_ now lags by one.
LEMMA LinkInv ==
  ASSUME OneAtATime, NEW q, QInv(q), NEW p \in Producers, Link(p),
         NEW n, n = prod[p].new, NEW r, r = Append(q, n)
  PROVE  QInv(r)' /\ n \in alive /\ next' = [next EXCEPT ![tail] = n]
<1>0. /\ prod \in [Producers -> ProducerType] /\ prod[p] \in ProducerType
      /\ ProducerOK(q, p) /\ ListInv(q) /\ Last(q) \in alive /\ next[Last(q)] = NoNode
      /\ Len(q) \in Nat
  BY ProducerTypes
<1>1. /\ prod[p].at = "link" /\ prod[p].tail = tail /\ tail = Last(q) /\ ~fault
      /\ Unlinked(q, n) /\ next[n] = NoNode /\ task[n] \in Tasks
  BY <1>0 DEF Link, ProducerAt, ProducerOK
<1>2. /\ next' = [next EXCEPT ![tail] = n] /\ prod' = [prod EXCEPT ![p].at = "swing"]
      /\ UNCHANGED <<alive, task, head, tail, size, cons, history, fault>>
  BY <1>0, <1>1 DEF Link, PGoto, Safe, OneAtATime
<1>3. /\ next \in [Nodes -> Nodes \cup {NoNode}] /\ alive \subseteq Nodes /\ n \in Nodes
      /\ NoNode \notin Nodes
  BY <1>1, QueueAssumption DEF QInv, StateInv, TypeOK, Unlinked
<1>4. /\ prod' \in [Producers -> ProducerType]
      /\ prod'[p].at = "swing" /\ prod'[p].new = n /\ prod'[p].tail = tail
  BY <1>0, <1>1, <1>2 DEF ProducerType
<1>5. /\ r \in Seq(Nodes) /\ Len(r) = Len(q) + 1
      /\ \A i \in 1..Len(q) : r[i] = q[i]
      /\ r[Len(q) + 1] = n
  BY <1>0, <1>3, AppendNodes DEF ListInv
<1>6. /\ \A i \in 0..Len(q) : Node(r, i)' = Node(q, i)
      /\ Node(r, Len(r))' = n /\ Last(r)' = n
      /\ Node(r, Len(r) - 1)' = Last(q)
  BY <1>0, <1>2, <1>5 DEF Node, Last
<1>7. \A i \in 0..Len(q) : Node(q, i) \in alive /\ Node(q, i) # n
  BY <1>0, <1>1 DEF ListInv, Unlinked
<1>9. ListInv(r)'
  <2>1. StateInv
    BY DEF QInv
  <2> QED  BY <1>0, <1>1, <1>2, <2>1, LinkAppends
<1>10. TailInv(r)'
  BY <1>0, <1>1, <1>2, <1>5, <1>6 DEF TailInv
<1>11. ProducerInv(r)'
  <2>1. ProducerOK(r, p)'
    BY <1>1, <1>2, <1>4, <1>6 DEF ProducerOK
  <2> QED  BY <2>1 DEF ProducerInv, OneAtATime
<1>12. ConsumerInv(r)'
  <2>1. ASSUME NEW c \in Consumers PROVE ConsumerOK(r, c)'
    <3>1. ConsumerOK(q, c)
      BY DEF QInv, ConsumerInv
    <3>2. \A m : Unlinked(q, m) /\ m # n => Unlinked(r, m)'
      BY <1>0, <1>2, <1>5, <1>6 DEF Unlinked
    <3>3. Len(q) >= 1 => Len(r) >= 1 /\ r[1] = q[1]
      BY <1>0, <1>5
    <3>4. cons'[c].at \in {"take", "uncount", "delete"} => cons[c].head # n
      BY <1>1, <1>2, <3>1 DEF ConsumerOK
    <3>5. ASSUME NEW x \in Producers PROVE prod'[x].at = "swing"
      BY <1>4 DEF OneAtATime
    <3> QED  BY <1>2, <3>1, <3>2, <3>3, <3>4, <3>5 DEF ConsumerOK
  <2> QED  BY <2>1 DEF ConsumerInv
<1>13. StateInv'
  BY <1>1, <1>2, <1>3, <1>4 DEF QInv, StateInv, TypeOK, ThreadTypes, history
<1>14. SizeInv(r)'
  <2>1. Uncounted' = {p} /\ Uncounted = {}
    BY <1>1, <1>4 DEF Uncounted, OneAtATime
  <2>2. Cardinality(Uncounted') = 1 /\ Cardinality(Uncounted) = 0
    BY <2>1, FS_Singleton, FS_EmptySet
  <2>3. StillCounted' = StillCounted
    BY <1>2 DEF StillCounted
  <2>4. Cardinality(StillCounted) \in Nat
    BY AtMostOne DEF StillCounted, OneAtATime
  <2> QED  BY <1>0, <1>2, <1>5, <2>2, <2>3, <2>4 DEF QInv, SizeInv
<1> QED  BY <1>1, <1>2, <1>9, <1>10, <1>11, <1>12, <1>13, <1>14 DEF QInv, Unlinked

\* The swing moves tail_ to the last node, unless the worker has.
LEMMA SwingInv ==
  ASSUME OneAtATime, NEW q, QInv(q), NEW p \in Producers, Swing(p)
  PROVE  QInv(q)'
<1>0. /\ prod \in [Producers -> ProducerType] /\ prod[p] \in ProducerType
      /\ ProducerOK(q, p) /\ TailInv(q) /\ ListInv(q) /\ Len(q) \in Nat /\ Last(q) \in Nodes
  BY ProducerTypes
<1>1. /\ prod[p].at = "swing" /\ prod[p].new = Last(q)
      /\ tail = Last(q) \/ tail = prod[p].tail
      /\ prod' = [prod EXCEPT ![p].at = "count"]
      /\ UNCHANGED <<heap, head, size, cons, history, fault>>
  BY <1>0 DEF Swing, ProducerAt, ProducerOK, PGoto, Safe
<1>2. tail' = Last(q)
  BY <1>1 DEF Swing, SwingTail, OneAtATime
<1>3. prod' \in [Producers -> ProducerType] /\ prod'[p].at = "count"
  BY <1>0, <1>1 DEF ProducerType
<1>4. tail # head => tail' # head
  <2>1. Len(q) = 0 => tail = head
    BY <1>0 DEF TailInv, Last, Node
  <2>2. Len(q) > 0 => Last(q) # head
    <3>1. Len(q) > 0 => Node(q, Len(q)) # Node(q, 0)
      BY <1>0 DEF ListInv
    <3> QED  BY <3>1 DEF Last, Node
  <2> QED  BY <1>0, <1>2, <2>1, <2>2
<1>5. ListInv(q)' /\ ConsumerInv(q)'
  BY <1>1, <1>3, <1>4, ProducerFrame DEF Early
<1>6. Last(q)' = Last(q)
  BY <1>1 DEF Last, Node
<1>7. TailInv(q)' /\ ProducerInv(q)'
  <2>1. ProducerOK(q, p)'
    BY <1>2, <1>3, <1>6 DEF ProducerOK
  <2> QED  BY <1>2, <1>6, <2>1 DEF TailInv, ProducerInv, OneAtATime
<1>8. StateInv'
  BY <1>0, <1>1, <1>2, <1>3 DEF QInv, StateInv, TypeOK, ThreadTypes, heap, history
<1>9. SizeInv(q)'
  <2>1. Uncounted' = {p} /\ Uncounted = {p}
    BY <1>1, <1>3 DEF Uncounted, OneAtATime
  <2>2. StillCounted' = StillCounted
    BY <1>1 DEF StillCounted
  <2> QED  BY <1>1, <2>1, <2>2, SameSize DEF QInv
<1> QED  BY <1>5, <1>7, <1>8, <1>9 DEF QInv

LEMMA CountInv ==
  ASSUME OneAtATime, NEW q, QInv(q), NEW p \in Producers, Count(p)
  PROVE  QInv(q)'
<1>0. /\ prod \in [Producers -> ProducerType] /\ prod[p] \in ProducerType
      /\ ProducerOK(q, p) /\ TailInv(q) /\ ListInv(q) /\ Len(q) \in Nat
  BY ProducerTypes
<1>1. /\ prod[p].at = "count" /\ tail = Last(q)
      /\ size' = (size + 1) % SizeRange
      /\ prod' = [prod EXCEPT ![p] = IdleProducer]
      /\ UNCHANGED <<heap, head, tail, cons, history, fault>>
  BY <1>0 DEF Count, ProducerAt, ProducerOK, Safe
<1>2. prod' \in [Producers -> ProducerType] /\ prod'[p].at = "idle"
  BY <1>0, <1>1 DEF ProducerType, IdleProducer
<1>3. ListInv(q)' /\ ConsumerInv(q)'
  BY <1>1, <1>2, ProducerFrame DEF Early
<1>4. Last(q)' = Last(q)
  BY <1>1 DEF Last, Node
<1>5. TailInv(q)' /\ ProducerInv(q)'
  <2>1. ProducerOK(q, p)'
    BY <1>1, <1>2, <1>4 DEF ProducerOK
  <2> QED  BY <1>1, <1>4, <2>1 DEF TailInv, ProducerInv, OneAtATime
<1>6. SizeInv(q)' /\ size' \in 0..(SizeRange - 1)
  <2>1. Uncounted' = {} /\ Uncounted = {p}
    BY <1>1, <1>2 DEF Uncounted, OneAtATime
  <2>2. Cardinality(Uncounted') = 0 /\ Cardinality(Uncounted) = 1
    BY <2>1, FS_Singleton, FS_EmptySet
  <2>3. StillCounted' = StillCounted
    BY <1>1 DEF StillCounted
  <2>4. Cardinality(StillCounted) \in Nat
    <3>1. \A x, y \in StillCounted : x = y
      BY DEF StillCounted, OneAtATime
    <3> QED  BY <3>1, AtMostOne
  <2> DEFINE a == Len(q) + Cardinality(StillCounted) - 1
  <2>5. a \in Int /\ size = a % SizeRange
    BY <1>0, <2>2, <2>4 DEF QInv, SizeInv
  <2>6. a + 1 = Len(q) + Cardinality(StillCounted) - 0
    BY <1>0, <2>4
  <2> HIDE DEF a
  <2>7. size' = (a + 1) % SizeRange /\ (a + 1) % SizeRange \in 0..(SizeRange - 1)
    <3>1. SizeRange \in Nat /\ SizeRange > 1
      BY QueueAssumption
    <3>2. ((a % SizeRange) + 1) % SizeRange = (a + 1) % SizeRange
      BY <2>5, <3>1, CountUp
    <3>3. (a + 1) % SizeRange \in 0..(SizeRange - 1)
      BY <2>5, <3>1
    <3> QED  BY <1>1, <2>5, <3>2, <3>3
  <2> QED  BY <2>2, <2>3, <2>6, <2>7 DEF SizeInv
<1>7. StateInv'
  BY <1>0, <1>1, <1>2, <1>6 DEF QInv, StateInv, TypeOK, ThreadTypes, heap, history
<1> QED  BY <1>3, <1>5, <1>6, <1>7 DEF QInv

(***************************************************************************)
(* The worker's steps.                                                     *)
(***************************************************************************)
LEMMA ConsumerTypes ==
  ASSUME NEW q, QInv(q), NEW c \in Consumers
  PROVE  /\ cons \in [Consumers -> ConsumerType] /\ cons[c] \in ConsumerType
         /\ ConsumerOK(q, c) /\ ListInv(q) /\ TailInv(q) /\ SizeInv(q) /\ TypeOK
         /\ head \in alive /\ head \in Nodes /\ tail \in Nodes /\ Len(q) \in Nat
         /\ next[head] = IF Len(q) = 0 THEN NoNode ELSE q[1]
         /\ NoNode \notin Nodes /\ \A i \in 1..Len(q) : q[i] \in Nodes
         /\ tail # head => Len(q) >= 1
<1>1. /\ Len(q) \in Nat /\ \A i \in 1..Len(q) : q[i] \in Nodes
      /\ Node(q, 0) \in alive /\ Node(q, 0) = head
      /\ next[head] = IF 0 < Len(q) THEN q[0 + 1] ELSE NoNode
  BY DEF QInv, ListInv, Node, Follows
<1>2. tail # head => Len(q) >= 1
  BY <1>1 DEF QInv, TailInv, Last, Node
<1> QED  BY <1>1, <1>2, QueueAssumption DEF QInv, StateInv, ThreadTypes, TypeOK, ConsumerInv

\* The worker loads and compares: its own variables change.
LEMMA ConsumerLoadsInv ==
  ASSUME OneAtATime, NEW q, QInv(q), NEW c \in Consumers,
         Dequeue(c) \/ DequeueLoadTail(c) \/ DequeueLoadNext(c) \/ RecheckHead(c)
  PROVE  QInv(q)'
<1>0. /\ cons \in [Consumers -> ConsumerType] /\ cons[c] \in ConsumerType
      /\ ConsumerOK(q, c) /\ head \in alive /\ head \in Nodes /\ tail \in Nodes
      /\ Len(q) \in Nat
      /\ next[head] = IF Len(q) = 0 THEN NoNode ELSE q[1]
      /\ NoNode \notin Nodes /\ \A i \in 1..Len(q) : q[i] \in Nodes
      /\ tail # head => Len(q) >= 1
  BY ConsumerTypes
<1>1. /\ UNCHANGED <<heap, head, tail, size, prod, history, fault>>
      /\ cons' \in [Consumers -> ConsumerType] /\ ConsumerOK(q, c)'
      /\ cons[c].at \notin {"take", "uncount"} /\ cons'[c].at \notin {"take", "uncount"}
  <2>1. CASE Dequeue(c)
    <3>1. /\ cons' = [cons EXCEPT ![c].at = "loadTail", ![c].head = head]
          /\ UNCHANGED <<heap, head, tail, size, prod, history, fault>> /\ cons[c].at = "idle"
      BY <2>1 DEF Dequeue, ConsumerAt, Safe
    <3>2. /\ cons' \in [Consumers -> ConsumerType]
          /\ cons'[c].at = "loadTail" /\ cons'[c].head = head
      BY <1>0, <3>1 DEF ConsumerType
    <3> QED  BY <1>0, <3>1, <3>2 DEF ConsumerOK
  <2>2. CASE DequeueLoadTail(c)
    <3>1. /\ cons' = [cons EXCEPT ![c].at = "loadNext", ![c].tail = tail]
          /\ UNCHANGED <<heap, head, tail, size, prod, history, fault>>
          /\ cons[c].at = "loadTail" /\ cons[c].head = head
      BY <1>0, <2>2 DEF DequeueLoadTail, ConsumerAt, Safe, ConsumerOK
    <3>2. /\ cons' \in [Consumers -> ConsumerType]
          /\ cons'[c].at = "loadNext" /\ cons'[c].head = head /\ cons'[c].tail = tail
      BY <1>0, <3>1 DEF ConsumerType
    <3> QED  BY <1>0, <3>1, <3>2 DEF ConsumerOK
  <2>3. CASE DequeueLoadNext(c)
    <3>1. /\ cons[c].at = "loadNext" /\ cons[c].head = head
          /\ cons[c].tail # head => tail # head
      BY <1>0, <2>3 DEF DequeueLoadNext, ConsumerAt, ConsumerOK
    <3>2. /\ cons' = [cons EXCEPT ![c].at = "recheck", ![c].next = next[head]]
          /\ UNCHANGED <<heap, head, tail, size, prod, history, fault>>
      BY <1>0, <2>3, <3>1 DEF DequeueLoadNext, Safe
    <3>3. next[head] \in Nodes \cup {NoNode}
      BY <1>0
    <3>4. /\ cons' \in [Consumers -> ConsumerType]
          /\ cons'[c].at = "recheck" /\ cons'[c].head = head
          /\ cons'[c].tail = cons[c].tail /\ cons'[c].next = next[head]
      BY <1>0, <3>1, <3>2, <3>3 DEF ConsumerType
    <3> QED  BY <1>0, <3>1, <3>2, <3>4 DEF ConsumerOK
  <2>4. CASE RecheckHead(c)
    <3>1. /\ cons[c].at = "recheck" /\ cons[c].head = head
          /\ UNCHANGED <<heap, head, tail, size, prod, history, fault>>
      BY <1>0, <2>4 DEF RecheckHead, ConsumerAt, Safe, ConsumerOK
    <3>2. CASE cons[c].head = cons[c].tail /\ cons[c].next = NoNode
      <4>1. cons' = [cons EXCEPT ![c] = IdleConsumer]
        BY <2>4, <3>2 DEF RecheckHead
      <4>2. cons' \in [Consumers -> ConsumerType] /\ cons'[c].at = "idle"
        BY <1>0, <4>1 DEF ConsumerType, IdleConsumer
      <4> QED  BY <1>0, <3>1, <4>2 DEF ConsumerOK
    <3>3. CASE cons[c].head = cons[c].tail /\ cons[c].next # NoNode
      <4>1. cons' = [cons EXCEPT ![c].at = "help"]
        BY <2>4, <3>1, <3>3 DEF RecheckHead
      <4>2. /\ cons' \in [Consumers -> ConsumerType]
            /\ cons'[c].at = "help" /\ cons'[c].head = cons[c].head
            /\ cons'[c].tail = cons[c].tail /\ cons'[c].next = cons[c].next
        BY <1>0, <4>1 DEF ConsumerType
      <4> QED  BY <1>0, <3>1, <3>3, <4>2 DEF ConsumerOK
    <3>4. CASE cons[c].head # cons[c].tail
      <4>1. cons' = [cons EXCEPT ![c].at = "unlink"]
        BY <2>4, <3>1, <3>4 DEF RecheckHead
      <4>2. /\ cons' \in [Consumers -> ConsumerType]
            /\ cons'[c].at = "unlink" /\ cons'[c].head = cons[c].head
            /\ cons'[c].tail = cons[c].tail /\ cons'[c].next = cons[c].next
        BY <1>0, <4>1 DEF ConsumerType
      <4> QED  BY <1>0, <3>1, <3>4, <4>2 DEF ConsumerOK
    <3> QED  BY <3>2, <3>3, <3>4
  <2> QED  BY <2>1, <2>2, <2>3, <2>4
<1>2. ConsumerInv(q)'
  BY <1>1 DEF ConsumerInv, OneAtATime
<1>3. /\ \A i : Node(q, i)' = Node(q, i) /\ Last(q)' = Last(q)
      /\ \A m : Unlinked(q, m)' <=> Unlinked(q, m)
  BY <1>1 DEF Node, Last, Unlinked, heap
<1>4. ListInv(q)' /\ TailInv(q)' /\ ProducerInv(q)'
  BY <1>1, <1>3 DEF QInv, ListInv, Follows, Node, TailInv, ProducerInv, ProducerOK, heap
<1>5. StateInv'
  BY <1>1 DEF QInv, StateInv, TypeOK, ThreadTypes, heap, history
<1>6. SizeInv(q)'
  <2>1. Uncounted' = Uncounted
    BY <1>1 DEF Uncounted
  <2>2. StillCounted' = {} /\ StillCounted = {}
    BY <1>1 DEF StillCounted, OneAtATime
  <2> QED  BY <1>1, <2>1, <2>2, SameSize DEF QInv
<1> QED  BY <1>2, <1>4, <1>5, <1>6 DEF QInv

\* What a step of the worker that changes no node leaves to the producer.
LEMMA ConsumerFrame ==
  ASSUME NEW q, QInv(q), UNCHANGED <<heap, head, prod>>
  PROVE  /\ ListInv(q)' /\ Last(q)' = Last(q) /\ \A i : Node(q, i)' = Node(q, i)
         /\ \A m : Unlinked(q, m)' <=> Unlinked(q, m)
         /\ tail' \in {tail, Last(q)} => ProducerInv(q)'
<1>1. /\ \A i : Node(q, i)' = Node(q, i) /\ Last(q)' = Last(q)
      /\ \A m : Unlinked(q, m)' <=> Unlinked(q, m)
  BY DEF Node, Last, Unlinked, heap
<1>2. ListInv(q)'
  BY <1>1 DEF QInv, ListInv, Follows, Node, heap
<1>3. ASSUME tail' \in {tail, Last(q)}, NEW p \in Producers PROVE ProducerOK(q, p)'
  <2>1. ProducerOK(q, p)
    BY DEF QInv, ProducerInv
  <2> QED  BY <1>1, <1>3, <2>1 DEF ProducerOK, heap
<1> QED  BY <1>1, <1>2, <1>3 DEF ProducerInv

\* tail_ is helped only from the dummy to the node after it, which is the last.
LEMMA HelpDequeueInv ==
  ASSUME OneAtATime, NEW q, QInv(q), NEW c \in Consumers, HelpDequeue(c)
  PROVE  QInv(q)'
<1>0. /\ cons \in [Consumers -> ConsumerType] /\ cons[c] \in ConsumerType
      /\ ConsumerOK(q, c) /\ ListInv(q) /\ TailInv(q)
      /\ head \in Nodes /\ tail \in Nodes /\ Len(q) \in Nat
      /\ \A i \in 1..Len(q) : q[i] \in Nodes
  BY ConsumerTypes
<1>1. /\ cons[c].at = "help" /\ cons[c].tail = head
      /\ Len(q) >= 1 /\ cons[c].next = q[1]
      /\ cons' = [cons EXCEPT ![c] = IdleConsumer]
      /\ UNCHANGED <<heap, head, size, prod, history, fault>>
  BY <1>0 DEF HelpDequeue, ConsumerAt, Safe, ConsumerOK
<1>2. cons' \in [Consumers -> ConsumerType] /\ cons'[c].at = "idle"
  BY <1>0, <1>1 DEF ConsumerType, IdleConsumer
<1>3. tail' = tail \/ (tail = head /\ tail' = q[1])
  BY <1>1 DEF HelpDequeue, SwingTail
<1>4. tail = head => Len(q) = 1
  <2>1. tail = head => Node(q, 0) = Node(q, Len(q)) \/ Node(q, 0) = Node(q, Len(q) - 1)
    BY <1>0 DEF TailInv, Last, Node
  <2>2. 0 \in 0..Len(q) /\ Len(q) \in 0..Len(q) /\ Len(q) - 1 \in 0..Len(q)
    BY <1>0, <1>1
  <2>3. \A i \in 0..Len(q) : Node(q, 0) = Node(q, i) => i = 0
    BY <1>0, <2>2 DEF ListInv
  <2>4. ASSUME NEW i, i = Len(q) - 1, Node(q, 0) = Node(q, i) PROVE Len(q) = 1
    BY <1>0, <2>2, <2>3, <2>4
  <2>5. Node(q, 0) # Node(q, Len(q))
    BY <1>1, <2>2, <2>3
  <2> QED  BY <2>1, <2>4, <2>5
<1>5. tail' \in {tail, Last(q)} /\ tail' \in Nodes
  BY <1>0, <1>1, <1>3, <1>4 DEF Last, Node
<1>6. ConsumerInv(q)'
  <2>1. ConsumerOK(q, c)'
    BY <1>2 DEF ConsumerOK
  <2> QED  BY <2>1 DEF ConsumerInv, OneAtATime
<1>7. ListInv(q)' /\ ProducerInv(q)' /\ TailInv(q)'
  <2>1. UNCHANGED <<heap, head, prod>>
    BY <1>1
  <2>2. /\ ListInv(q)' /\ Last(q)' = Last(q) /\ \A i : Node(q, i)' = Node(q, i)
        /\ ProducerInv(q)'
    BY <1>5, <2>1, ConsumerFrame
  <2> QED  BY <1>0, <1>5, <2>2 DEF TailInv
<1>8. StateInv'
  BY <1>1, <1>2, <1>5 DEF QInv, StateInv, TypeOK, ThreadTypes, heap, history
<1>9. SizeInv(q)'
  <2>1. Uncounted' = Uncounted
    BY <1>1 DEF Uncounted
  <2>2. StillCounted' = {} /\ StillCounted = {}
    BY <1>1, <1>2 DEF StillCounted, OneAtATime
  <2> QED  BY <1>1, <2>1, <2>2, SameSize DEF QInv
<1> QED  BY <1>6, <1>7, <1>8, <1>9 DEF QInv

\* head_ moves to the node after the dummy; tail_ is beyond the dummy.
LEMMA UnlinkInv ==
  ASSUME OneAtATime, NEW q, QInv(q), NEW c \in Consumers, Unlink(c), NEW r, r = Tail(q)
  PROVE  QInv(r)' /\ Len(q) >= 1 /\ head' = q[1] /\ cons[c].at = "unlink"
<1>0. /\ cons \in [Consumers -> ConsumerType] /\ cons[c] \in ConsumerType
      /\ ConsumerOK(q, c) /\ ListInv(q) /\ TailInv(q)
      /\ head \in Nodes /\ head \in alive /\ tail \in Nodes /\ Len(q) \in Nat
      /\ \A i \in 1..Len(q) : q[i] \in Nodes
  BY ConsumerTypes
<1>1. /\ cons[c].at = "unlink" /\ cons[c].head = head /\ tail # head
      /\ Len(q) >= 1 /\ cons[c].next = q[1]
      /\ UNCHANGED <<heap, tail, size, prod, history, fault>>
  BY <1>0 DEF Unlink, ConsumerAt, Safe, ConsumerOK
<1>2. head' = q[1] /\ cons' = [cons EXCEPT ![c].at = "take"] /\ q[1] \in Nodes
  BY <1>0, <1>1 DEF Unlink, CGoto, OneAtATime
<1>3. /\ cons' \in [Consumers -> ConsumerType]
      /\ cons'[c].at = "take" /\ cons'[c].head = head /\ cons'[c].next = q[1]
  BY <1>0, <1>1, <1>2 DEF ConsumerType
<1>4. /\ r \in Seq(Nodes) /\ Len(r) = Len(q) - 1
      /\ \A i \in 1..Len(r) : r[i] = q[i + 1]
  BY <1>0, <1>1, TailNodes DEF ListInv
<1>5. \A i \in 0..Len(r) : Node(r, i)' = Node(q, i + 1) /\ i + 1 \in 0..Len(q)
  BY <1>0, <1>1, <1>2, <1>4 DEF Node
<1>6. Last(r)' = Last(q)
  <2>1. Last(r)' = Node(r, Len(r))' /\ Len(r) \in 0..Len(r) /\ Len(r) + 1 = Len(q)
    BY <1>0, <1>1, <1>4 DEF Last
  <2> QED  BY <1>5, <2>1 DEF Last
<1>7. ListInv(r)'
  <2>1. \A i \in 0..Len(r) : Node(r, i)' \in alive'
    BY <1>0, <1>1, <1>5 DEF ListInv, heap
  <2>2. \A i, j \in 0..Len(r) : Node(r, i)' = Node(r, j)' => i = j
    BY <1>0, <1>4, <1>5 DEF ListInv
  <2>3. \A i \in 1..Len(r) : task'[r[i]] \in Tasks
    BY <1>0, <1>1, <1>4 DEF ListInv, heap
  <2>4. ASSUME NEW i \in 0..Len(r)
        PROVE  next'[Node(r, i)'] = IF i < Len(r) THEN r[i + 1] ELSE NoNode
    <3>1. next'[Node(r, i)'] = next[Node(q, i + 1)] /\ i + 1 \in 0..Len(q)
      BY <1>1, <1>5 DEF heap
    <3>2. next[Node(q, i + 1)] = IF i + 1 < Len(q) THEN q[i + 1 + 1] ELSE NoNode
      BY <1>0, <3>1 DEF ListInv, Follows, Node
    <3> QED  BY <1>0, <1>4, <3>1, <3>2
  <2>5. Follows(r)'
    BY <1>4, <2>4 DEF Follows, Node
  <2> QED  BY <1>4, <2>1, <2>2, <2>3, <2>5 DEF ListInv
<1>8. TailInv(r)'
  <2>1. CASE tail = Last(q)
    BY <1>1, <1>6, <2>1 DEF TailInv
  <2>2. CASE tail = Node(q, Len(q) - 1)
    <3>1. Len(q) # 1
      BY <1>0, <1>1, <2>2 DEF Node
    <3>2. Len(r) - 1 \in 0..Len(r) /\ Len(r) - 1 + 1 = Len(q) - 1 /\ Len(r) >= 1
      BY <1>0, <1>1, <1>4, <3>1
    <3>3. Node(r, Len(r) - 1)' = Node(q, Len(q) - 1)
      BY <1>5, <3>2
    <3> QED  BY <1>1, <2>2, <3>2, <3>3 DEF TailInv
  <2> QED  BY <1>0, <2>1, <2>2 DEF TailInv
<1>9. \A m : Unlinked(q, m) => Unlinked(r, m)'
  BY <1>1, <1>5 DEF Unlinked, heap
<1>10. ProducerInv(r)'
  <2>1. ASSUME NEW p \in Producers PROVE ProducerOK(r, p)'
    <3>1. ProducerOK(q, p)
      BY DEF QInv, ProducerInv
    <3> QED  BY <1>1, <1>6, <1>9, <3>1 DEF ProducerOK, heap
  <2> QED  BY <2>1 DEF ProducerInv
<1>11. ConsumerInv(r)'
  <2>1. \A h : h = head => Unlinked(r, h)'
    <3>1. \A i \in 0..Len(r) : Node(q, i + 1) # Node(q, 0)
      BY <1>0, <1>4, <1>5 DEF ListInv
    <3> QED  BY <1>0, <1>1, <1>5, <3>1 DEF Unlinked, Node, heap
  <2>2. ASSUME NEW p \in Producers, prod[p].at \in {"loadTail", "loadNext", "recheck", "link"}
        PROVE  head # prod[p].new
    <3>1. Unlinked(q, prod[p].new)
      BY <2>2 DEF QInv, ProducerInv, ProducerOK
    <3> QED  BY <1>0, <3>1 DEF Unlinked, Node
  <2>3. task'[q[1]] \in Tasks
    BY <1>0, <1>1 DEF ListInv, heap
  <2>4. ConsumerOK(r, c)'
    BY <1>1, <1>2, <1>3, <2>1, <2>2, <2>3 DEF ConsumerOK
  <2> QED  BY <2>4 DEF ConsumerInv, OneAtATime
<1>12. StateInv'
  BY <1>0, <1>1, <1>2, <1>3 DEF QInv, StateInv, TypeOK, ThreadTypes, heap, history
<1>13. SizeInv(r)'
  <2>1. Uncounted' = Uncounted
    BY <1>1 DEF Uncounted
  <2>2. StillCounted' = {c} /\ StillCounted = {}
    BY <1>1, <1>3 DEF StillCounted, OneAtATime
  <2>3. Cardinality(StillCounted') = 1 /\ Cardinality(StillCounted) = 0
    BY <2>2, FS_Singleton, FS_EmptySet
  <2>4. Cardinality(Uncounted) \in Nat
    <3>1. \A x, y \in Uncounted : x = y
      BY DEF Uncounted, OneAtATime
    <3> QED  BY <3>1, AtMostOne
  <2> QED  BY <1>0, <1>1, <1>4, <2>1, <2>3, <2>4 DEF QInv, SizeInv
<1> QED  BY <1>1, <1>2, <1>7, <1>8, <1>10, <1>11, <1>12, <1>13 DEF QInv

\* A task is taken from the new dummy, counted out, and the old dummy deleted:
\* the list is no longer concerned.
LEMMA TakeTaskInv ==
  ASSUME OneAtATime, NEW q, QInv(q), NEW c \in Consumers, TakeTask(c)
  PROVE  QInv(q)'
<1>0. /\ cons \in [Consumers -> ConsumerType] /\ cons[c] \in ConsumerType
      /\ ConsumerOK(q, c) /\ ListInv(q) /\ TailInv(q) /\ TypeOK
      /\ head \in Nodes /\ head \in alive /\ tail \in Nodes /\ Len(q) \in Nat
  BY ConsumerTypes
<1>1. /\ cons[c].at = "take" /\ cons[c].next = head /\ task[head] \in Tasks
      /\ Unlinked(q, cons[c].head)
      /\ \A p \in Producers : prod[p].at \in {"loadTail", "loadNext", "recheck", "link"} =>
           cons[c].head # prod[p].new
  BY <1>0 DEF TakeTask, ConsumerAt, ConsumerOK
<1>2. /\ cons' = [cons EXCEPT ![c].at = "uncount", ![c].task = task[head]]
      /\ task' = [task EXCEPT ![head] = NoTask]
      /\ UNCHANGED <<alive, next, head, tail, size, prod, history, fault>>
  BY <1>0, <1>1 DEF TakeTask, Safe
<1>3. /\ cons' \in [Consumers -> ConsumerType]
      /\ cons'[c].at = "uncount" /\ cons'[c].task = task[head]
      /\ cons'[c].head = cons[c].head
  BY <1>0, <1>1, <1>2 DEF ConsumerType
<1>4. /\ task' \in [Nodes -> Tasks \cup {NoTask}]
      /\ \A m \in alive : m # head => task'[m] = task[m]
  BY <1>0, <1>2 DEF TypeOK
<1>5. /\ \A i : Node(q, i)' = Node(q, i) /\ Last(q)' = Last(q)
      /\ \A m : Unlinked(q, m)' <=> Unlinked(q, m)
  BY <1>2 DEF Node, Last, Unlinked
<1>6. ListInv(q)'
  <2>1. \A i \in 0..Len(q) : Node(q, i) \in alive' /\ next'[Node(q, i)] = next[Node(q, i)]
    BY <1>0, <1>2 DEF ListInv
  <2>2. ASSUME NEW i \in 1..Len(q) PROVE task'[q[i]] \in Tasks
    <3>1. q[i] \in alive /\ q[i] # head
      <4>1. i \in 0..Len(q) /\ 0 \in 0..Len(q) /\ Node(q, i) = q[i] /\ Node(q, 0) = head /\ i # 0
        BY <1>0 DEF Node
      <4> QED  BY <1>0, <4>1 DEF ListInv
    <3> QED  BY <1>0, <1>4, <3>1 DEF ListInv
  <2> QED  BY <1>0, <1>2, <2>1, <2>2, SameList
<1>7. TailInv(q)'
  BY <1>0, <1>2, <1>5 DEF TailInv
<1>8. ProducerInv(q)'
  <2>1. ASSUME NEW p \in Producers PROVE ProducerOK(q, p)'
    <3>1. ProducerOK(q, p)
      BY DEF QInv, ProducerInv
    <3>2. \A m : Unlinked(q, m) => task'[m] = task[m]
      BY <1>0, <1>4 DEF Unlinked, Node
    <3> QED  BY <1>2, <1>5, <3>1, <3>2 DEF ProducerOK
  <2> QED  BY <2>1 DEF ProducerInv
<1>9. ConsumerInv(q)'
  <2>1. ConsumerOK(q, c)'
    BY <1>1, <1>2, <1>3, <1>5 DEF ConsumerOK
  <2> QED  BY <2>1 DEF ConsumerInv, OneAtATime
<1>10. StateInv'
  BY <1>0, <1>2, <1>3, <1>4 DEF QInv, StateInv, TypeOK, ThreadTypes, history
<1>11. SizeInv(q)'
  <2>1. Uncounted' = Uncounted
    BY <1>2 DEF Uncounted
  <2>2. StillCounted' = {c} /\ StillCounted = {c}
    BY <1>1, <1>3 DEF StillCounted, OneAtATime
  <2> QED  BY <1>2, <2>1, <2>2, SameSize DEF QInv
<1> QED  BY <1>6, <1>7, <1>8, <1>9, <1>10, <1>11 DEF QInv

LEMMA UncountInv ==
  ASSUME OneAtATime, NEW q, QInv(q), NEW c \in Consumers, Uncount(c)
  PROVE  QInv(q)'
<1>0. /\ cons \in [Consumers -> ConsumerType] /\ cons[c] \in ConsumerType
      /\ ConsumerOK(q, c) /\ TailInv(q) /\ Len(q) \in Nat
  BY ConsumerTypes
<1>1. /\ cons[c].at = "uncount" /\ size' = (size - 1) % SizeRange
      /\ cons' = [cons EXCEPT ![c].at = "delete"]
      /\ UNCHANGED <<heap, head, tail, prod, history, fault>>
  BY DEF Uncount, ConsumerAt, CGoto, Safe
<1>2. /\ cons' \in [Consumers -> ConsumerType] /\ cons'[c].at = "delete"
      /\ cons'[c].head = cons[c].head /\ cons'[c].task = cons[c].task
  BY <1>0, <1>1 DEF ConsumerType
<1>3. /\ ListInv(q)' /\ ProducerInv(q)' /\ TailInv(q)'
      /\ \A m : Unlinked(q, m)' <=> Unlinked(q, m)
  <2>1. UNCHANGED <<heap, head, prod>> /\ tail' = tail
    BY <1>1
  <2>2. /\ ListInv(q)' /\ Last(q)' = Last(q) /\ \A i : Node(q, i)' = Node(q, i)
        /\ ProducerInv(q)' /\ \A m : Unlinked(q, m)' <=> Unlinked(q, m)
    BY <2>1, ConsumerFrame
  <2> QED  BY <1>0, <2>1, <2>2 DEF TailInv
<1>4. ConsumerInv(q)'
  <2>1. ConsumerOK(q, c)'
    BY <1>0, <1>1, <1>2, <1>3 DEF ConsumerOK
  <2> QED  BY <2>1 DEF ConsumerInv, OneAtATime
<1>5. SizeInv(q)' /\ size' \in 0..(SizeRange - 1)
  <2>1. StillCounted' = {} /\ StillCounted = {c}
    BY <1>1, <1>2 DEF StillCounted, OneAtATime
  <2>2. Cardinality(StillCounted') = 0 /\ Cardinality(StillCounted) = 1
    BY <2>1, FS_Singleton, FS_EmptySet
  <2>3. Uncounted' = Uncounted
    BY <1>1 DEF Uncounted
  <2>4. Cardinality(Uncounted) \in Nat
    <3>1. \A x, y \in Uncounted : x = y
      BY DEF Uncounted, OneAtATime
    <3> QED  BY <3>1, AtMostOne
  <2> DEFINE a == Len(q) + 1 - Cardinality(Uncounted)
  <2>5. a \in Int /\ size = a % SizeRange
    BY <1>0, <2>2, <2>4 DEF QInv, SizeInv
  <2>6. a - 1 = Len(q) + 0 - Cardinality(Uncounted)
    BY <1>0, <2>4
  <2> HIDE DEF a
  <2>7. size' = (a - 1) % SizeRange /\ (a - 1) % SizeRange \in 0..(SizeRange - 1)
    <3>1. SizeRange \in Nat /\ SizeRange > 1
      BY QueueAssumption
    <3>2. ((a % SizeRange) - 1) % SizeRange = (a - 1) % SizeRange
      BY <2>5, <3>1, CountDown
    <3>3. (a - 1) % SizeRange \in 0..(SizeRange - 1)
      BY <2>5, <3>1
    <3> QED  BY <1>1, <2>5, <3>2, <3>3
  <2> QED  BY <2>2, <2>3, <2>6, <2>7 DEF SizeInv
<1>6. StateInv'
  BY <1>1, <1>2, <1>5 DEF QInv, StateInv, TypeOK, ThreadTypes, heap, history
<1> QED  BY <1>3, <1>4, <1>5, <1>6 DEF QInv

LEMMA DeleteNodeInv ==
  ASSUME OneAtATime, NEW q, QInv(q), NEW c \in Consumers, DeleteNode(c)
  PROVE  QInv(q)' /\ received' = Append(received, cons[c].task)
<1>0. /\ cons \in [Consumers -> ConsumerType] /\ cons[c] \in ConsumerType
      /\ ConsumerOK(q, c) /\ ListInv(q) /\ TailInv(q) /\ Len(q) \in Nat /\ TypeOK
  BY ConsumerTypes
<1>1. /\ cons[c].at = "delete" /\ Unlinked(q, cons[c].head) /\ cons[c].task \in Tasks
      /\ \A p \in Producers : prod[p].at \in {"loadTail", "loadNext", "recheck", "link"} =>
           cons[c].head # prod[p].new
  BY <1>0 DEF DeleteNode, ConsumerAt, ConsumerOK
<1>2. /\ alive' = alive \ {cons[c].head} /\ received' = Append(received, cons[c].task)
      /\ cons' = [cons EXCEPT ![c] = IdleConsumer]
      /\ UNCHANGED <<next, task, head, tail, size, prod, submitted, fault>>
  BY <1>1 DEF DeleteNode, Unlinked, Safe
<1>3. cons' \in [Consumers -> ConsumerType] /\ cons'[c].at = "idle"
  BY <1>0, <1>2 DEF ConsumerType, IdleConsumer
<1>4. /\ \A i : Node(q, i)' = Node(q, i) /\ Last(q)' = Last(q)
      /\ \A m : Unlinked(q, m) /\ m # cons[c].head => Unlinked(q, m)'
  BY <1>2 DEF Node, Last, Unlinked
<1>5. ListInv(q)'
  <2>1. \A i \in 0..Len(q) : Node(q, i) \in alive' /\ next'[Node(q, i)] = next[Node(q, i)]
    BY <1>0, <1>1, <1>2 DEF ListInv, Unlinked
  <2>2. \A i \in 1..Len(q) : task'[q[i]] \in Tasks
    BY <1>0, <1>2 DEF ListInv
  <2> QED  BY <1>0, <1>2, <2>1, <2>2, SameList
<1>6. TailInv(q)'
  BY <1>0, <1>2, <1>4 DEF TailInv
<1>7. ProducerInv(q)'
  <2>1. ASSUME NEW p \in Producers PROVE ProducerOK(q, p)'
    <3>1. ProducerOK(q, p)
      BY DEF QInv, ProducerInv
    <3> QED  BY <1>1, <1>2, <1>4, <3>1 DEF ProducerOK
  <2> QED  BY <2>1 DEF ProducerInv
<1>8. ConsumerInv(q)'
  <2>1. ConsumerOK(q, c)'
    BY <1>3 DEF ConsumerOK
  <2> QED  BY <2>1 DEF ConsumerInv, OneAtATime
<1>9. StateInv'
  <2>1. received' \in Seq(Tasks)
    BY <1>0, <1>1, <1>2 DEF TypeOK
  <2>2. IsFiniteSet(alive')
    BY <1>2, FS_RemoveElement DEF QInv, StateInv
  <2> QED  BY <1>0, <1>2, <1>3, <2>1, <2>2 DEF QInv, StateInv, TypeOK, ThreadTypes
<1>10. SizeInv(q)'
  <2>1. Uncounted' = Uncounted
    BY <1>2 DEF Uncounted
  <2>2. StillCounted' = {} /\ StillCounted = {}
    BY <1>1, <1>3 DEF StillCounted, OneAtATime
  <2> QED  BY <1>2, <2>1, <2>2, SameSize DEF QInv
<1> QED  BY <1>2, <1>5, <1>6, <1>7, <1>8, <1>9, <1>10 DEF QInv

LEMMA UnchangedQInv == ASSUME NEW q, QInv(q), UNCHANGED vars PROVE QInv(q)'
BY DEF vars, heap, history, QInv, StateInv, TypeOK, ThreadTypes, ListInv, Follows, Node,
   TailInv, Last, ProducerInv, ProducerOK, Unlinked, ConsumerInv, ConsumerOK, SizeInv,
   Uncounted, StillCounted

\* Every step keeps the invariant, of the same sequence but for the two
\* compare-and-swaps that link a node and unlink one.
LEMMA NextQInv ==
  ASSUME OneAtATime, NEW q, QInv(q), [Next]_vars
  PROVE  \/ QInv(q)'
         \/ \E p \in Producers : Link(p) /\ \E r \in Seq(Nodes) : QInv(r)'
         \/ \E c \in Consumers : Unlink(c) /\ \E r \in Seq(Nodes) : QInv(r)'
<1>1. ASSUME NEW p \in Producers, ProducerStep(p) \/ \E k \in Tasks, n \in Nodes : Enqueue(p, k, n)
      PROVE  QInv(q)' \/ (Link(p) /\ \E r \in Seq(Nodes) : QInv(r)')
  <2>1. ~HelpEnqueue(p)
    BY DEF QInv, ProducerInv, ProducerOK, HelpEnqueue, ProducerAt
  <2>2. CASE Link(p)
    <3>1. \A n, r : n = prod[p].new /\ r = Append(q, n) => QInv(r)'
      BY <2>2, LinkInv
    <3>2. \A r : QInv(r)' => r \in Seq(Nodes)
      BY DEF QInv, ListInv
    <3> QED  BY <2>2, <3>1, <3>2
  <2> QED  BY <1>1, <2>1, <2>2, EnqueueInv, ProducerLoadsInv, SwingInv, CountInv DEF ProducerStep
<1>2. ASSUME NEW c \in Consumers, ConsumerStep(c)
      PROVE  QInv(q)' \/ (Unlink(c) /\ \E r \in Seq(Nodes) : QInv(r)')
  <2>1. CASE Unlink(c)
    <3>1. \A r : r = Tail(q) => QInv(r)'
      BY <2>1, UnlinkInv
    <3>2. \A r : QInv(r)' => r \in Seq(Nodes)
      BY DEF QInv, ListInv
    <3> QED  BY <2>1, <3>1, <3>2
  <2> QED  BY <1>2, <2>1, ConsumerLoadsInv, HelpDequeueInv, TakeTaskInv, UncountInv,
              DeleteNodeInv DEF ConsumerStep
<1>3. CASE UNCHANGED vars
  BY <1>3, UnchangedQInv
<1> QED  BY <1>1, <1>2, <1>3 DEF Next

\* The invariant that the theorems below are read off.
LEMMA QueueInvariant == ASSUME OneAtATime PROVE Spec => []IInv
<1>1. Init => IInv
  <2>1. <<>> \in Seq(Nodes)
    OBVIOUS
  <2> QED  BY <2>1, InitQInv, Zenon DEF IInv
<1>2. IInv /\ [Next]_vars => IInv'
  BY NextQInv DEF IInv
<1> QED  BY <1>1, <1>2, PTL DEF Spec

\* With one thread at each end no step touches a node that was deleted: neither
\* the producer's last node nor the worker's dummy, however long ago they were loaded.
THEOREM QueueNoUseAfterFree == ASSUME OneAtATime PROVE Spec => []NoUseAfterFree
<1>1. IInv => NoUseAfterFree
  BY DEF IInv, QInv, StateInv, NoUseAfterFree
<1> QED  BY <1>1, QueueInvariant, PTL

(***************************************************************************)
(* The sequence of the invariant is Chain.                                 *)
(***************************************************************************)
\* The list is finite: its nodes are distinct and allocated.
LEMMA ListIsChain ==
  ASSUME NEW q, StateInv, ListInv(q)
  PROVE  q \in Chains
<1>1. /\ q \in Seq(Nodes) /\ Len(q) \in Nat /\ Follows(q) /\ IsFiniteSet(alive)
      /\ \A i \in 0..Len(q) : Node(q, i) \in alive
      /\ \A i, j \in 0..Len(q) : Node(q, i) = Node(q, j) => i = j
  BY DEF ListInv, StateInv
<1>2. /\ \A i \in 1..Len(q) : i \in 0..Len(q) /\ i # 0 /\ Node(q, i) = q[i]
      /\ 0 \in 0..Len(q) /\ Node(q, 0) = head
  BY <1>1 DEF Node
<1>3. /\ head \in alive
      /\ \A i \in 1..Len(q) : q[i] \in alive \ {head}
      /\ \A i, j \in 1..Len(q) : q[i] = q[j] => i = j
  BY <1>1, <1>2
<1>4. q \in [1..Len(q) -> alive \ {head}]
  BY <1>1, <1>3
<1>5. q \in Injection(1..Len(q), alive \ {head})
  BY <1>3, <1>4 DEF Injection, IsInjective
<1>6. /\ IsFiniteSet(alive \ {head}) /\ Cardinality(alive \ {head}) = Cardinality(alive) - 1
      /\ Cardinality(alive) \in Nat
  <2>1. Cardinality(alive) \in Nat
    BY <1>1, FS_CardinalityType
  <2>2. IsFiniteSet(alive \ {head})
    BY <1>1, FS_RemoveElement
  <2>3. Cardinality(alive \ {head}) = Cardinality(alive) - 1
    BY <1>1, <1>3, FS_RemoveElement
  <2> QED  BY <2>1, <2>2, <2>3
<1>7. Cardinality(1..Len(q)) = Len(q)
  <2>1. 1 \in Int /\ Len(q) \in Int
    BY <1>1
  <2>2. Cardinality(1..Len(q)) = IF 1 > Len(q) THEN 0 ELSE Len(q) - 1 + 1
    BY <2>1, FS_Interval
  <2> QED  BY <1>1, <2>2
<1>8. Len(q) <= Cardinality(alive) - 1
  BY <1>5, <1>6, <1>7, FS_Injection
<1>9. Len(q) \in 0..(Cardinality(alive) - 1)
  BY <1>1, <1>6, <1>8
<1> QED  BY <1>1, <1>4, <1>9 DEF Chains

\* Two sequences that follow the next fields from the dummy are the same: the
\* first place where they differ has a predecessor where they do not.
LEMMA ChainIsUnique ==
  ASSUME NEW q, StateInv, ListInv(q), NEW r \in Chains
  PROVE  r = q
<1>1. /\ q \in Seq(Nodes) /\ Len(q) \in Nat /\ Follows(q)
      /\ \A i \in 1..Len(q) : q[i] \in Nodes
      /\ alive \subseteq Nodes /\ NoNode \notin Nodes
  BY QueueAssumption DEF ListInv, StateInv, TypeOK
<1>2. PICK m \in Nat : r \in [1..m -> alive \ {head}]
  BY DEF Chains
<1>3. Len(r) = m /\ \A i \in 1..m : r[i] \in Nodes
  BY <1>1, <1>2
<1>4. Follows(r)
  BY DEF Chains
<1> DEFINE Differ == {i \in 0..Len(q) : ~(i <= m /\ Node(r, i) = Node(q, i))}
<1>5. Differ = {}
  <2> SUFFICES ASSUME Differ # {} PROVE FALSE
    OBVIOUS
  <2>0. Differ \subseteq Nat
    BY <1>1
  <2>1. PICK i \in Differ : \A j \in Differ : i <= j
    <3> HIDE DEF Differ
    <3> QED  BY <2>0, Least
  <2>2. i \in 1..Len(q) /\ i - 1 \in 0..Len(q) /\ i - 1 \notin Differ
    BY <1>1, <1>2, <2>1 DEF Node
  <2>3. i - 1 <= m /\ Node(r, i - 1) = Node(q, i - 1)
    BY <2>2
  <2>4. next[Node(q, i - 1)] = q[i]
    BY <1>1, <2>2 DEF Follows, Node
  <2>5. i - 1 \in 0..m /\ next[Node(r, i - 1)] = IF i - 1 < m THEN r[i] ELSE NoNode
    BY <1>2, <1>3, <1>4, <2>2, <2>3 DEF Follows, Node
  <2>6. i <= m /\ r[i] = q[i]
    BY <1>1, <1>2, <2>2, <2>3, <2>4, <2>5
  <2> QED  BY <2>1, <2>2, <2>6 DEF Node
<1>6. Len(q) <= m /\ \A i \in 0..Len(q) : Node(r, i) = Node(q, i)
  BY <1>1, <1>5
<1>7. Len(q) = m
  <2>1. Len(q) \in 0..Len(q) /\ Len(q) \in 0..m
    BY <1>1, <1>2, <1>6
  <2>2. next[Node(q, Len(q))] = NoNode
    BY <1>1, <2>1 DEF Follows, Node
  <2>3. next[Node(r, Len(q))] = IF Len(q) < m THEN r[Len(q) + 1] ELSE NoNode
    BY <1>3, <1>4, <2>1 DEF Follows, Node
  <2> QED  BY <1>1, <1>2, <1>3, <1>6, <2>1, <2>2, <2>3
<1>8. \A i \in 1..m : r[i] = q[i]
  BY <1>1, <1>6, <1>7 DEF Node
<1>9. q = [i \in 1..m |-> q[i]] /\ r = [i \in 1..m |-> r[i]]
  BY <1>1, <1>2, <1>7
<1> QED  BY <1>8, <1>9

LEMMA ListIs == ASSUME NEW q PROVE StateInv /\ ListInv(q) => Chain = q
BY ListIsChain, ChainIsUnique DEF Chain

LEMMA ChainIs == ASSUME NEW q PROVE QInv(q) => Chain = q
BY ListIs DEF QInv

LEMMA ChainIsNext == ASSUME NEW q PROVE (QInv(q) => Chain = q)'
BY ChainIs, PTL

\* The state is well-typed, and tail_ is in the list.
THEOREM QueueWellFormed == ASSUME OneAtATime PROVE Spec => []WellFormed
<1>1. ASSUME NEW q, QInv(q) PROVE WellFormed
  <2>1. Chain = q /\ TypeOK /\ Len(q) \in Nat
    BY <1>1, ChainIs DEF QInv, StateInv, ListInv
  <2>2. tail = head \/ \E i \in DOMAIN q : q[i] = tail
    <3>1. q \in Seq(Nodes) /\ DOMAIN q = 1..Len(q)
      BY <1>1 DEF QInv, ListInv
    <3>2. CASE tail = Last(q)
      BY <2>1, <3>1, <3>2 DEF Last, Node
    <3>3. CASE Len(q) >= 1 /\ tail = Node(q, Len(q) - 1)
      BY <2>1, <3>1, <3>3 DEF Node
    <3> QED  BY <1>1, <3>2, <3>3 DEF QInv, TailInv
  <2> QED  BY <2>1, <2>2 DEF WellFormed, TailInList
<1>2. IInv => WellFormed
  BY <1>1 DEF IInv
<1> QED  BY <1>2, QueueInvariant, PTL

\* The counter is the length of the list but for the operations under way.
THEOREM QueueSizeExact == ASSUME OneAtATime PROVE Spec => []SizeExact
<1>1. ASSUME NEW q, QInv(q) PROVE SizeExact
  BY <1>1, ChainIs DEF QInv, SizeInv, SizeExact
<1>2. IInv => SizeExact
  BY <1>1 DEF IInv
<1> QED  BY <1>2, QueueInvariant, PTL
(***************************************************************************)
(* The refinement: the queue is a FIFO.  Link is Put, Unlink is Take, and  *)
(* every other step leaves what TaskQueue sees of the state alone.         *)
(***************************************************************************)
TasksOf(q) == [i \in 1..Len(q) |-> task[q[i]]]

LEMMA ContentOfList == ASSUME NEW q PROVE StateInv /\ ListInv(q) => Content = TasksOf(q)
<1> SUFFICES ASSUME StateInv, ListInv(q) PROVE Content = TasksOf(q)
  OBVIOUS
<1>1. Chain = q
  BY ListIs
<1>2. DOMAIN q = 1..Len(q)
  BY DEF ListInv
<1> QED  BY <1>1, <1>2 DEF Content, TasksOf

LEMMA ContentOfListNext == ASSUME NEW q PROVE (StateInv /\ ListInv(q) => Content = TasksOf(q))'
BY ContentOfList, PTL

LEMMA ContentIs == ASSUME NEW q PROVE QInv(q) => Content = TasksOf(q)
BY ContentOfList DEF QInv

LEMMA ContentIsNext == ASSUME NEW q PROVE (QInv(q) => Content = TasksOf(q))'
BY ContentIs, PTL

\* What is on its way to the worker.
LEMMA UnderwayIs ==
  OneAtATime => \A c \in Consumers :
    /\ cons[c].at = "take" => Underway = <<task[cons[c].next]>>
    /\ cons[c].at \in {"uncount", "delete"} => Underway = <<cons[c].task>>
    /\ cons[c].at \notin {"take", "uncount", "delete"} => Underway = <<>>
<1> SUFFICES ASSUME OneAtATime, NEW c \in Consumers
             PROVE  /\ cons[c].at = "take" => Underway = <<task[cons[c].next]>>
                    /\ cons[c].at \in {"uncount", "delete"} => Underway = <<cons[c].task>>
                    /\ cons[c].at \notin {"take", "uncount", "delete"} => Underway = <<>>
  OBVIOUS
<1> DEFINE takers == {x \in Consumers : cons[x].at \in {"take", "uncount", "delete"}}
<1>1. CASE cons[c].at \in {"take", "uncount", "delete"}
  <2>1. takers = {c}
    BY <1>1 DEF OneAtATime
  <2>2. (CHOOSE x \in takers : TRUE) = c
    BY <2>1
  <2> QED  BY <1>1, <2>1, <2>2 DEF Underway
<1>2. CASE cons[c].at \notin {"take", "uncount", "delete"}
  <2>1. takers = {}
    BY <1>2 DEF OneAtATime
  <2> QED  BY <1>2, <2>1 DEF Underway
<1> QED  BY <1>1, <1>2

LEMMA UnderwayIsNext ==
  (OneAtATime => \A c \in Consumers :
    /\ cons[c].at = "take" => Underway = <<task[cons[c].next]>>
    /\ cons[c].at \in {"uncount", "delete"} => Underway = <<cons[c].task>>
    /\ cons[c].at \notin {"take", "uncount", "delete"} => Underway = <<>>)'
BY UnderwayIs, PTL

LEMMA NobodyUnderway ==
  Consumers = {} => Underway = <<>>
BY DEF Underway

LEMMA NobodyUnderwayNext ==
  (Consumers = {} => Underway = <<>>)'
BY NobodyUnderway, PTL

\* A step of the producer leaves what is on its way to the worker alone.
LEMMA SameUnderway ==
  ASSUME OneAtATime, cons' = cons,
         \A c \in Consumers : cons[c].at = "take" => task'[cons[c].next] = task[cons[c].next]
  PROVE  Underway' = Underway
<1>1. CASE Consumers = {}
  BY <1>1, NobodyUnderway, NobodyUnderwayNext
<1>2. ASSUME NEW c \in Consumers PROVE Underway' = Underway
  <2>1. CASE cons[c].at = "take"
    <3>1. Underway = <<task[cons[c].next]>>
      BY <2>1, UnderwayIs
    <3>2. Underway' = <<task'[cons[c].next]>>
      BY <2>1, UnderwayIsNext
    <3> QED  BY <2>1, <3>1, <3>2
  <2>2. CASE cons[c].at \in {"uncount", "delete"}
    BY <2>2, UnderwayIs, UnderwayIsNext
  <2>3. CASE cons[c].at \notin {"take", "uncount", "delete"}
    BY <2>3, UnderwayIs, UnderwayIsNext
  <2> QED  BY <2>1, <2>2, <2>3
<1> QED  BY <1>1, <1>2

\* A step that leaves the list, its tasks and the tasks taken alone is a stutter.
LEMMA SameView ==
  ASSUME NEW q, QInv(q), QInv(q)', \A i \in 1..Len(q) : task'[q[i]] = task[q[i]],
         (received \o Underway)' = received \o Underway
  PROVE  UNCHANGED <<Content, received \o Underway>>
<1>1. Content = TasksOf(q) /\ Content' = TasksOf(q)'
  BY ContentIs, ContentIsNext
<1>2. TasksOf(q)' = TasksOf(q)
  BY DEF TasksOf
<1> QED  BY <1>1, <1>2

\* The steps of the producer that link nothing.
LEMMA ProducerView ==
  ASSUME OneAtATime, NEW q, QInv(q), NEW p \in Producers,
         (ProducerStep(p) /\ ~Link(p)) \/ \E k \in Tasks, n \in Nodes : Enqueue(p, k, n)
  PROVE  UNCHANGED <<Content, received \o Underway>>
<1>1. CASE \E k \in Tasks, n \in Nodes : Enqueue(p, k, n)
  <2> SUFFICES ASSUME NEW k \in Tasks, NEW n \in Nodes, Enqueue(p, k, n)
               PROVE  UNCHANGED <<Content, received \o Underway>>
    BY <1>1
  <2>1. /\ n \notin alive /\ task' = [task EXCEPT ![n] = k]
        /\ cons' = cons /\ received' = received
    BY DEF Enqueue
  <2>2. /\ task \in [Nodes -> Tasks \cup {NoTask}]
        /\ \A i \in 1..Len(q) : q[i] \in Nodes /\ q[i] \in alive
        /\ head \in Nodes /\ head \in alive
    <3>1. /\ q \in Seq(Nodes) /\ Len(q) \in Nat
          /\ \A i \in 0..Len(q) : Node(q, i) \in alive
      BY DEF QInv, ListInv
    <3>2. \A i \in 1..Len(q) : i \in 0..Len(q) /\ Node(q, i) = q[i] /\ q[i] \in Nodes
      BY <3>1 DEF Node
    <3>3. 0 \in 0..Len(q) /\ Node(q, 0) = head
      BY <3>1 DEF Node
    <3> QED  BY <3>1, <3>2, <3>3 DEF QInv, StateInv, TypeOK
  <2>3. \A i \in 1..Len(q) : task'[q[i]] = task[q[i]]
    BY <2>1, <2>2
  <2>4. \A c \in Consumers : cons[c].at = "take" => task'[cons[c].next] = task[cons[c].next]
    BY <2>1, <2>2 DEF QInv, ConsumerInv, ConsumerOK
  <2>5. Underway' = Underway
    BY <2>1, <2>4, SameUnderway
  <2>6. QInv(q)'
    BY EnqueueInv
  <2> QED  BY <2>1, <2>3, <2>5, <2>6, SameView
<1>2. CASE ProducerStep(p) /\ ~Link(p)
  <2>1. LoadTail(p) \/ LoadNext(p) \/ RecheckTail(p) \/ Swing(p) \/ Count(p)
    BY <1>2 DEF QInv, ProducerInv, ProducerOK, HelpEnqueue, ProducerAt, ProducerStep
  <2>2. QInv(q)'
    BY <2>1, ProducerLoadsInv, SwingInv, CountInv
  <2>3. UNCHANGED <<task, cons, received>>
    BY <2>1 DEF LoadTail, LoadNext, RecheckTail, Swing, Count, Crash, heap, history
  <2>4. Underway' = Underway
    BY <2>3, SameUnderway
  <2> QED  BY <2>2, <2>3, <2>4, SameView
<1> QED  BY <1>1, <1>2

\* A node behind the others is a task behind the others.
LEMMA AppendTask ==
  ASSUME NEW q, ListInv(q), NEW n \in Nodes, task[n] \in Tasks, task' = task,
         NEW r, r = Append(q, n)
  PROVE  TasksOf(r)' = Append(TasksOf(q), task[n])
<1>1. q \in Seq(Nodes) /\ Len(q) \in Nat
  BY DEF ListInv
<1>2. /\ Len(r) = Len(q) + 1 /\ \A i \in 1..Len(q) : r[i] = q[i]
      /\ r[Len(q) + 1] = n
  BY <1>1, AppendNodes
<1>3. TasksOf(r)' = [i \in 1..(Len(q) + 1) |-> task[r[i]]]
  BY <1>2 DEF TasksOf
<1>4. TasksOf(q) \in Seq(Tasks) /\ Len(TasksOf(q)) = Len(q)
  BY <1>1 DEF TasksOf, ListInv
<1>5. Append(TasksOf(q), task[n]) = [i \in 1..(Len(q) + 1) |-> task[r[i]]]
  BY <1>1, <1>2, <1>4 DEF TasksOf
<1> QED  BY <1>3, <1>5

\* The compare-and-swap that links a node appends its task.
LEMMA LinkPuts ==
  ASSUME OneAtATime, NEW q, QInv(q), NEW p \in Producers, Link(p)
  PROVE  \E k \in Tasks : Content' = Append(Content, k) /\ UNCHANGED (received \o Underway)
<1>1. PICK n : n = prod[p].new
  OBVIOUS
<1>2. PICK r : r = Append(q, n)
  OBVIOUS
<1>3. QInv(r)'
  BY <1>1, <1>2, LinkInv
<1>4. /\ ProducerOK(q, p) /\ Last(q) \in alive /\ alive \subseteq Nodes /\ Len(q) \in Nat
      /\ q \in Seq(Nodes)
  BY ProducerTypes DEF TypeOK, ListInv
<1>5. n \in Nodes /\ task[n] \in Tasks
  BY <1>1, <1>4 DEF Link, ProducerAt, ProducerOK, Unlinked
<1>6. UNCHANGED <<task, cons, received>>
  BY <1>4 DEF Link, ProducerAt, ProducerOK, history, Crash, Safe
<1>7. Underway' = Underway
  BY <1>6, SameUnderway
<1>8. Content = TasksOf(q) /\ Content' = TasksOf(r)'
  BY <1>3, ContentIs, ContentIsNext
<1>9. TasksOf(r)' = Append(TasksOf(q), task[n])
  BY <1>2, <1>5, <1>6, AppendTask DEF QInv
<1> QED  BY <1>5, <1>6, <1>7, <1>8, <1>9

\* The compare-and-swap of head_ takes the first task.
LEMMA UnlinkTakes ==
  ASSUME OneAtATime, NEW q, QInv(q), NEW c \in Consumers, Unlink(c)
  PROVE  /\ Content # <<>> /\ Content' = Tail(Content)
         /\ (received \o Underway)' = Append(received \o Underway, Head(Content))
<1>1. PICK r : r = Tail(q)
  OBVIOUS
<1>2. QInv(r)' /\ Len(q) >= 1 /\ head' = q[1] /\ cons[c].at = "unlink"
  BY <1>1, UnlinkInv
<1>3. /\ q \in Seq(Nodes) /\ Len(q) \in Nat /\ received \in Seq(Tasks)
      /\ \A i \in 1..Len(q) : task[q[i]] \in Tasks
      /\ cons \in [Consumers -> ConsumerType]
  BY DEF QInv, ListInv, StateInv, TypeOK, ThreadTypes
<1>4. UNCHANGED <<task, received>> /\ cons' = [cons EXCEPT ![c].at = "take"] /\ cons[c].next = q[1]
  <2>1. cons[c].head = head /\ cons[c].next = q[1]
    BY <1>2 DEF QInv, ConsumerInv, ConsumerOK, Unlink, ConsumerAt
  <2> QED  BY <2>1 DEF Unlink, CGoto, heap, history, OneAtATime
<1>5. cons'[c].at = "take" /\ cons'[c].next = q[1]
  BY <1>3, <1>4 DEF ConsumerType
<1>6. Underway = <<>> /\ Underway' = <<task[q[1]]>>
  <2>1. Underway = <<>>
    BY <1>2, UnderwayIs
  <2>2. Underway' = <<task'[cons'[c].next]>>
    BY <1>5, UnderwayIsNext
  <2> QED  BY <1>4, <1>5, <2>1, <2>2
<1>7. Content = TasksOf(q) /\ Content' = TasksOf(r)'
  BY <1>2, ContentIs, ContentIsNext
<1>8. /\ Len(r) = Len(q) - 1 /\ \A i \in 1..Len(r) : r[i] = q[i + 1]
  BY <1>1, <1>2, <1>3, TailNodes
<1>9. TasksOf(q) \in Seq(Tasks) /\ Len(TasksOf(q)) = Len(q) /\ TasksOf(q)[1] = task[q[1]]
  BY <1>2, <1>3 DEF TasksOf
<1>10. TasksOf(r)' = [i \in 1..(Len(q) - 1) |-> task[q[i + 1]]]
  BY <1>3, <1>4, <1>8 DEF TasksOf
<1>11. Tail(TasksOf(q)) = [i \in 1..(Len(q) - 1) |-> task[q[i + 1]]]
  BY <1>2, <1>3, <1>9 DEF TasksOf
<1>12. TasksOf(q) # <<>> /\ Head(TasksOf(q)) = task[q[1]] /\ task[q[1]] \in Tasks
  BY <1>2, <1>3, <1>9
<1>13. received \o <<>> = received /\ received \o <<task[q[1]]>> = Append(received, task[q[1]])
  BY <1>3, <1>12
<1> QED  BY <1>4, <1>6, <1>7, <1>10, <1>11, <1>12, <1>13

\* The steps of the worker that unlink nothing.
LEMMA ConsumerView ==
  ASSUME OneAtATime, NEW q, QInv(q), NEW c \in Consumers, ConsumerStep(c), ~Unlink(c)
  PROVE  UNCHANGED <<Content, received \o Underway>>
<1>0. /\ cons \in [Consumers -> ConsumerType] /\ cons[c] \in ConsumerType /\ ConsumerOK(q, c)
      /\ received \in Seq(Tasks) /\ task \in [Nodes -> Tasks \cup {NoTask}] /\ head \in Nodes
  BY ConsumerTypes DEF TypeOK
<1>1. CASE Dequeue(c) \/ DequeueLoadTail(c) \/ DequeueLoadNext(c) \/ RecheckHead(c) \/ HelpDequeue(c)
  <2>1. QInv(q)'
    BY <1>1, ConsumerLoadsInv, HelpDequeueInv
  <2>2. /\ UNCHANGED <<task, received>> /\ cons[c].at \notin {"take", "uncount", "delete"}
    BY <1>1 DEF Dequeue, DequeueLoadTail, DequeueLoadNext, RecheckHead, HelpDequeue, ConsumerAt,
       Crash, heap, history
  <2>3. cons'[c].at \notin {"take", "uncount", "delete"}
    <3>1. CASE Dequeue(c)
      BY <1>0, <3>1 DEF Dequeue, ConsumerType
    <3>2. CASE DequeueLoadTail(c)
      BY <1>0, <3>2 DEF DequeueLoadTail, ConsumerType
    <3>3. CASE DequeueLoadNext(c)
      BY <1>0, <2>2, <3>3 DEF DequeueLoadNext, ConsumerType, Crash
    <3>4. CASE RecheckHead(c)
      BY <1>0, <2>2, <3>4 DEF RecheckHead, ConsumerType, IdleConsumer
    <3>5. CASE HelpDequeue(c)
      BY <1>0, <3>5 DEF HelpDequeue, IdleConsumer
    <3> QED  BY <1>1, <3>1, <3>2, <3>3, <3>4, <3>5
  <2>4. Underway = <<>> /\ Underway' = <<>>
    BY <2>2, <2>3, UnderwayIs, UnderwayIsNext
  <2> QED  BY <2>1, <2>2, <2>4, SameView
<1>2. CASE TakeTask(c)
  <2>1. QInv(q)'
    BY <1>2, TakeTaskInv
  <2>2. cons[c].at = "take" /\ cons[c].next = head /\ head \in alive
    BY <1>0, <1>2, ConsumerTypes DEF TakeTask, ConsumerAt, ConsumerOK
  <2>3. /\ cons' = [cons EXCEPT ![c].at = "uncount", ![c].task = task[head]]
        /\ task' = [task EXCEPT ![head] = NoTask] /\ received' = received
    BY <1>2, <2>2 DEF TakeTask, history
  <2>4. cons'[c].at = "uncount" /\ cons'[c].task = task[head]
    BY <1>0, <2>3 DEF ConsumerType
  <2>5. Underway = <<task[head]>>
    BY <2>2, UnderwayIs
  <2>6. Underway' = <<task[head]>>
    BY <2>4, UnderwayIsNext
  <2>7. \A i \in 1..Len(q) : q[i] # head /\ q[i] \in Nodes
    <3>1. /\ q \in Seq(Nodes) /\ Len(q) \in Nat
          /\ \A i, j \in 0..Len(q) : Node(q, i) = Node(q, j) => i = j
      BY DEF QInv, ListInv
    <3>2. 0 \in 0..Len(q) /\ Node(q, 0) = head
      BY <3>1 DEF Node
    <3>3. \A i \in 1..Len(q) : i \in 0..Len(q) /\ i # 0 /\ Node(q, i) = q[i] /\ q[i] \in Nodes
      BY <3>1 DEF Node
    <3> QED  BY <3>1, <3>2, <3>3
  <2>8. \A i \in 1..Len(q) : task'[q[i]] = task[q[i]]
    BY <1>0, <2>3, <2>7
  <2> QED  BY <2>1, <2>3, <2>5, <2>6, <2>8, SameView
<1>3. CASE Uncount(c)
  <2>1. QInv(q)'
    BY <1>3, UncountInv
  <2>2. /\ cons[c].at = "uncount" /\ cons' = [cons EXCEPT ![c].at = "delete"]
        /\ UNCHANGED <<task, received>>
    BY <1>3 DEF Uncount, ConsumerAt, CGoto, heap, history
  <2>3. cons'[c].at = "delete" /\ cons'[c].task = cons[c].task
    BY <1>0, <2>2 DEF ConsumerType
  <2>4. Underway = <<cons[c].task>> /\ Underway' = <<cons'[c].task>>
    BY <2>2, <2>3, UnderwayIs, UnderwayIsNext
  <2> QED  BY <2>1, <2>2, <2>3, <2>4, SameView
<1>4. CASE DeleteNode(c)
  <2>1. QInv(q)' /\ received' = Append(received, cons[c].task)
    BY <1>4, DeleteNodeInv
  <2>2. cons[c].at = "delete" /\ cons[c].task \in Tasks /\ cons[c].head \in alive
    BY <1>0, <1>4 DEF DeleteNode, ConsumerAt, ConsumerOK, Unlinked
  <2>3. cons' = [cons EXCEPT ![c] = IdleConsumer] /\ task' = task
    BY <1>4, <2>2 DEF DeleteNode
  <2>4. cons'[c].at = "idle"
    BY <1>0, <2>3 DEF IdleConsumer
  <2>5. Underway = <<cons[c].task>> /\ Underway' = <<>>
    BY <2>2, <2>4, UnderwayIs, UnderwayIsNext
  <2>6. Append(received, cons[c].task) \o <<>> = received \o <<cons[c].task>>
    BY <1>0, <2>2
  <2> QED  BY <2>1, <2>3, <2>5, <2>6, SameView
<1> QED  BY <1>1, <1>2, <1>3, <1>4 DEF ConsumerStep

\* With one thread at each end the linked list is a queue: every step of the loads
\* and compare-and-swaps is a step of TaskQueue, or none.
THEOREM QueueIsFifo == ASSUME OneAtATime PROVE Spec => QueueSpec
<1>1. Init => Queue!Init
  <2> SUFFICES ASSUME Init PROVE Content = <<>> /\ received \o Underway = <<>>
    BY DEF Queue!Init
  <2>1. Content = TasksOf(<<>>)
    BY InitQInv, ContentIs
  <2>2. TasksOf(<<>>) = <<>>
    BY DEF TasksOf
  <2>3. Underway = <<>>
    BY DEF Init, Underway, IdleConsumer
  <2> QED  BY <2>1, <2>2, <2>3 DEF Init
<1>2. IInv /\ [Next]_vars => [Queue!Next]_(Queue!vars)
  <2> SUFFICES ASSUME NEW q, QInv(q), [Next]_vars
               PROVE  [Queue!Next]_(Queue!vars)
    BY DEF IInv
  <2>1. ASSUME NEW p \in Producers,
               ProducerStep(p) \/ \E k \in Tasks, n \in Nodes : Enqueue(p, k, n)
        PROVE  [Queue!Next]_(Queue!vars)
    <3>1. CASE Link(p)
      BY <3>1, LinkPuts DEF Queue!Next, Queue!Put
    <3>2. CASE ~Link(p)
      BY <2>1, <3>2, ProducerView DEF Queue!vars
    <3> QED  BY <3>1, <3>2
  <2>2. ASSUME NEW c \in Consumers, ConsumerStep(c)
        PROVE  [Queue!Next]_(Queue!vars)
    <3>1. CASE Unlink(c)
      BY <3>1, UnlinkTakes DEF Queue!Next, Queue!Take
    <3>2. CASE ~Unlink(c)
      BY <2>2, <3>2, ConsumerView DEF Queue!vars
    <3> QED  BY <3>1, <3>2
  <2>3. CASE UNCHANGED vars
    <3>1. QInv(q)'
      BY <2>3, UnchangedQInv
    <3>2. UNCHANGED <<task, cons, received>>
      BY <2>3 DEF vars, heap, history
    <3>3. Underway' = Underway
      BY <3>2, SameUnderway
    <3> QED  BY <3>1, <3>2, <3>3, SameView DEF Queue!vars
  <2> QED  BY <2>1, <2>2, <2>3 DEF Next
<1> QED  BY <1>1, <1>2, QueueInvariant, PTL DEF Spec, QueueSpec, Queue!Spec

(***************************************************************************)
(* Any number of threads inside enqueue and none inside dequeue, with or   *)
(* without spurious failures: enqueue does not need the pool's mutex.  Now *)
(* tail_ may lag by any number of nodes, but what a thread has loaded from *)
(* it stays in the list, and a next field that is set is never set again.  *)
(***************************************************************************)
InList(q, n) == \E i \in 0..Len(q) : n = Node(q, i)

\* The producer's node is its own: it is yet to be linked.
Unfinished(p) == prod[p].at \in Early \cup {"help"}

EnqueuerOK(q, p) ==
  LET me == prod[p] IN
  /\ Unfinished(p) => Unlinked(q, me.new) /\ next[me.new] = NoNode /\ task[me.new] \in Tasks
  /\ me.at \in {"loadNext", "recheck", "link", "help", "swing"} => InList(q, me.tail)
  /\ me.at = "recheck" /\ me.next # NoNode => next[me.tail] = me.next
  /\ me.at = "help" => me.next # NoNode /\ next[me.tail] = me.next
  /\ me.at = "swing" => me.new # NoNode /\ next[me.tail] = me.new

EnqueuersInv(q) ==
  /\ \A p \in Producers : EnqueuerOK(q, p)
  /\ \A p, r \in Producers : Unfinished(p) /\ Unfinished(r) /\ prod[p].new = prod[r].new => p = r

CounterInv(q) == /\ IsFiniteSet(Uncounted)
               /\ size = (Len(q) - Cardinality(Uncounted)) % SizeRange

PInv(q) == StateInv /\ ListInv(q) /\ InList(q, tail) /\ EnqueuersInv(q) /\ CounterInv(q)

LEMMA InitPInv == Init => PInv(<<>>)
<1> SUFFICES ASSUME Init PROVE PInv(<<>>)
  OBVIOUS
<1>1. StateInv /\ ListInv(<<>>)
  BY InitQInv DEF QInv
<1>2. Len(<<>>) = 0 /\ Node(<<>>, 0) = head /\ tail = head
  BY DEF Node, Init
<1>3. InList(<<>>, tail)
  BY <1>2 DEF InList
<1>4. EnqueuersInv(<<>>)
  BY DEF EnqueuersInv, EnqueuerOK, Unfinished, Early, Init, IdleProducer
<1>5. CounterInv(<<>>)
  <2>1. Uncounted = {}
    BY DEF Init, Uncounted, IdleProducer
  <2>2. 0 % SizeRange = 0
    BY QueueAssumption
  <2> QED  BY <1>2, <2>1, <2>2, FS_EmptySet DEF CounterInv, Init
<1> QED  BY <1>1, <1>3, <1>4, <1>5 DEF PInv

\* Whoever follows a next field that is set stays in the list; whoever finds
\* one that is null is at its end.
LEMMA Onwards ==
  ASSUME NEW q, ListInv(q), NEW n, InList(q, n)
  PROVE  /\ n \in alive
         /\ next[n] # NoNode => InList(q, next[n])
         /\ next[n] = NoNode => n = Last(q)
<1>1. PICK i \in 0..Len(q) : n = Node(q, i)
  BY DEF InList
<1>2. CASE i = Len(q)
  BY <1>1, <1>2, EndOfList DEF Last
<1>3. CASE i # Len(q)
  <2>1. next[n] \in Nodes /\ i + 1 \in 0..Len(q) /\ next[n] = Node(q, i + 1)
    BY <1>1, <1>3, EndOfList
  <2>2. next[n] # NoNode
    BY <2>1, QueueAssumption
  <2> QED  BY <1>1, <2>1, <2>2 DEF InList, ListInv
<1> QED  BY <1>2, <1>3

LEMMA EnqueuerTypes ==
  ASSUME NEW q, PInv(q), NEW p \in Producers
  PROVE  /\ prod \in [Producers -> ProducerType] /\ prod[p] \in ProducerType
         /\ EnqueuerOK(q, p) /\ ListInv(q) /\ StateInv /\ TypeOK /\ NoNode \notin Nodes
         /\ InList(q, tail) /\ CounterInv(q)
BY QueueAssumption DEF PInv, EnqueuersInv, StateInv, ThreadTypes

\* A step of one producer that writes neither nodes nor counter.
LEMMA OwnStep ==
  ASSUME NEW q, PInv(q), NEW p \in Producers,
         UNCHANGED <<heap, head, size, cons, history, fault>>,
         prod' \in [Producers -> ProducerType],
         \A r \in Producers : r # p => prod'[r] = prod[r],
         tail' \in Nodes, InList(q, tail'),
         EnqueuerOK(q, p)', Unfinished(p)' => Unfinished(p) /\ prod'[p].new = prod[p].new,
         prod'[p].at \in {"swing", "count"} <=> prod[p].at \in {"swing", "count"}
  PROVE  PInv(q)'
<1>0. ListInv(q) /\ TypeOK
  BY DEF PInv, StateInv
<1>1. StateInv'
  BY DEF PInv, StateInv, TypeOK, ThreadTypes, heap, history
<1>2. ListInv(q)'
  BY <1>0, SameList DEF ListInv, heap
<1>3. \A i : Node(q, i)' = Node(q, i)
  BY DEF Node
<1>4. InList(q, tail)'
  BY <1>3 DEF InList
<1>5. ASSUME NEW r \in Producers, r # p PROVE EnqueuerOK(q, r)' /\ (Unfinished(r)' <=> Unfinished(r))
  BY <1>3, <1>5 DEF PInv, EnqueuersInv, EnqueuerOK, Unfinished, Unlinked, InList, heap
<1>6. EnqueuersInv(q)'
  <2>1. ASSUME NEW r \in Producers PROVE EnqueuerOK(q, r)'
    BY <1>5
  <2>2. ASSUME NEW r \in Producers, Unfinished(r)'
        PROVE  Unfinished(r) /\ prod'[r].new = prod[r].new
    BY <1>5, <2>2
  <2> QED  BY <2>1, <2>2 DEF PInv, EnqueuersInv
<1>7. Uncounted' = Uncounted
  BY DEF Uncounted
<1> QED  BY <1>1, <1>2, <1>4, <1>6, <1>7 DEF PInv, CounterInv

LEMMA EnqueuePInv ==
  ASSUME NEW q, PInv(q), NEW p \in Producers, NEW k \in Tasks, NEW n \in Nodes, Enqueue(p, k, n)
  PROVE  PInv(q)'
<1>0. /\ prod \in [Producers -> ProducerType] /\ prod[p] \in ProducerType
      /\ ListInv(q) /\ StateInv /\ TypeOK /\ InList(q, tail)
  BY EnqueuerTypes
<1>1. /\ prod[p].at = "idle" /\ n \notin alive /\ alive' = alive \cup {n}
      /\ next' = [next EXCEPT ![n] = NoNode] /\ task' = [task EXCEPT ![n] = k]
      /\ prod' = [prod EXCEPT ![p].at = "loadTail", ![p].new = n]
      /\ submitted' = submitted \cup {k}
      /\ UNCHANGED <<head, tail, size, cons, received, fault>>
  BY DEF Enqueue, ProducerAt, Safe
<1>2. /\ prod' \in [Producers -> ProducerType]
      /\ prod'[p].at = "loadTail" /\ prod'[p].new = n
      /\ \A r \in Producers : r # p => prod'[r] = prod[r]
  BY <1>0, <1>1 DEF ProducerType
<1>3. /\ next'[n] = NoNode /\ task'[n] = k
      /\ \A m \in alive : m # n /\ next'[m] = next[m] /\ task'[m] = task[m]
  BY <1>0, <1>1 DEF TypeOK
<1>4. \A i \in 0..Len(q) : Node(q, i) \in alive
  BY <1>0 DEF ListInv
<1>5. \A i : Node(q, i)' = Node(q, i)
  BY <1>1 DEF Node
<1>6. ListInv(q)'
  <2>1. \A i \in 1..Len(q) : q[i] \in alive /\ task[q[i]] \in Tasks
    BY <1>0 DEF ListInv, Node
  <2> QED  BY <1>0, <1>1, <1>3, <1>4, <2>1, SameList
<1>7. ASSUME NEW r \in Producers, r # p
      PROVE  EnqueuerOK(q, r)' /\ (Unfinished(r)' <=> Unfinished(r))
             /\ (Unfinished(r) => prod[r].new # n)
  <2>1. EnqueuerOK(q, r) /\ prod'[r] = prod[r]
    BY <1>2, <1>7 DEF PInv, EnqueuersInv
  <2>2. \A m : InList(q, m) => m \in alive /\ InList(q, m)'
    BY <1>4, <1>5 DEF InList
  <2>3. \A m : Unlinked(q, m) => m \in alive /\ Unlinked(q, m)'
    BY <1>1, <1>5 DEF Unlinked
  <2> QED  BY <1>1, <1>3, <2>1, <2>2, <2>3 DEF EnqueuerOK, Unfinished
<1>8. EnqueuersInv(q)'
  <2>1. Unlinked(q, n)'
    BY <1>1, <1>4, <1>5 DEF Unlinked
  <2>2. EnqueuerOK(q, p)'
    BY <1>2, <1>3, <2>1 DEF EnqueuerOK, Unfinished
  <2> QED  BY <1>2, <1>7, <2>2 DEF PInv, EnqueuersInv
<1>9. StateInv'
  <2>1. IsFiniteSet(alive')
    BY <1>0, <1>1, FS_AddElement DEF StateInv
  <2> QED  BY <1>0, <1>1, <1>2, <2>1 DEF StateInv, TypeOK, ThreadTypes
<1>10. Uncounted' = Uncounted
  BY <1>1, <1>2 DEF Uncounted
<1>11. InList(q, tail)'
  BY <1>0, <1>1, <1>5 DEF InList
<1> QED  BY <1>1, <1>6, <1>8, <1>9, <1>10, <1>11 DEF PInv, CounterInv

\* Loads, comparisons and every compare-and-swap of tail_.
LEMMA OwnSteps ==
  ASSUME NEW q, PInv(q), NEW p \in Producers,
         LoadTail(p) \/ LoadNext(p) \/ RecheckTail(p) \/ HelpEnqueue(p) \/ Swing(p)
  PROVE  PInv(q)' /\ UNCHANGED <<task, cons, received>>
<1>0. /\ prod \in [Producers -> ProducerType] /\ prod[p] \in ProducerType
      /\ EnqueuerOK(q, p) /\ ListInv(q) /\ TypeOK /\ NoNode \notin Nodes /\ InList(q, tail)
      /\ tail \in Nodes
  BY EnqueuerTypes DEF TypeOK
<1>1. /\ \A i : Node(q, i)' = Node(q, i)
      /\ \A m : InList(q, m) => m \in alive /\ m \in Nodes
  BY <1>0, Onwards DEF Node, TypeOK, LoadTail, LoadNext, RecheckTail, HelpEnqueue, Swing, Crash
<1>2. CASE LoadTail(p)
  <2>1. /\ prod[p].at = "loadTail" /\ prod' = [prod EXCEPT ![p].at = "loadNext", ![p].tail = tail]
        /\ UNCHANGED <<heap, head, tail, size, cons, history, fault>>
    BY <1>2 DEF LoadTail, ProducerAt, Safe
  <2>2. /\ prod' \in [Producers -> ProducerType] /\ prod'[p].at = "loadNext"
        /\ prod'[p].tail = tail /\ prod'[p].new = prod[p].new
        /\ \A r \in Producers : r # p => prod'[r] = prod[r]
    BY <1>0, <2>1 DEF ProducerType
  <2>3. EnqueuerOK(q, p)'
    BY <1>0, <1>1, <2>1, <2>2 DEF EnqueuerOK, Unfinished, Early, Unlinked, InList, heap
  <2> QED  BY <1>0, <2>1, <2>2, <2>3, OwnStep DEF Unfinished, Early, heap, history
<1>3. CASE LoadNext(p)
  <2>1. prod[p].at = "loadNext" /\ InList(q, prod[p].tail) /\ prod[p].tail \in alive
    BY <1>0, <1>1, <1>3 DEF LoadNext, ProducerAt, EnqueuerOK
  <2>2. /\ prod' = [prod EXCEPT ![p].at = "recheck", ![p].next = next[prod[p].tail]]
        /\ UNCHANGED <<heap, head, tail, size, cons, history, fault>>
    BY <1>3, <2>1 DEF LoadNext, Safe
  <2>3. next[prod[p].tail] \in Nodes \cup {NoNode}
    BY <1>0, <2>1 DEF TypeOK
  <2>4. /\ prod' \in [Producers -> ProducerType] /\ prod'[p].at = "recheck"
        /\ prod'[p].tail = prod[p].tail /\ prod'[p].new = prod[p].new
        /\ prod'[p].next = next[prod[p].tail]
        /\ \A r \in Producers : r # p => prod'[r] = prod[r]
    BY <1>0, <2>2, <2>3 DEF ProducerType
  <2>5. EnqueuerOK(q, p)'
    BY <1>0, <1>1, <2>1, <2>2, <2>4 DEF EnqueuerOK, Unfinished, Early, Unlinked, InList, heap
  <2> QED  BY <1>0, <2>1, <2>2, <2>4, <2>5, OwnStep DEF Unfinished, Early, heap, history
<1>4. CASE RecheckTail(p)
  <2>1. /\ prod[p].at = "recheck"
        /\ prod' = [prod EXCEPT ![p].at = IF prod[p].tail # tail THEN "loadTail"
                                          ELSE IF prod[p].next = NoNode THEN "link" ELSE "help"]
        /\ UNCHANGED <<heap, head, tail, size, cons, history, fault>>
    BY <1>4 DEF RecheckTail, ProducerAt, PGoto, Safe
  <2>2. /\ prod' \in [Producers -> ProducerType] /\ prod'[p].at \in {"loadTail", "link", "help"}
        /\ prod'[p].at = "help" => prod[p].next # NoNode
        /\ prod'[p].tail = prod[p].tail /\ prod'[p].new = prod[p].new
        /\ prod'[p].next = prod[p].next
        /\ \A r \in Producers : r # p => prod'[r] = prod[r]
    BY <1>0, <2>1 DEF ProducerType
  <2>3. EnqueuerOK(q, p)'
    BY <1>0, <1>1, <2>1, <2>2 DEF EnqueuerOK, Unfinished, Early, Unlinked, InList, heap
  <2> QED  BY <1>0, <2>1, <2>2, <2>3, OwnStep DEF Unfinished, Early, heap, history
<1>5. CASE HelpEnqueue(p)
  <2>1. /\ prod[p].at = "help" /\ prod' = [prod EXCEPT ![p].at = "loadTail"]
        /\ tail' = prod[p].next \/ tail' = tail
        /\ UNCHANGED <<heap, head, size, cons, history, fault>>
    BY <1>5 DEF HelpEnqueue, ProducerAt, PGoto, SwingTail, Safe
  <2>2. InList(q, prod[p].next)
    BY <1>0, <2>1, Onwards DEF EnqueuerOK
  <2>3. tail' \in Nodes /\ InList(q, tail')
    BY <1>0, <1>1, <2>1, <2>2
  <2>4. /\ prod' \in [Producers -> ProducerType] /\ prod'[p].at = "loadTail"
        /\ prod'[p].new = prod[p].new /\ \A r \in Producers : r # p => prod'[r] = prod[r]
    BY <1>0, <2>1 DEF ProducerType
  <2>5. EnqueuerOK(q, p)'
    BY <1>0, <1>1, <2>1, <2>4 DEF EnqueuerOK, Unfinished, Early, Unlinked, heap
  <2> QED  BY <2>1, <2>3, <2>4, <2>5, OwnStep DEF Unfinished, Early, heap, history
<1>6. CASE Swing(p)
  <2>1. /\ prod[p].at = "swing" /\ prod' = [prod EXCEPT ![p].at = "count"]
        /\ tail' = prod[p].new \/ tail' = tail
        /\ UNCHANGED <<heap, head, size, cons, history, fault>>
    BY <1>6 DEF Swing, ProducerAt, PGoto, SwingTail, Safe
  <2>2. InList(q, prod[p].new)
    BY <1>0, <2>1, Onwards DEF EnqueuerOK
  <2>3. tail' \in Nodes /\ InList(q, tail')
    BY <1>0, <1>1, <2>1, <2>2
  <2>4. /\ prod' \in [Producers -> ProducerType] /\ prod'[p].at = "count"
        /\ \A r \in Producers : r # p => prod'[r] = prod[r]
    BY <1>0, <2>1 DEF ProducerType
  <2>5. EnqueuerOK(q, p)'
    BY <2>4 DEF EnqueuerOK, Unfinished, Early
  <2> QED  BY <2>1, <2>3, <2>4, <2>5, OwnStep DEF Unfinished, Early, heap, history
<1> QED  BY <1>2, <1>3, <1>4, <1>5, <1>6

\* The compare-and-swap of next: it fails, or what it links comes last.
LEMMA LinkPInv ==
  ASSUME NEW q, PInv(q), NEW p \in Producers, Link(p), NEW n, n = prod[p].new
  PROVE  /\ UNCHANGED <<task, cons, received>> /\ n \in Nodes /\ task[n] \in Tasks
         /\ PInv(q)' \/ PInv(Append(q, n))'
<1>0. /\ prod \in [Producers -> ProducerType] /\ prod[p] \in ProducerType
      /\ EnqueuerOK(q, p) /\ ListInv(q) /\ StateInv /\ TypeOK /\ NoNode \notin Nodes
      /\ InList(q, tail) /\ Len(q) \in Nat
  BY EnqueuerTypes DEF ListInv
<1>1. /\ prod[p].at = "link" /\ InList(q, prod[p].tail) /\ prod[p].tail \in alive
      /\ Unlinked(q, n) /\ n \in Nodes /\ next[n] = NoNode /\ task[n] \in Tasks
  BY <1>0, Onwards DEF Link, ProducerAt, EnqueuerOK, Unfinished, Early, Unlinked, TypeOK
<1>2. /\ UNCHANGED <<alive, task, head, tail, size, cons, history, fault>>
      /\ \/ /\ next[prod[p].tail] = NoNode /\ next' = [next EXCEPT ![prod[p].tail] = n]
            /\ prod' = [prod EXCEPT ![p].at = "swing"]
         \/ next' = next /\ prod' = [prod EXCEPT ![p].at = "loadTail"]
  BY <1>1 DEF Link, PGoto, Safe
<1>3. CASE next' = next /\ prod' = [prod EXCEPT ![p].at = "loadTail"]
  <2>1. /\ prod' \in [Producers -> ProducerType] /\ prod'[p].at = "loadTail"
        /\ prod'[p].new = n /\ \A r \in Producers : r # p => prod'[r] = prod[r]
    BY <1>0, <1>3 DEF ProducerType
  <2>2. EnqueuerOK(q, p)'
    BY <1>1, <1>2, <1>3, <2>1 DEF EnqueuerOK, Unfinished, Early, Unlinked, Node
  <2>3. PInv(q)'
    BY <1>0, <1>1, <1>2, <1>3, <2>1, <2>2, OwnStep DEF Unfinished, Early, heap, history, TypeOK
  <2> QED  BY <1>1, <1>2, <2>3 DEF history
<1>4. CASE /\ next[prod[p].tail] = NoNode /\ next' = [next EXCEPT ![prod[p].tail] = n]
           /\ prod' = [prod EXCEPT ![p].at = "swing"]
  <2>0. PICK r : r = Append(q, n)
    OBVIOUS
  <2>1. prod[p].tail = Last(q)
    BY <1>0, <1>1, <1>4, Onwards
  <2>2. /\ ListInv(r)' /\ \A i \in 0..Len(q) : Node(r, i)' = Node(q, i)
        /\ Len(r) = Len(q) + 1 /\ Node(r, Len(r))' = n
    <3>1. StateInv /\ ListInv(q) /\ Unlinked(q, n) /\ next[n] = NoNode /\ task[n] \in Tasks
      BY <1>0, <1>1
    <3>2. next' = [next EXCEPT ![Last(q)] = n] /\ UNCHANGED <<alive, task, head>>
      BY <1>2, <1>4, <2>1
    <3>3. ListInv(r)'
      BY <2>0, <3>1, <3>2, LinkAppends
    <3>4. /\ Len(r) = Len(q) + 1 /\ r[Len(q) + 1] = n
          /\ \A i \in 1..Len(q) : r[i] = q[i]
      BY <1>0, <1>1, <2>0, AppendNodes DEF ListInv
    <3> QED  BY <1>0, <1>2, <3>3, <3>4 DEF Node
  <2>3. /\ prod' \in [Producers -> ProducerType]
        /\ prod'[p].at = "swing" /\ prod'[p].new = n /\ prod'[p].tail = Last(q)
        /\ \A x \in Producers : x # p => prod'[x] = prod[x]
    BY <1>0, <1>4, <2>1 DEF ProducerType
  <2>4. /\ next'[Last(q)] = n /\ next[Last(q)] = NoNode
        /\ \A m \in Nodes : m # Last(q) => next'[m] = next[m]
    BY <1>0, <1>1, <1>4, <2>1 DEF TypeOK
  <2>5. \A m : InList(q, m) => m \in Nodes /\ InList(r, m)'
    BY <1>0, <2>2, Onwards DEF InList, TypeOK
  <2>6. \A m : Unlinked(q, m) /\ m # n => Unlinked(r, m)'
    BY <1>0, <1>2, <2>2 DEF Unlinked
  <2>7. InList(q, Last(q))
    BY <1>1, <2>1
  <2>8. ASSUME NEW x \in Producers, x # p PROVE EnqueuerOK(r, x)'
    <3>1. EnqueuerOK(q, x) /\ prod'[x] = prod[x]
      BY <2>3, <2>8 DEF PInv, EnqueuersInv
    <3>2. Unfinished(x) => prod[x].new # n /\ prod[x].new # Last(q) /\ prod[x].new \in Nodes
      <4>1. Unfinished(x) => prod[x].new # n
        BY <1>1, <2>8 DEF PInv, EnqueuersInv, Unfinished, Early
      <4>2. Unfinished(x) => prod[x].new # Last(q) /\ prod[x].new \in Nodes
        BY <1>0, <2>7, <3>1 DEF EnqueuerOK, Unlinked, InList, TypeOK
      <4> QED  BY <4>1, <4>2
    <3>3. Unfinished(x) => /\ Unlinked(r, prod[x].new)' /\ next'[prod[x].new] = NoNode
                           /\ task'[prod[x].new] \in Tasks
      BY <1>2, <2>4, <2>6, <3>1, <3>2 DEF EnqueuerOK
    <3>4. \A m : InList(q, m) /\ next[m] # NoNode => next'[m] = next[m]
      BY <2>4, <2>5
    <3> QED  BY <2>5, <3>1, <3>3, <3>4 DEF EnqueuerOK, Unfinished
  <2>9. EnqueuersInv(r)'
    <3>1. EnqueuerOK(r, p)'
      BY <1>0, <1>1, <2>3, <2>4, <2>5, <2>7 DEF EnqueuerOK, Unfinished, Early
    <3>2. ASSUME NEW x \in Producers, Unfinished(x)'
          PROVE  Unfinished(x) /\ prod'[x].new = prod[x].new
      BY <2>3, <3>2 DEF Unfinished, Early
    <3> QED  BY <2>8, <3>1, <3>2 DEF PInv, EnqueuersInv
  <2>10. StateInv'
    BY <1>0, <1>1, <1>2, <1>4, <2>3 DEF StateInv, TypeOK, ThreadTypes, history
  <2>11. CounterInv(r)'
    <3>1. Uncounted' = Uncounted \cup {p} /\ p \notin Uncounted
      BY <1>1, <2>3 DEF Uncounted
    <3>2. IsFiniteSet(Uncounted)
      BY DEF PInv, CounterInv
    <3>3. IsFiniteSet(Uncounted') /\ Cardinality(Uncounted') = Cardinality(Uncounted) + 1
      BY <3>1, <3>2, FS_AddElement
    <3>4. Cardinality(Uncounted) \in Nat
      BY <3>2, FS_CardinalityType
    <3>5. Len(r) - Cardinality(Uncounted') = Len(q) - Cardinality(Uncounted)
      BY <1>0, <2>2, <3>3, <3>4
    <3> QED  BY <1>2, <3>3, <3>5 DEF PInv, CounterInv
  <2>12. PInv(r)'
    BY <1>0, <1>2, <2>2, <2>5, <2>9, <2>10, <2>11 DEF PInv
  <2> QED  BY <1>1, <1>2, <2>0, <2>12 DEF history
<1> QED  BY <1>2, <1>3, <1>4

LEMMA CountPInv ==
  ASSUME NEW q, PInv(q), NEW p \in Producers, Count(p)
  PROVE  PInv(q)' /\ UNCHANGED <<task, cons, received>>
<1>0. /\ prod \in [Producers -> ProducerType] /\ prod[p] \in ProducerType
      /\ ListInv(q) /\ StateInv /\ TypeOK /\ CounterInv(q) /\ InList(q, tail) /\ Len(q) \in Nat
  BY EnqueuerTypes DEF ListInv
<1>1. /\ prod[p].at = "count" /\ size' = (size + 1) % SizeRange
      /\ prod' = [prod EXCEPT ![p] = IdleProducer]
      /\ UNCHANGED <<heap, head, tail, cons, history, fault>>
  BY DEF Count, ProducerAt, Safe
<1>2. /\ prod' \in [Producers -> ProducerType] /\ prod'[p].at = "idle"
      /\ \A r \in Producers : r # p => prod'[r] = prod[r]
  BY <1>0, <1>1 DEF ProducerType, IdleProducer
<1>3. ListInv(q)' /\ InList(q, tail)' /\ \A i : Node(q, i)' = Node(q, i)
  BY <1>0, <1>1, SameList DEF ListInv, InList, Node, heap
<1>4. EnqueuersInv(q)'
  <2>1. ASSUME NEW r \in Producers, r # p PROVE EnqueuerOK(q, r)'
    BY <1>1, <1>2, <1>3, <2>1 DEF PInv, EnqueuersInv, EnqueuerOK, Unfinished, Unlinked, InList, heap
  <2>2. EnqueuerOK(q, p)' /\ ~Unfinished(p)'
    BY <1>2 DEF EnqueuerOK, Unfinished, Early
  <2> QED  BY <1>2, <2>1, <2>2 DEF PInv, EnqueuersInv, Unfinished
<1>5. CounterInv(q)' /\ size' \in 0..(SizeRange - 1)
  <2>1. Uncounted' = Uncounted \ {p} /\ p \in Uncounted
    BY <1>1, <1>2 DEF Uncounted
  <2>2. IsFiniteSet(Uncounted)
    BY <1>0 DEF CounterInv
  <2>3. IsFiniteSet(Uncounted') /\ Cardinality(Uncounted') = Cardinality(Uncounted) - 1
    BY <2>1, <2>2, FS_RemoveElement
  <2>4. Cardinality(Uncounted) \in Nat
    BY <2>2, FS_CardinalityType
  <2> DEFINE a == Len(q) - Cardinality(Uncounted)
  <2>5. a \in Int /\ Len(q) - Cardinality(Uncounted') = a + 1 /\ size = a % SizeRange
    BY <1>0, <2>3, <2>4 DEF CounterInv
  <2> HIDE DEF a
  <2>6. SizeRange \in Nat /\ SizeRange > 1
    BY QueueAssumption
  <2>7. size' = (a + 1) % SizeRange
    BY <1>1, <2>5, <2>6, CountUp
  <2>8. (a + 1) % SizeRange \in 0..(SizeRange - 1)
    BY <2>5, <2>6
  <2> QED  BY <2>3, <2>5, <2>7, <2>8 DEF CounterInv
<1>6. StateInv'
  BY <1>0, <1>1, <1>2, <1>5 DEF StateInv, TypeOK, ThreadTypes, heap, history
<1> QED  BY <1>1, <1>3, <1>4, <1>5, <1>6 DEF PInv, heap, history

LEMMA UnchangedPInv == ASSUME NEW q, PInv(q), UNCHANGED vars PROVE PInv(q)'
<1>1. ListInv(q)
  BY DEF PInv
<1>2. ListInv(q)'
  BY <1>1, SameList DEF ListInv, vars, heap
<1>3. StateInv'
  BY DEF PInv, StateInv, TypeOK, ThreadTypes, vars, heap, history
<1>4. EnqueuersInv(q)' /\ InList(q, tail)'
  BY DEF PInv, EnqueuersInv, EnqueuerOK, Unfinished, Unlinked, InList, Node, vars, heap
<1>5. CounterInv(q)'
  BY DEF PInv, CounterInv, Uncounted, vars
<1> QED  BY <1>2, <1>3, <1>4, <1>5 DEF PInv

\* Where the steps go: to the same list, or to one with a node more.
LEMMA NextPInv ==
  ASSUME Consumers = {}, NEW q, PInv(q), [Next]_vars
  PROVE  /\ UNCHANGED <<cons, received>>
         /\ \/ PInv(q)' /\ \A i \in 1..Len(q) : task'[q[i]] = task[q[i]]
            \/ \E n \in Nodes : /\ task[n] \in Tasks /\ UNCHANGED task
                                /\ PInv(Append(q, n))'
<1>1. CASE UNCHANGED vars
  BY <1>1, UnchangedPInv DEF vars, heap, history
<1>2. ASSUME NEW p \in Producers, NEW k \in Tasks, NEW n \in Nodes, Enqueue(p, k, n)
      PROVE  /\ PInv(q)' /\ \A i \in 1..Len(q) : task'[q[i]] = task[q[i]]
             /\ UNCHANGED <<cons, received>>
  <2>1. n \notin alive /\ task' = [task EXCEPT ![n] = k] /\ UNCHANGED <<cons, received>>
    BY <1>2 DEF Enqueue
  <2>2. ListInv(q) /\ task \in [Nodes -> Tasks \cup {NoTask}] /\ alive \subseteq Nodes
    BY DEF PInv, StateInv, TypeOK
  <2>3. \A i \in 1..Len(q) : q[i] \in alive
    BY <2>2 DEF ListInv, Node
  <2> QED  BY <1>2, <2>1, <2>2, <2>3, EnqueuePInv
<1>3. ASSUME NEW p \in Producers, ProducerStep(p), ~Link(p)
      PROVE  PInv(q)' /\ UNCHANGED <<task, cons, received>>
  BY <1>3, OwnSteps, CountPInv DEF ProducerStep
<1>4. ASSUME NEW p \in Producers, Link(p)
      PROVE  /\ UNCHANGED <<task, cons, received>>
             /\ PInv(q)' \/ \E n \in Nodes : task[n] \in Tasks /\ PInv(Append(q, n))'
  <2>1. PICK n : n = prod[p].new
    OBVIOUS
  <2> QED  BY <1>4, <2>1, LinkPInv
<1> QED  BY <1>1, <1>2, <1>3, <1>4 DEF Next

PIInv == \E q \in Seq(Nodes) : PInv(q)

LEMMA ProducersInvariant == ASSUME Consumers = {} PROVE Spec => []PIInv
<1>1. Init => PIInv
  <2>1. <<>> \in Seq(Nodes)
    OBVIOUS
  <2> QED  BY <2>1, InitPInv, Zenon DEF PIInv
<1>2. PIInv /\ [Next]_vars => PIInv'
  <2> SUFFICES ASSUME NEW q \in Seq(Nodes), PInv(q), [Next]_vars PROVE PIInv'
    BY DEF PIInv
  <2>1. \A n \in Nodes : Append(q, n) \in Seq(Nodes)
    OBVIOUS
  <2>2. PInv(q)' \/ \E n \in Nodes : PInv(Append(q, n))'
    BY NextPInv
  <2> QED  BY <2>1, <2>2 DEF PIInv
<1> QED  BY <1>1, <1>2, PTL DEF Spec

\* Until the first dequeue, however many threads are inside enqueue, the list is
\* whole, tail_ is in it, nothing freed is touched and the counter is exact.
THEOREM ProducersWellFormed ==
  ASSUME Consumers = {} PROVE Spec => [](WellFormed /\ NoUseAfterFree /\ SizeExact)
<1>1. ASSUME NEW q, PInv(q) PROVE WellFormed /\ NoUseAfterFree /\ SizeExact
  <2>1. /\ Chain = q /\ TypeOK /\ ~fault /\ Len(q) \in Nat /\ q \in Seq(Nodes)
        /\ InList(q, tail) /\ CounterInv(q)
    BY <1>1, ListIs DEF PInv, StateInv, ListInv
  <2>2. tail = head \/ \E i \in DOMAIN q : q[i] = tail
    BY <2>1 DEF InList, Node
  <2>3. WellFormed
    BY <2>1, <2>2 DEF WellFormed, TailInList
  <2>4. Cardinality(StillCounted) = 0
    BY FS_EmptySet DEF StillCounted
  <2>5. IsFiniteSet(Uncounted) /\ Cardinality(Uncounted) \in Nat
    BY <2>1, FS_CardinalityType DEF CounterInv
  <2>6. SizeExact
    BY <2>1, <2>4, <2>5 DEF CounterInv, SizeExact
  <2> QED  BY <2>1, <2>3, <2>6 DEF NoUseAfterFree
<1>2. PIInv => WellFormed /\ NoUseAfterFree /\ SizeExact
  BY <1>1 DEF PIInv
<1> QED  BY <1>2, ProducersInvariant, PTL

\* Tasks are queued in the order of the compare-and-swaps of next: several threads
\* inside enqueue, each with stale loads, neither lose nor reorder one.
THEOREM ProducersFifo == ASSUME Consumers = {} PROVE Spec => QueueSpec
<1>1. Init => Queue!Init
  <2> SUFFICES ASSUME Init PROVE Content = <<>> /\ received \o Underway = <<>>
    BY DEF Queue!Init
  <2>1. Content = TasksOf(<<>>) /\ TasksOf(<<>>) = <<>>
    BY InitQInv, ContentIs DEF TasksOf
  <2> QED  BY <2>1, NobodyUnderway DEF Init
<1>2. PIInv /\ [Next]_vars => [Queue!Next]_(Queue!vars)
  <2> SUFFICES ASSUME NEW q, PInv(q), [Next]_vars PROVE [Queue!Next]_(Queue!vars)
    BY DEF PIInv
  <2>1. Underway = <<>> /\ Underway' = <<>> /\ received' = received
    BY NobodyUnderway, NobodyUnderwayNext, NextPInv
  <2>2. Content = TasksOf(q) /\ ListInv(q)
    BY ContentOfList DEF PInv
  <2>3. CASE PInv(q)' /\ \A i \in 1..Len(q) : task'[q[i]] = task[q[i]]
    <3>1. Content' = TasksOf(q)'
      BY <2>3, ContentOfListNext DEF PInv
    <3>2. TasksOf(q)' = TasksOf(q)
      BY <2>3 DEF TasksOf
    <3> QED  BY <2>1, <2>2, <3>1, <3>2 DEF Queue!vars
  <2>4. ASSUME NEW n \in Nodes, task[n] \in Tasks, task' = task, PInv(Append(q, n))'
        PROVE  \E k \in Tasks : Content' = Append(Content, k)
    <3>1. PICK r : r = Append(q, n)
      OBVIOUS
    <3>2. Content' = TasksOf(r)'
      BY <2>4, <3>1, ContentOfListNext DEF PInv
    <3>3. TasksOf(r)' = Append(TasksOf(q), task[n])
      BY <2>2, <2>4, <3>1, AppendTask
    <3> QED  BY <2>2, <2>4, <3>2, <3>3
  <2>5. \/ PInv(q)' /\ \A i \in 1..Len(q) : task'[q[i]] = task[q[i]]
        \/ \E n \in Nodes : task[n] \in Tasks /\ task' = task /\ PInv(Append(q, n))'
    BY NextPInv
  <2>6. CASE \E n \in Nodes : task[n] \in Tasks /\ task' = task /\ PInv(Append(q, n))'
    <3>1. \E k \in Tasks : Content' = Append(Content, k)
      BY <2>4, <2>6
    <3> QED  BY <2>1, <3>1 DEF Queue!Next, Queue!Put
  <2> QED  BY <2>3, <2>5, <2>6
<1> QED  BY <1>1, <1>2, ProducersInvariant, PTL DEF Spec, QueueSpec, Queue!Spec
================================================================================
