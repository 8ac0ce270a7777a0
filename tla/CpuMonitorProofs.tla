--------------------------- MODULE CpuMonitorProofs ---------------------------
(***************************************************************************)
(* The monitor's safety properties, for all tenants and usages and with    *)
(* threads that fail to start.                                             *)
(***************************************************************************)
EXTENDS CpuMonitor, TLAPS

\* Where the caller is tells what state thread and flag are in: it spawns only
\* when there is no thread, and a thread whose flag is down is being joined.
HandleInv ==
  /\ caller \in {"set", "spawn"} => ~handle
  /\ caller = "set" => ~running
  /\ caller = "spawn" => running
  /\ handle /\ ~running => caller = "join"
  /\ loop # "iterate" => todo = {}

IInv == TypeOK /\ OneThread /\ HandleInv

LEMMA InitIInv == Init => IInv
BY DEF Init, IInv, TypeOK, OneThread, HandleInv

LEMMA RegistrationIInv ==
  ASSUME IInv, NEW t \in Tenants, Register(t) \/ Unregister(t)
  PROVE  IInv'
<1>1. CASE Register(t)
  BY <1>1 DEF IInv, TypeOK, OneThread, HandleInv, Register, At, Alive
<1>2. CASE Unregister(t)
  BY <1>2 DEF IInv, TypeOK, OneThread, HandleInv, Unregister, At, Alive
<1> QED BY <1>1, <1>2

LEMMA CallIInv ==
  ASSUME IInv, Start \/ Stop \/ CallStep
  PROVE  IInv'
<1>1. CASE Start
  BY <1>1 DEF IInv, TypeOK, OneThread, HandleInv, Start, At
<1>2. CASE Stop
  BY <1>2 DEF IInv, TypeOK, OneThread, HandleInv, Stop, At
<1>3. CASE SetRunning
  BY <1>3 DEF IInv, TypeOK, OneThread, HandleInv, SetRunning, At
<1>4. CASE Spawn
  <2>1. handle = FALSE /\ terminated = FALSE /\ loop = "none" /\ todo = {} /\ running = TRUE
    BY <1>4 DEF IInv, TypeOK, OneThread, HandleInv, Spawn, At
  <2>2. terminated' = FALSE
    BY <1>4, <2>1 DEF Spawn
  <2>3. CASE handle' = TRUE /\ loop' = "check"
    BY <1>4, <2>1, <2>2, <2>3 DEF IInv, TypeOK, OneThread, HandleInv, Spawn
  <2>4. CASE UNCHANGED <<handle, loop>>
    BY <1>4, <2>1, <2>2, <2>4 DEF IInv, TypeOK, OneThread, HandleInv, Spawn
  <2> QED BY <1>4, <2>3, <2>4 DEF Spawn
<1>5. CASE Join
  BY <1>5 DEF IInv, TypeOK, OneThread, HandleInv, Join, At
<1> QED BY <1>1, <1>2, <1>3, <1>4, <1>5 DEF CallStep

LEMMA LoopIInv ==
  ASSUME IInv, LoopStep
  PROVE  IInv'
<1>1. CASE Check
  BY <1>1 DEF IInv, TypeOK, OneThread, HandleInv, Check
<1>2. CASE Update
  <2> PICK t \in todo, u \in Usages :
        todo' = todo \ {t} /\ cpu' = [cpu EXCEPT ![t] = u]
    BY <1>2 DEF Update
  <2> QED BY <1>2 DEF IInv, TypeOK, OneThread, HandleInv, Update
<1>3. CASE Sleep
  BY <1>3 DEF IInv, TypeOK, OneThread, HandleInv, Sleep
<1> QED BY <1>1, <1>2, <1>3 DEF LoopStep

LEMMA StepIInv == IInv /\ [Next]_vars => IInv'
<1> SUFFICES ASSUME IInv, [Next]_vars PROVE IInv'
  OBVIOUS
<1>1. CASE UNCHANGED vars
  BY <1>1 DEF IInv, TypeOK, OneThread, HandleInv, vars
<1>2. CASE Next
  BY <1>2, RegistrationIInv, CallIInv, LoopIInv DEF Next
<1> QED BY <1>1, <1>2

\* The inductive invariant: thread, thread object and flag agree.
THEOREM MonitorInvariant == Spec => []IInv
BY InitIInv, StepIInv, PTL DEF Spec

\* Type correctness; what is left of an iteration is monitored.
THEOREM MonitorTypeOK == Spec => []TypeOK
BY MonitorInvariant, PTL DEF IInv

\* No start assigns to a joinable thread, whatever starts, stops and failing
\* spawns came before it.
THEOREM MonitorOneThread == Spec => []OneThread
BY MonitorInvariant, PTL DEF IInv

\* After stopMonitoring has returned no usage changes until the next start.
THEOREM MonitorStopped == Spec => StoppedMeansStopped
<1>1. IInv /\ [Next]_vars => [cpu' # cpu => running \/ caller = "join"]_vars
  <2> SUFFICES ASSUME IInv, Next, cpu' # cpu PROVE running \/ caller = "join"
    OBVIOUS
  <2>1. Update
    BY DEF Next, CallStep, LoopStep, Register, Unregister, Start, Stop, SetRunning, Spawn,
           Join, Check, Sleep
  <2>2. handle
    BY <2>1 DEF Update, IInv, OneThread
  <2> QED BY <2>2 DEF IInv, HandleInv, TypeOK
<1> QED BY <1>1, MonitorInvariant, PTL DEF Spec, StoppedMeansStopped
===============================================================================
