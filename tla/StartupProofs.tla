----------------------------- MODULE StartupProofs -----------------------------
(***************************************************************************)
(* Theorems about Startup, for every configuration file and any number of  *)
(* clients.                                                                *)
(*                                                                         *)
(* What holds while the server or the monitor is up follows from where     *)
(* main is: IInv says, call by call, what main has set up by then (Served, *)
(* Agreed, Watched), in which order the singletons were constructed        *)
(* (BuiltInv), and that no tenant is ever created (NoTenants), since every *)
(* call of createTenant comes before the pool is initialised.              *)
(***************************************************************************)
EXTENDS Startup, FiniteSetTheorems, SequenceTheorems, WellFoundedInduction,
        TLAPS

Modes == {"demo", "benchmark", "test"}

\* The calls of Program by their names, and its singletons in the order of their birth.
Ops ==
  [demo |-> <<"load", "create", "create", "cpuInit", "memoryInit", "diskInit", "monitorStart",
              "poolInit", "sqlInit", "dataInit", "serverStart", "requests", "requests",
              "serverStop", "monitorSignal", "monitorJoin", "poolStop">>,
   benchmark |-> <<"load", "create", "create", "cpuInit", "memoryInit", "diskInit", "poolInit",
                   "monitorStart", "sqlInit", "serverStart", "clientsStart", "clientsJoin",
                   "serverStop", "monitorSignal", "monitorJoin", "poolStop", "remove", "remove">>,
   test |-> <<"create", "lookup", "remove", "lookup", "create", "lookup", "lookup", "remove",
              "create", "check", "update", "check", "remove">>]

Order == [demo      |-> <<"Config", "Tenants", "Cpu", "Memory", "Disk", "Monitor", "Pool">>,
          benchmark |-> <<"Config", "Tenants", "Cpu", "Memory", "Disk", "Monitor", "Pool">>,
          test      |-> <<"Tenants", "Cpu", "Memory", "Disk", "Monitor", "Pool">>]

Singletons == {"Config", "Tenants", "Cpu", "Memory", "Disk", "Monitor", "Pool"}

\* Where main is while the server, or the monitor, may be up.
ServerUp  == [demo |-> 12..14, benchmark |-> 11..13, test |-> {}]
MonitorUp == [demo |-> 8..16, benchmark |-> 9..15, test |-> {}]

MainInv == mode \in Modes /\ file \in Files \cup {NoFile}
           /\ pc \in 1..(Len(Program[mode]) + 1) /\ code \in {0, 1}

ConfigInv == /\ config \in [Keys -> SUBSET Int]
             /\ \A k \in Keys : Cardinality(config[k]) <= 1

NoTenants == tenants = {} /\ groups = {} /\ monitored = {} /\ served = {}

ManagersInv ==
  /\ DOMAIN cpu \subseteq Names /\ \A t \in DOMAIN cpu : cpu[t] \in 0..100
  /\ memory \in [total : 0..(SizeRange - 1), tenants : SUBSET Names] /\ memory.tenants = {}
  /\ disk \in [total : 0..(SizeRange - 1), tenants : SUBSET Names] /\ disk.tenants = {}
  /\ pool \in [ready : BOOLEAN, cgroup : BOOLEAN, total : 0..(SizeRange - 1)]
  /\ cpuCgroup \in BOOLEAN

Served ==
  /\ serving \in BOOLEAN /\ (serving <=> pc \in ServerUp[mode])
  /\ clients \in 0..ClientThreads /\ (clients > 0 => mode = "benchmark" /\ pc = 12)

Agreed ==
  /\ mode # "test" /\ pc > 4 => cpuCgroup = Cgroup
  /\ mode # "test" /\ pc > 5 => memory.total = Memory
  /\ pool.ready => mode # "test" /\ pc > 7 /\ pool.cgroup = Cgroup /\ pool.total = Threads

Watched ==
  /\ running \in BOOLEAN /\ mon \in {"none", "check", "pass", "ended", "joined"}
  /\ mon \in {"check", "pass"} => pc \in MonitorUp[mode] \/ Over
  /\ Joinable => mode # "test" /\ Len(built) >= 6

BuiltInv ==
  /\ built \in Seq(Singletons) /\ Len(built) <= Len(Order[mode])
  /\ \A i \in 1..Len(built) : built[i] = Order[mode][i]
  /\ ~Over /\ mode = "test" => Len(built) = IF pc = 1 THEN 0 ELSE 6
  /\ ~Over /\ mode # "test" => Len(built) = IF pc = 1 THEN 0 ELSE IF pc = 2 THEN 1 ELSE 7

IInv == /\ MainInv /\ ConfigInv /\ NoTenants /\ ManagersInv
        /\ Served /\ Agreed /\ Watched /\ BuiltInv
(***************************************************************************)
(* The program.                                                            *)
(***************************************************************************)
\* Indices of a concatenation of three sequences.
LEMMA Concatenated ==
  ASSUME NEW C, NEW u \in Seq(C), NEW v \in Seq(C), NEW w \in Seq(C),
         NEW s, s = (u \o v) \o w
  PROVE  /\ s \in Seq(C) /\ Len(s) = Len(u) + Len(v) + Len(w)
         /\ \A i \in 1..Len(u) : s[i] = u[i]
         /\ \A i \in 1..Len(v) : s[Len(u) + i] = v[i]
         /\ \A i \in 1..Len(w) : s[Len(u) + Len(v) + i] = w[i]
OBVIOUS

OpNames == {"load", "create", "remove", "lookup", "check", "update", "cpuInit", "memoryInit",
            "diskInit", "monitorStart", "poolInit", "sqlInit", "dataInit", "serverStart",
            "requests", "clientsStart", "clientsJoin", "serverStop", "monitorSignal",
            "monitorJoin", "poolStop"}

Calls == [op : OpNames, tenant : Names \cup {"none", "nonexistent"}]

LEMMA SetupIs ==
  /\ Setup \in Seq(Calls) /\ Len(Setup) = 3
  /\ Setup[1].op = "cpuInit" /\ Setup[2].op = "memoryInit" /\ Setup[3].op = "diskInit"
BY DEF Setup, Call, Calls, OpNames

LEMMA DemoIs ==
  /\ Demo \in Seq(Calls) /\ Len(Demo) = 17
  /\ \A i \in 1..17 : Demo[i].op = Ops.demo[i]
  /\ Demo[2].tenant \in Names /\ Demo[3].tenant \in Names
<1> DEFINE a == <<Call("load"), With("create", "tenant1"), With("create", "tenant2")>>
           c == <<Call("monitorStart"), Call("poolInit"), Call("sqlInit"), Call("dataInit"),
                   Call("serverStart"), With("requests", "tenant1"),
                   With("requests", "tenant2"), Call("serverStop"), Call("monitorSignal"),
                   Call("monitorJoin"), Call("poolStop")>>
<1>1. /\ a \in Seq(Calls) /\ Len(a) = 3 /\ a[1].op = "load" /\ a[2].op = "create"
      /\ a[3].op = "create" /\ a[2].tenant \in Names /\ a[3].tenant \in Names
  BY DEF Call, With, Calls, OpNames, Names, Quota
<1>2. c \in Seq(Calls) /\ Len(c) = 11
  BY DEF Call, With, Calls, OpNames, Names, Quota
<1>3. /\ c[1].op = "monitorStart" /\ c[2].op = "poolInit" /\ c[3].op = "sqlInit"
      /\ c[4].op = "dataInit" /\ c[5].op = "serverStart" /\ c[6].op = "requests"
      /\ c[7].op = "requests" /\ c[8].op = "serverStop" /\ c[9].op = "monitorSignal"
      /\ c[10].op = "monitorJoin" /\ c[11].op = "poolStop"
  BY DEF Call, With
<1>4. Demo = (a \o Setup) \o c
  BY DEF Demo
<1> HIDE DEF a, c
<1>5. /\ Demo \in Seq(Calls) /\ Len(Demo) = Len(a) + Len(Setup) + Len(c)
      /\ \A i \in 1..Len(a) : Demo[i] = a[i]
      /\ \A i \in 1..Len(Setup) : Demo[Len(a) + i] = Setup[i]
      /\ \A i \in 1..Len(c) : Demo[Len(a) + Len(Setup) + i] = c[i]
  <2>1. a \in Seq(Calls) /\ Setup \in Seq(Calls) /\ c \in Seq(Calls)
    BY <1>1, <1>2, SetupIs
  <2>2. \A s : s = (a \o Setup) \o c =>
          /\ s \in Seq(Calls) /\ Len(s) = Len(a) + Len(Setup) + Len(c)
          /\ \A i \in 1..Len(a) : s[i] = a[i]
          /\ \A i \in 1..Len(Setup) : s[Len(a) + i] = Setup[i]
          /\ \A i \in 1..Len(c) : s[Len(a) + Len(Setup) + i] = c[i]
    BY <2>1, Concatenated
  <2> QED  BY <1>4, <2>2, Zenon
<1>6. /\ Demo[1] = a[1] /\ Demo[2] = a[2] /\ Demo[3] = a[3] /\ Demo[4] = Setup[1]
      /\ Demo[5] = Setup[2] /\ Demo[6] = Setup[3] /\ Demo[7] = c[1] /\ Demo[8] = c[2]
      /\ Demo[9] = c[3] /\ Demo[10] = c[4] /\ Demo[11] = c[5] /\ Demo[12] = c[6]
      /\ Demo[13] = c[7] /\ Demo[14] = c[8] /\ Demo[15] = c[9] /\ Demo[16] = c[10]
      /\ Demo[17] = c[11]
  BY <1>1, <1>2, <1>5, SetupIs
<1>7. Len(Demo) = 17
  BY <1>1, <1>2, <1>5, SetupIs
<1>8. /\ Ops.demo[1] = "load" /\ Ops.demo[2] = "create" /\ Ops.demo[3] = "create"
      /\ Ops.demo[4] = "cpuInit" /\ Ops.demo[5] = "memoryInit"
      /\ Ops.demo[6] = "diskInit" /\ Ops.demo[7] = "monitorStart"
      /\ Ops.demo[8] = "poolInit" /\ Ops.demo[9] = "sqlInit"
      /\ Ops.demo[10] = "dataInit" /\ Ops.demo[11] = "serverStart"
      /\ Ops.demo[12] = "requests" /\ Ops.demo[13] = "requests"
      /\ Ops.demo[14] = "serverStop" /\ Ops.demo[15] = "monitorSignal"
      /\ Ops.demo[16] = "monitorJoin" /\ Ops.demo[17] = "poolStop"
  BY DEF Ops
<1>9. /\ Demo[1].op = "load" /\ Demo[2].op = "create" /\ Demo[3].op = "create"
      /\ Demo[4].op = "cpuInit" /\ Demo[5].op = "memoryInit" /\ Demo[6].op = "diskInit"
      /\ Demo[7].op = "monitorStart" /\ Demo[8].op = "poolInit"
      /\ Demo[9].op = "sqlInit" /\ Demo[10].op = "dataInit"
      /\ Demo[11].op = "serverStart" /\ Demo[12].op = "requests"
      /\ Demo[13].op = "requests" /\ Demo[14].op = "serverStop"
      /\ Demo[15].op = "monitorSignal" /\ Demo[16].op = "monitorJoin"
      /\ Demo[17].op = "poolStop"
  BY <1>1, <1>3, <1>6, SetupIs
<1>10. \A i \in 1..17 : Demo[i].op = Ops.demo[i]
  BY <1>8, <1>9
<1>11. Demo[2].tenant \in Names /\ Demo[3].tenant \in Names
  BY <1>1, <1>6
<1> QED  BY <1>5, <1>7, <1>10, <1>11

LEMMA BenchmarkIs ==
  /\ Benchmark \in Seq(Calls) /\ Len(Benchmark) = 18
  /\ \A i \in 1..18 : Benchmark[i].op = Ops.benchmark[i]
  /\ Benchmark[2].tenant \in Names /\ Benchmark[3].tenant \in Names
<1> DEFINE a == <<Call("load"), With("create", "bench_tenant1"),
                   With("create", "bench_tenant2")>>
           c == <<Call("poolInit"), Call("monitorStart"), Call("sqlInit"),
                   Call("serverStart"), With("clientsStart", "bench_tenant1"),
                   With("clientsJoin", "bench_tenant1"), Call("serverStop"),
                   Call("monitorSignal"), Call("monitorJoin"), Call("poolStop"),
                   With("remove", "bench_tenant1"), With("remove", "bench_tenant2")>>
<1>1. /\ a \in Seq(Calls) /\ Len(a) = 3 /\ a[1].op = "load" /\ a[2].op = "create"
      /\ a[3].op = "create" /\ a[2].tenant \in Names /\ a[3].tenant \in Names
  BY DEF Call, With, Calls, OpNames, Names, Quota
<1>2. c \in Seq(Calls) /\ Len(c) = 12
  BY DEF Call, With, Calls, OpNames, Names, Quota
<1>3. /\ c[1].op = "poolInit" /\ c[2].op = "monitorStart" /\ c[3].op = "sqlInit"
      /\ c[4].op = "serverStart" /\ c[5].op = "clientsStart" /\ c[6].op = "clientsJoin"
      /\ c[7].op = "serverStop" /\ c[8].op = "monitorSignal" /\ c[9].op = "monitorJoin"
      /\ c[10].op = "poolStop" /\ c[11].op = "remove" /\ c[12].op = "remove"
  BY DEF Call, With
<1>4. Benchmark = (a \o Setup) \o c
  BY DEF Benchmark
<1> HIDE DEF a, c
<1>5. /\ Benchmark \in Seq(Calls) /\ Len(Benchmark) = Len(a) + Len(Setup) + Len(c)
      /\ \A i \in 1..Len(a) : Benchmark[i] = a[i]
      /\ \A i \in 1..Len(Setup) : Benchmark[Len(a) + i] = Setup[i]
      /\ \A i \in 1..Len(c) : Benchmark[Len(a) + Len(Setup) + i] = c[i]
  <2>1. a \in Seq(Calls) /\ Setup \in Seq(Calls) /\ c \in Seq(Calls)
    BY <1>1, <1>2, SetupIs
  <2>2. \A s : s = (a \o Setup) \o c =>
          /\ s \in Seq(Calls) /\ Len(s) = Len(a) + Len(Setup) + Len(c)
          /\ \A i \in 1..Len(a) : s[i] = a[i]
          /\ \A i \in 1..Len(Setup) : s[Len(a) + i] = Setup[i]
          /\ \A i \in 1..Len(c) : s[Len(a) + Len(Setup) + i] = c[i]
    BY <2>1, Concatenated
  <2> QED  BY <1>4, <2>2, Zenon
<1>6. /\ Benchmark[1] = a[1] /\ Benchmark[2] = a[2] /\ Benchmark[3] = a[3]
      /\ Benchmark[4] = Setup[1] /\ Benchmark[5] = Setup[2] /\ Benchmark[6] = Setup[3]
      /\ Benchmark[7] = c[1] /\ Benchmark[8] = c[2] /\ Benchmark[9] = c[3]
      /\ Benchmark[10] = c[4] /\ Benchmark[11] = c[5] /\ Benchmark[12] = c[6]
      /\ Benchmark[13] = c[7] /\ Benchmark[14] = c[8] /\ Benchmark[15] = c[9]
      /\ Benchmark[16] = c[10] /\ Benchmark[17] = c[11] /\ Benchmark[18] = c[12]
  BY <1>1, <1>2, <1>5, SetupIs
<1>7. Len(Benchmark) = 18
  BY <1>1, <1>2, <1>5, SetupIs
<1>8. /\ Ops.benchmark[1] = "load" /\ Ops.benchmark[2] = "create"
      /\ Ops.benchmark[3] = "create" /\ Ops.benchmark[4] = "cpuInit"
      /\ Ops.benchmark[5] = "memoryInit" /\ Ops.benchmark[6] = "diskInit"
      /\ Ops.benchmark[7] = "poolInit" /\ Ops.benchmark[8] = "monitorStart"
      /\ Ops.benchmark[9] = "sqlInit" /\ Ops.benchmark[10] = "serverStart"
      /\ Ops.benchmark[11] = "clientsStart" /\ Ops.benchmark[12] = "clientsJoin"
      /\ Ops.benchmark[13] = "serverStop" /\ Ops.benchmark[14] = "monitorSignal"
      /\ Ops.benchmark[15] = "monitorJoin" /\ Ops.benchmark[16] = "poolStop"
      /\ Ops.benchmark[17] = "remove" /\ Ops.benchmark[18] = "remove"
  BY DEF Ops
<1>9. /\ Benchmark[1].op = "load" /\ Benchmark[2].op = "create"
      /\ Benchmark[3].op = "create" /\ Benchmark[4].op = "cpuInit"
      /\ Benchmark[5].op = "memoryInit" /\ Benchmark[6].op = "diskInit"
      /\ Benchmark[7].op = "poolInit" /\ Benchmark[8].op = "monitorStart"
      /\ Benchmark[9].op = "sqlInit" /\ Benchmark[10].op = "serverStart"
      /\ Benchmark[11].op = "clientsStart" /\ Benchmark[12].op = "clientsJoin"
      /\ Benchmark[13].op = "serverStop" /\ Benchmark[14].op = "monitorSignal"
      /\ Benchmark[15].op = "monitorJoin" /\ Benchmark[16].op = "poolStop"
      /\ Benchmark[17].op = "remove" /\ Benchmark[18].op = "remove"
  BY <1>1, <1>3, <1>6, SetupIs
<1>10. \A i \in 1..18 : Benchmark[i].op = Ops.benchmark[i]
  BY <1>8, <1>9
<1>11. Benchmark[2].tenant \in Names /\ Benchmark[3].tenant \in Names
  BY <1>1, <1>6
<1> QED  BY <1>5, <1>7, <1>10, <1>11

LEMMA SelfTestsAre ==
  /\ SelfTests \in Seq(Calls) /\ Len(SelfTests) = 13
  /\ \A i \in 1..13 : SelfTests[i].op = Ops.test[i]
  /\ SelfTests[1].tenant \in Names /\ SelfTests[5].tenant \in Names
  /\ SelfTests[9].tenant \in Names /\ SelfTests[11].tenant \in Names
<1>1. SelfTests \in Seq(Calls) /\ Len(SelfTests) = 13
  BY DEF SelfTests, With, Calls, OpNames, Names, Quota
<1>2. /\ SelfTests[1].op = "create" /\ SelfTests[2].op = "lookup" /\ SelfTests[3].op = "remove"
      /\ SelfTests[4].op = "lookup" /\ SelfTests[5].op = "create" /\ SelfTests[6].op = "lookup"
      /\ SelfTests[7].op = "lookup" /\ SelfTests[8].op = "remove" /\ SelfTests[9].op = "create"
      /\ SelfTests[10].op = "check" /\ SelfTests[11].op = "update" /\ SelfTests[12].op = "check"
      /\ SelfTests[13].op = "remove"
  BY DEF SelfTests, With
<1>3. /\ SelfTests[1].tenant \in Names /\ SelfTests[5].tenant \in Names
      /\ SelfTests[9].tenant \in Names /\ SelfTests[11].tenant \in Names
  BY DEF SelfTests, With, Names, Quota
<1> QED  BY <1>1, <1>2, <1>3 DEF Ops

LEMMA ProgramIs ==
  /\ DOMAIN Program = Modes
  /\ Len(Program["demo"]) = 17 /\ Len(Program["benchmark"]) = 18 /\ Len(Program["test"]) = 13
  /\ \A i \in 1..17 : Program["demo"][i].op = Ops.demo[i]
  /\ \A i \in 1..18 : Program["benchmark"][i].op = Ops.benchmark[i]
  /\ \A i \in 1..13 : Program["test"][i].op = Ops.test[i]
  /\ \A m \in {"demo", "benchmark"} :
       Program[m][2].tenant \in Names /\ Program[m][3].tenant \in Names
  /\ \A i \in {1, 5, 9, 11} : Program["test"][i].tenant \in Names
<1>1. DOMAIN Program = Modes
  BY DEF Program, Modes
<1>2. Program["demo"] = Demo /\ Program["benchmark"] = Benchmark /\ Program["test"] = SelfTests
  BY DEF Program
<1> QED  BY <1>1, <1>2, DemoIs, BenchmarkIs, SelfTestsAre

\* Where main is when it makes a call.
LEMMA Where ==
  ASSUME MainInv
  PROVE  /\ At("load") => mode # "test" /\ pc = 1
         /\ At("create") => \/ mode # "test" /\ pc \in {2, 3}
                            \/ mode = "test" /\ pc \in {1, 5, 9}
         /\ At("remove") => \/ mode = "benchmark" /\ pc \in {17, 18}
                            \/ mode = "test" /\ pc \in {3, 8, 13}
         /\ At("lookup") \/ At("check") \/ At("update") => mode = "test" /\ pc > 1
         /\ At("update") => pc = 11
         /\ At("cpuInit") => mode # "test" /\ pc = 4
         /\ At("memoryInit") => mode # "test" /\ pc = 5
         /\ At("diskInit") => mode # "test" /\ pc = 6
         /\ At("sqlInit") => mode # "test" /\ pc = 9
         /\ At("dataInit") => mode = "demo" /\ pc = 10
         /\ At("requests") => mode = "demo" /\ pc \in {12, 13}
         /\ At("clientsStart") => mode = "benchmark" /\ pc = 11
         /\ At("clientsJoin") => mode = "benchmark" /\ pc = 12
         /\ At("monitorStart") => <<mode, pc>> \in {<<"demo", 7>>, <<"benchmark", 8>>}
         /\ At("poolInit") => <<mode, pc>> \in {<<"demo", 8>>, <<"benchmark", 7>>}
         /\ At("serverStart") => <<mode, pc>> \in {<<"demo", 11>>, <<"benchmark", 10>>}
         /\ At("serverStop") => <<mode, pc>> \in {<<"demo", 14>>, <<"benchmark", 13>>}
         /\ At("monitorSignal") => <<mode, pc>> \in {<<"demo", 15>>, <<"benchmark", 14>>}
         /\ At("monitorJoin") => <<mode, pc>> \in {<<"demo", 16>>, <<"benchmark", 15>>}
         /\ At("poolStop") => <<mode, pc>> \in {<<"demo", 17>>, <<"benchmark", 16>>}
<1>1. CASE mode = "demo"
  <2>1. ASSUME NEW o, At(o) PROVE pc \in 1..17 /\ Ops.demo[pc] = o
    BY <1>1, <2>1, ProgramIs DEF At, MainInv
  <2> QED  BY <1>1, <2>1 DEF Ops
<1>2. CASE mode = "benchmark"
  <2>1. ASSUME NEW o, At(o) PROVE pc \in 1..18 /\ Ops.benchmark[pc] = o
    BY <1>2, <2>1, ProgramIs DEF At, MainInv
  <2> QED  BY <1>2, <2>1 DEF Ops
<1>3. CASE mode = "test"
  <2>1. ASSUME NEW o, At(o) PROVE pc \in 1..13 /\ Ops.test[pc] = o
    BY <1>3, <2>1, ProgramIs DEF At, MainInv
  <2> QED  BY <1>3, <2>1 DEF Ops
<1> QED  BY <1>1, <1>2, <1>3 DEF MainInv, Modes

(***************************************************************************)
(* The singletons.                                                         *)
(***************************************************************************)
LEMMA UsedOne ==
  ASSUME NEW S, NEW b \in Seq(S), NEW x \in S
  PROVE  /\ Used(b, x) \in Seq(S) /\ ToSet(Used(b, x)) = ToSet(b) \cup {x}
         /\ x \in ToSet(b) => Used(b, x) = b
         /\ x \notin ToSet(b) => /\ Len(Used(b, x)) = Len(b) + 1
                                 /\ \A i \in 1..Len(b) : Used(b, x)[i] = b[i]
                                 /\ Used(b, x)[Len(b) + 1] = x
<1>1. CASE x \in ToSet(b)
  BY <1>1 DEF Used, ToSet
<1>2. CASE x \notin ToSet(b)
  <2>1. Used(b, x) = Append(b, x)
    BY <1>2 DEF Used
  <2>2. /\ Append(b, x) \in Seq(S) /\ Len(Append(b, x)) = Len(b) + 1 /\ Len(b) \in Nat
        /\ \A i \in 1..Len(b) : Append(b, x)[i] = b[i]
        /\ Append(b, x)[Len(b) + 1] = x
        /\ DOMAIN Append(b, x) = 1..(Len(b) + 1) /\ DOMAIN b = 1..Len(b)
    OBVIOUS
  <2>3. ToSet(Append(b, x)) = ToSet(b) \cup {x}
    BY <2>2 DEF ToSet
  <2> QED  BY <1>2, <2>1, <2>2, <2>3
<1> QED  BY <1>1, <1>2

\* The first use of x.
LEMMA UsedFirst ==
  ASSUME NEW b \in Seq(Singletons), NEW x \in Singletons, x \notin ToSet(b)
  PROVE  \E c \in Seq(Singletons) :
           /\ c = Used(b, x) /\ ToSet(c) = ToSet(b) \cup {x}
           /\ Len(c) = Len(b) + 1 /\ c[Len(b) + 1] = x
           /\ \A i \in 1..Len(b) : c[i] = b[i]
<1>1. Used(b, x) \in Seq(Singletons) /\ ToSet(Used(b, x)) = ToSet(b) \cup {x}
  BY UsedOne
<1>2. Len(Used(b, x)) = Len(b) + 1
  BY UsedOne
<1>3. Used(b, x)[Len(b) + 1] = x
  BY UsedOne
<1>4. \A i \in 1..Len(b) : Used(b, x)[i] = b[i]
  BY UsedOne
<1> QED  BY <1>1, <1>2, <1>3, <1>4

All(b) == Used(Used(Used(Used(Used(Used(b, "Tenants"), "Cpu"), "Memory"), "Disk"), "Monitor"), "Pool")

LEMMA UsedAllAgain ==
  ASSUME NEW b \in Seq(Singletons), Singletons \ {"Config"} \subseteq ToSet(b)
  PROVE  All(b) = b
<1>1. \A x \in Singletons \ {"Config"} : Used(b, x) = b
  BY UsedOne
<1>2. /\ Used(b, "Tenants") = b /\ Used(b, "Cpu") = b /\ Used(b, "Memory") = b
      /\ Used(b, "Disk") = b /\ Used(b, "Monitor") = b /\ Used(b, "Pool") = b
  BY <1>1 DEF Singletons
<1> QED  BY <1>2 DEF All

LEMMA UsedAllFirst ==
  ASSUME NEW b \in Seq(Singletons), ToSet(b) \subseteq {"Config"}
  PROVE  \E c \in Seq(Singletons) :
           /\ c = All(b) /\ Len(c) = Len(b) + 6
           /\ \A i \in 1..Len(b) : c[i] = b[i]
           /\ c[Len(b) + 1] = "Tenants" /\ c[Len(b) + 2] = "Cpu" /\ c[Len(b) + 3] = "Memory"
           /\ c[Len(b) + 4] = "Disk" /\ c[Len(b) + 5] = "Monitor" /\ c[Len(b) + 6] = "Pool"
<1>0. /\ "Tenants" \in Singletons /\ "Cpu" \in Singletons /\ "Memory" \in Singletons
      /\ "Disk" \in Singletons /\ "Monitor" \in Singletons /\ "Pool" \in Singletons
      /\ Len(b) \in Nat
  BY DEF Singletons
<1>1. PICK b1 \in Seq(Singletons) :
        /\ b1 = Used(b, "Tenants") /\ ToSet(b1) = ToSet(b) \cup {"Tenants"}
        /\ Len(b1) = Len(b) + 1 /\ b1[Len(b) + 1] = "Tenants"
        /\ \A i \in 1..Len(b) : b1[i] = b[i]
  <2>1. "Tenants" \notin ToSet(b)
    OBVIOUS
  <2> QED  BY <1>0, <2>1, UsedFirst, Zenon
<1>2. PICK b2 \in Seq(Singletons) :
        /\ b2 = Used(b1, "Cpu") /\ ToSet(b2) = ToSet(b1) \cup {"Cpu"}
        /\ Len(b2) = Len(b1) + 1 /\ b2[Len(b1) + 1] = "Cpu"
        /\ \A i \in 1..Len(b1) : b2[i] = b1[i]
  <2>1. "Cpu" \notin ToSet(b1)
    BY <1>1
  <2> QED  BY <1>0, <2>1, UsedFirst, Zenon
<1>3. PICK b3 \in Seq(Singletons) :
        /\ b3 = Used(b2, "Memory") /\ ToSet(b3) = ToSet(b2) \cup {"Memory"}
        /\ Len(b3) = Len(b2) + 1 /\ b3[Len(b2) + 1] = "Memory"
        /\ \A i \in 1..Len(b2) : b3[i] = b2[i]
  <2>1. "Memory" \notin ToSet(b2)
    BY <1>1, <1>2
  <2> QED  BY <1>0, <2>1, UsedFirst, Zenon
<1>4. PICK b4 \in Seq(Singletons) :
        /\ b4 = Used(b3, "Disk") /\ ToSet(b4) = ToSet(b3) \cup {"Disk"}
        /\ Len(b4) = Len(b3) + 1 /\ b4[Len(b3) + 1] = "Disk"
        /\ \A i \in 1..Len(b3) : b4[i] = b3[i]
  <2>1. "Disk" \notin ToSet(b3)
    BY <1>1, <1>2, <1>3
  <2> QED  BY <1>0, <2>1, UsedFirst, Zenon
<1>5. PICK b5 \in Seq(Singletons) :
        /\ b5 = Used(b4, "Monitor") /\ ToSet(b5) = ToSet(b4) \cup {"Monitor"}
        /\ Len(b5) = Len(b4) + 1 /\ b5[Len(b4) + 1] = "Monitor"
        /\ \A i \in 1..Len(b4) : b5[i] = b4[i]
  <2>1. "Monitor" \notin ToSet(b4)
    BY <1>1, <1>2, <1>3, <1>4
  <2> QED  BY <1>0, <2>1, UsedFirst, Zenon
<1>6. PICK b6 \in Seq(Singletons) :
        /\ b6 = Used(b5, "Pool") /\ ToSet(b6) = ToSet(b5) \cup {"Pool"}
        /\ Len(b6) = Len(b5) + 1 /\ b6[Len(b5) + 1] = "Pool"
        /\ \A i \in 1..Len(b5) : b6[i] = b5[i]
  <2>1. "Pool" \notin ToSet(b5)
    BY <1>1, <1>2, <1>3, <1>4, <1>5
  <2> QED  BY <1>0, <2>1, UsedFirst, Zenon
<1>7. All(b) = b6
  BY <1>1, <1>2, <1>3, <1>4, <1>5, <1>6 DEF All
<1>8. /\ Len(b1) = Len(b) + 1 /\ Len(b2) = Len(b) + 2 /\ Len(b3) = Len(b) + 3
      /\ Len(b4) = Len(b) + 4 /\ Len(b5) = Len(b) + 5 /\ Len(b6) = Len(b) + 6
  BY <1>0, <1>1, <1>2, <1>3, <1>4, <1>5, <1>6
<1>9. /\ \A i \in 1..(Len(b) + 5) : b6[i] = b5[i]
      /\ \A i \in 1..(Len(b) + 4) : b5[i] = b4[i]
      /\ \A i \in 1..(Len(b) + 3) : b4[i] = b3[i]
      /\ \A i \in 1..(Len(b) + 2) : b3[i] = b2[i]
      /\ \A i \in 1..(Len(b) + 1) : b2[i] = b1[i]
      /\ b1[Len(b) + 1] = "Tenants" /\ b2[Len(b) + 2] = "Cpu" /\ b3[Len(b) + 3] = "Memory"
      /\ b4[Len(b) + 4] = "Disk" /\ b5[Len(b) + 5] = "Monitor" /\ b6[Len(b) + 6] = "Pool"
  BY <1>0, <1>1, <1>2, <1>3, <1>4, <1>5, <1>6, <1>8
<1>10. \A i \in 1..(Len(b) + 4) : b6[i] = b4[i]
  BY <1>0, <1>9
<1>11. \A i \in 1..(Len(b) + 3) : b6[i] = b3[i]
  BY <1>0, <1>9, <1>10
<1>12. \A i \in 1..(Len(b) + 2) : b6[i] = b2[i]
  BY <1>0, <1>9, <1>11
<1>13. \A i \in 1..(Len(b) + 1) : b6[i] = b1[i]
  BY <1>0, <1>9, <1>12
<1>14. \A i \in 1..Len(b) : b1[i] = b[i]
  BY <1>1
<1>15. ASSUME NEW i \in 1..Len(b) PROVE b6[i] = b[i]
  <2>1. i \in 1..(Len(b) + 1)
    BY <1>0
  <2> QED  BY <1>13, <1>14, <2>1, Zenon
<1>16. /\ b6[Len(b) + 1] = "Tenants" /\ b6[Len(b) + 2] = "Cpu" /\ b6[Len(b) + 3] = "Memory"
       /\ b6[Len(b) + 4] = "Disk" /\ b6[Len(b) + 5] = "Monitor" /\ b6[Len(b) + 6] = "Pool"
  <2>1. /\ Len(b) + 1 \in 1..(Len(b) + 1) /\ Len(b) + 2 \in 1..(Len(b) + 2)
        /\ Len(b) + 3 \in 1..(Len(b) + 3) /\ Len(b) + 4 \in 1..(Len(b) + 4)
        /\ Len(b) + 5 \in 1..(Len(b) + 5)
    BY <1>0
  <2> QED  BY <1>9, <1>10, <1>11, <1>12, <1>13, <2>1, Zenon
<1>17. Len(b6) = Len(b) + 6
  BY <1>8
<1> QED  BY <1>7, <1>15, <1>16, <1>17, Zenon

\* What the singletons are while main runs.
LEMMA BuiltIs ==
  ASSUME MainInv, BuiltInv
  PROVE  /\ mode # "test" /\ Len(built) = 7 => ToSet(built) = Singletons
         /\ mode = "test" /\ Len(built) = 6 => Singletons \ {"Config"} \subseteq ToSet(built)
         /\ mode # "test" /\ Len(built) >= 6 => {"Cpu", "Monitor"} \subseteq ToSet(built)
         /\ mode # "test" /\ Len(built) <= 1 => ToSet(built) \subseteq {"Config"}
         /\ Len(built) = 0 => built = <<>> /\ ToSet(built) = {}
<1>1. /\ built \in Seq(Singletons) /\ Len(built) \in Nat /\ DOMAIN built = 1..Len(built)
      /\ \A i \in 1..Len(built) : built[i] = Order[mode][i]
  BY DEF BuiltInv
<1>2. ToSet(built) = {built[i] : i \in 1..Len(built)}
  BY <1>1 DEF ToSet
<1>2a. \A i \in 1..Len(built) : built[i] \in Singletons
  BY <1>1
<1>3. mode # "test" => /\ Order[mode][1] = "Config" /\ Order[mode][2] = "Tenants"
                       /\ Order[mode][3] = "Cpu" /\ Order[mode][4] = "Memory"
                       /\ Order[mode][5] = "Disk" /\ Order[mode][6] = "Monitor"
                       /\ Order[mode][7] = "Pool"
  BY DEF Order, MainInv, Modes
<1>4. mode = "test" => /\ Order[mode][1] = "Tenants" /\ Order[mode][2] = "Cpu"
                       /\ Order[mode][3] = "Memory" /\ Order[mode][4] = "Disk"
                       /\ Order[mode][5] = "Monitor" /\ Order[mode][6] = "Pool"
  BY DEF Order
<1>5. mode # "test" /\ Len(built) = 7 => ToSet(built) = Singletons
  <2> SUFFICES ASSUME mode # "test", Len(built) = 7 PROVE ToSet(built) = Singletons
    OBVIOUS
  <2>1. ToSet(built) \subseteq Singletons
    BY <1>2, <1>2a
  <2>2. \A x \in Singletons : \E i \in 1..7 : built[i] = x
    BY <1>1, <1>3 DEF Singletons
  <2> QED  BY <1>2, <2>1, <2>2
<1>6. mode = "test" /\ Len(built) = 6 => Singletons \ {"Config"} \subseteq ToSet(built)
  BY <1>1, <1>2, <1>4 DEF Singletons
<1>7. mode # "test" /\ Len(built) >= 6 => {"Cpu", "Monitor"} \subseteq ToSet(built)
  BY <1>1, <1>2, <1>3
<1>8. mode # "test" /\ Len(built) <= 1 => ToSet(built) \subseteq {"Config"}
  BY <1>1, <1>2, <1>3
<1>9. Len(built) = 0 => built = <<>> /\ ToSet(built) = {}
  BY <1>1, <1>2
<1> QED  BY <1>5, <1>6, <1>7, <1>8, <1>9

\* Every call that returns takes main one step further, and constructs what it is
\* the first to use: the configuration in the first call, the rest in the second.
LEMMA MainGoesOn ==
  ASSUME MainInv, BuiltInv, NEW o, At(o), Done(o)
  PROVE  /\ MainInv' /\ BuiltInv' /\ mode' = mode /\ pc' = pc + 1 /\ pc \in Nat /\ ~Over
         /\ Len(built') >= Len(built)
<1>1. /\ mode' = mode /\ file' = file /\ code' = code /\ pc' = pc + 1 /\ pc \in Nat
      /\ pc >= 1 /\ pc <= Len(Program[mode]) /\ Len(Program[mode]) \in Nat
  BY ProgramIs DEF At, Done, MainInv, input, Modes
<1>2. MainInv' /\ ~Over
  BY <1>1 DEF MainInv, Over
<1>3. /\ built \in Seq(Singletons) /\ Len(built) \in Nat /\ Len(Order[mode]) \in {6, 7}
      /\ \A i \in 1..Len(built) : built[i] = Order[mode][i]
  BY DEF BuiltInv, Order, MainInv, Modes
<1>4. built' = IF o = "create" THEN All(built)
               ELSE IF o \in DOMAIN Uses THEN Used(built, Uses[o]) ELSE built
  BY DEF Done, Construct, All
<1>4a. ASSUME o = "create", ToSet(built) \subseteq {"Config"}, NEW n, n = Len(built)
       PROVE  /\ built' \in Seq(Singletons) /\ Len(built') = n + 6
              /\ \A i \in 1..n : built'[i] = built[i]
              /\ built'[n + 1] = "Tenants" /\ built'[n + 2] = "Cpu"
              /\ built'[n + 3] = "Memory" /\ built'[n + 4] = "Disk"
              /\ built'[n + 5] = "Monitor" /\ built'[n + 6] = "Pool"
  <2>1. PICK c \in Seq(Singletons) :
           /\ c = All(built) /\ Len(c) = Len(built) + 6
           /\ \A i \in 1..Len(built) : c[i] = built[i]
           /\ c[Len(built) + 1] = "Tenants" /\ c[Len(built) + 2] = "Cpu"
           /\ c[Len(built) + 3] = "Memory" /\ c[Len(built) + 4] = "Disk"
           /\ c[Len(built) + 5] = "Monitor" /\ c[Len(built) + 6] = "Pool"
    BY <1>3, <1>4a, UsedAllFirst, Zenon
  <2>2. built' = c
    BY <1>4, <1>4a, <2>1, Zenon
  <2> QED  BY <1>4a, <2>1, <2>2, Zenon
<1>5. CASE mode = "test" /\ pc = 1
  <2>1. o = "create"
    BY <1>1, <1>5, ProgramIs DEF At, Ops
  <2>2. built = <<>> /\ ToSet(built) = {} /\ Len(built) = 0
    BY <1>2, <1>5, BuiltIs DEF BuiltInv
  <2>3. /\ built' \in Seq(Singletons) /\ Len(built') = 6
        /\ built'[1] = "Tenants" /\ built'[2] = "Cpu" /\ built'[3] = "Memory"
        /\ built'[4] = "Disk" /\ built'[5] = "Monitor" /\ built'[6] = "Pool"
    <3>2. ToSet(built) \subseteq {"Config"} /\ 0 = Len(built)
      BY <2>2
    <3>3. built' \in Seq(Singletons) /\ Len(built') = 0 + 6
      BY <1>4a, <2>1, <3>2, Zenon
    <3>4. /\ built'[0 + 1] = "Tenants" /\ built'[0 + 2] = "Cpu" /\ built'[0 + 3] = "Memory"
          /\ built'[0 + 4] = "Disk" /\ built'[0 + 5] = "Monitor" /\ built'[0 + 6] = "Pool"
      BY <1>4a, <2>1, <3>2, Zenon
    <3> QED  BY <3>3, <3>4
  <2>4. \A i \in 1..6 : built'[i] = Order["test"][i]
    BY <2>3 DEF Order
  <2>5. Len(Order["test"]) = 6
    BY DEF Order
  <2> QED  BY <1>1, <1>2, <1>5, <2>2, <2>3, <2>4, <2>5 DEF BuiltInv
<1>6. CASE mode # "test" /\ pc = 1
  <2>1. o = "load"
    <3>1. Program["demo"][1].op = "load" /\ Program["benchmark"][1].op = "load"
      BY ProgramIs DEF Ops
    <3> QED  BY <1>6, <3>1 DEF At, MainInv, Modes
  <2>2. built = <<>> /\ ToSet(built) = {} /\ Len(built) = 0
    BY <1>2, <1>6, BuiltIs DEF BuiltInv
  <2>3. built' = Used(built, "Config") /\ "Config" \in Singletons
    BY <1>4, <2>1 DEF Uses, Singletons
  <2>4. /\ built' \in Seq(Singletons) /\ Len(built') = 1 /\ built'[1] = "Config"
    <3>1. built' = Append(built, "Config")
      BY <2>2, <2>3 DEF Used
    <3>2. \A b \in Seq(Singletons) : Len(b) = 0 =>
            /\ Append(b, "Config") \in Seq(Singletons)
            /\ Len(Append(b, "Config")) = 1 /\ Append(b, "Config")[1] = "Config"
      BY <2>3
    <3> QED  BY <1>3, <2>2, <3>1, <3>2, Zenon
  <2>5. Order[mode][1] = "Config"
    BY <1>6 DEF Order, MainInv, Modes
  <2> QED  BY <1>1, <1>2, <1>3, <1>6, <2>2, <2>4, <2>5 DEF BuiltInv
<1>7. CASE mode # "test" /\ pc = 2
  <2>1. o = "create"
    BY <1>1, <1>7, ProgramIs DEF At, Ops, MainInv, Modes
  <2>2. ToSet(built) \subseteq {"Config"} /\ Len(built) = 1 /\ built[1] = "Config"
    <3>1. Len(built) = 1
      BY <1>2, <1>7 DEF BuiltInv
    <3>2. Order[mode][1] = "Config"
      BY <1>7 DEF Order, MainInv, Modes
    <3> QED  BY <1>3, <1>7, <3>1, <3>2, BuiltIs
  <2>3. /\ built' \in Seq(Singletons) /\ Len(built') = 7 /\ built'[1] = "Config"
        /\ built'[2] = "Tenants" /\ built'[3] = "Cpu" /\ built'[4] = "Memory"
        /\ built'[5] = "Disk" /\ built'[6] = "Monitor" /\ built'[7] = "Pool"
    <3>1. 1 = Len(built)
      BY <2>2
    <3>2. built' \in Seq(Singletons) /\ Len(built') = 1 + 6 /\ \A i \in 1..1 : built'[i] = built[i]
      BY <1>4a, <2>1, <2>2, <3>1, Zenon
    <3>3. /\ built'[1 + 1] = "Tenants" /\ built'[1 + 2] = "Cpu" /\ built'[1 + 3] = "Memory"
          /\ built'[1 + 4] = "Disk" /\ built'[1 + 5] = "Monitor" /\ built'[1 + 6] = "Pool"
      BY <1>4a, <2>1, <2>2, <3>1, Zenon
    <3>4. built'[1] = built[1]
      BY <3>2
    <3> QED  BY <2>2, <3>2, <3>3, <3>4
  <2>4. Len(Order[mode]) = 7 /\ \A i \in 1..7 : built'[i] = Order[mode][i]
    BY <1>7, <2>3 DEF Order, MainInv, Modes
  <2> QED  BY <1>1, <1>2, <1>7, <2>2, <2>3, <2>4 DEF BuiltInv
<1>8. CASE pc > 1 /\ ~(mode # "test" /\ pc = 2)
  <2>1. Singletons \ {"Config"} \subseteq ToSet(built)
    BY <1>1, <1>2, <1>8, BuiltIs DEF BuiltInv
  <2>2. mode # "test" => ToSet(built) = Singletons
    BY <1>1, <1>2, <1>8, BuiltIs DEF BuiltInv
  <2>3. mode = "test" => o \notin DOMAIN Uses
    <3>1. ASSUME mode = "test" PROVE o \in {Ops.test[i] : i \in 1..13}
      BY <1>1, <3>1, ProgramIs DEF At
    <3> QED  BY <3>1 DEF Ops, Uses
  <2>4. built' = built
    <3>1. CASE o = "create"
      BY <1>3, <1>4, <2>1, <3>1, UsedAllAgain
    <3>2. CASE o # "create" /\ o \in DOMAIN Uses
      <4>1. ToSet(built) = Singletons
        BY <2>2, <2>3, <3>2
      <4>2. Uses[o] \in Singletons
        BY <3>2 DEF Uses, Singletons
      <4> QED  BY <1>4, <3>2, <4>1, <4>2 DEF Used
    <3>3. CASE o # "create" /\ o \notin DOMAIN Uses
      BY <1>4, <3>3
    <3> QED  BY <3>1, <3>2, <3>3
  <2> QED  BY <1>1, <1>2, <1>3, <1>8, <2>4 DEF BuiltInv
<1> QED  BY <1>1, <1>2, <1>5, <1>6, <1>7, <1>8

(***************************************************************************)
(* The configuration.                                                      *)
(***************************************************************************)
\* What is read of the configuration is a number that the program can hold.
LEMMA ConfigTypes ==
  ASSUME ConfigInv
  PROVE  /\ Cgroup \in BOOLEAN /\ Threads \in 0..(SizeRange - 1)
         /\ Memory \in 0..(SizeRange - 1) /\ Disk \in 0..(SizeRange - 1)
<1>1. \A k, d : GetBool(k, d) \in BOOLEAN \cup {d}
  BY DEF GetBool
<1>2. ASSUME NEW k \in Keys, NEW d \in Int PROVE GetInt(k, d) \in Int
  <2>1. config[k] \subseteq Int
    BY DEF ConfigInv
  <2> QED  BY <2>1 DEF GetInt
<1>3. \A n \in Int : Size(n) \in 0..(SizeRange - 1)
  BY StartupAssumption DEF Size
<1>4. Cgroup \in BOOLEAN
  BY <1>1 DEF Cgroup
<1>5. /\ GetInt("total_threads", 120) \in Int /\ GetInt("total_memory_mb", 8192) \in Int
      /\ GetInt("total_disk_gb", 100) \in Int
  BY <1>2 DEF Keys
<1> QED  BY <1>3, <1>4, <1>5 DEF Threads, Memory, Disk

\* They read the same as long as the configuration stays.
LEMMA SameConfig ==
  ASSUME config' = config
  PROVE  /\ Cgroup' = Cgroup /\ Threads' = Threads /\ Memory' = Memory /\ Disk' = Disk
BY DEF Cgroup, Threads, Memory, Disk, Size, GetInt, GetBool

\* Every set of natural numbers that is not empty has a least element.
LEMMA Least ==
  ASSUME NEW S \in SUBSET Nat, S # {}
  PROVE  \E n \in S : \A m \in S : n <= m
<1>1. PICK n \in S : \A m \in S : <<m, n>> \notin OpToRel(<, Nat)
  BY NatLessThanWellFounded, WFMin, Zenon
<1>2. \A m \in S : ~(m < n)
  BY <1>1, Zenon DEF OpToRel
<1> QED  BY <1>2

\* The last of some places in a sequence is one of them.
LEMMA LastPlace ==
  ASSUME NEW n \in Nat, NEW S \in SUBSET (1..n), S # {}
  PROVE  Max(S) \in S
<1> DEFINE T == {m \in Nat : n - m \in S}
<1>1. T # {}
  <2>1. PICK i \in S : TRUE
    OBVIOUS
  <2>2. n - i \in Nat /\ n - (n - i) = i
    BY <2>1
  <2> QED  BY <2>1, <2>2
<1>2. PICK m \in T : \A k \in T : m <= k
  BY <1>1, Least
<1>3. ASSUME NEW i \in S PROVE n - m >= i
  <2>1. n - i \in Nat /\ n - (n - i) = i /\ m \in Nat /\ i \in Int
    OBVIOUS
  <2>2. n - i \in T
    BY <2>1
  <2> QED  BY <1>2, <2>1, <2>2
<1>4. n - m \in S
  OBVIOUS
<1> HIDE DEF T
<1> QED  BY <1>3, <1>4, Zenon DEF Max

\* Loading a file gives each key a value that it has in the file, or leaves it alone.
LEMMA Loaded ==
  ASSUME ConfigInv, NEW f \in Files
  PROVE  /\ Load(config, f) \in [Keys -> SUBSET Int]
         /\ \A k \in Keys : Cardinality(Load(config, f)[k]) <= 1
<1>1. /\ f \in Seq([key : STRING, value : SUBSET Int]) /\ Len(f) \in Nat
      /\ \A i \in 1..Len(f) : Cardinality(f[i].value) <= 1 /\ f[i].value \in SUBSET Int
      /\ DOMAIN f = 1..Len(f)
  <2> DEFINE Lines == [key : STRING, value : SUBSET Int]
  <2>1. f \in Seq(Lines) /\ \A i \in DOMAIN f : Cardinality(f[i].value) <= 1
    BY StartupAssumption
  <2>0. \A l \in Lines : l.value \in SUBSET Int
    OBVIOUS
  <2> HIDE DEF Lines
  <2>2. Len(f) \in Nat /\ DOMAIN f = 1..Len(f)
    BY <2>1
  <2>3. \A i \in 1..Len(f) : f[i] \in Lines
    BY <2>1
  <2>4. \A i \in 1..Len(f) : f[i].value \in SUBSET Int
    BY <2>0, <2>3
  <2> QED  BY <2>1, <2>2, <2>4 DEF Lines
<1> DEFINE places(k) == {i \in DOMAIN f : f[i].key = k}
           read(k)   == IF places(k) = {} THEN config[k] ELSE f[Max(places(k))].value
<1>2. Load(config, f) = [k \in Keys |-> read(k)]
  BY DEF Load
<1>3. ASSUME NEW k \in Keys PROVE read(k) \in SUBSET Int /\ Cardinality(read(k)) <= 1
  <2>1. CASE places(k) = {}
    <3>1. config[k] \in SUBSET Int /\ Cardinality(config[k]) <= 1
      BY DEF ConfigInv
    <3> QED  BY <2>1, <3>1
  <2>2. CASE places(k) # {}
    <3>1. places(k) \in SUBSET (1..Len(f))
      BY <1>1
    <3>2. Max(places(k)) \in places(k)
      BY <1>1, <2>2, <3>1, LastPlace
    <3>3. Max(places(k)) \in 1..Len(f)
      BY <3>1, <3>2
    <3>4. read(k) = f[Max(places(k))].value
      BY <2>2
    <3> HIDE DEF read, places
    <3> QED  BY <1>1, <3>3, <3>4
  <2> QED  BY <2>1, <2>2
<1> HIDE DEF read
<1> QED  BY <1>2, <1>3

(***************************************************************************)
(* A call of main that returns.                                            *)
(***************************************************************************)
\* Which call main makes where the server, the monitor or the managers change.
LEMMA WhichCall ==
  ASSUME MainInv, NEW o, At(o)
  PROVE  /\ mode # "test" /\ pc = 4 => o = "cpuInit"
         /\ mode # "test" /\ pc = 5 => o = "memoryInit"
         /\ (mode = "demo" /\ pc = 11) \/ (mode = "benchmark" /\ pc = 10) => o = "serverStart"
         /\ (mode = "demo" /\ pc = 14) \/ (mode = "benchmark" /\ pc = 13) => o = "serverStop"
         /\ mode = "benchmark" /\ pc = 12 => o = "clientsJoin"
         /\ (mode = "demo" /\ pc = 16) \/ (mode = "benchmark" /\ pc = 15) => o = "monitorJoin"
<1>1. mode = "demo" /\ pc \in 1..17 => o = Ops.demo[pc]
  BY ProgramIs DEF At
<1>2. mode = "benchmark" /\ pc \in 1..18 => o = Ops.benchmark[pc]
  BY ProgramIs DEF At
<1>3. /\ Ops.demo[4] = "cpuInit" /\ Ops.demo[5] = "memoryInit" /\ Ops.demo[11] = "serverStart"
      /\ Ops.demo[14] = "serverStop" /\ Ops.demo[16] = "monitorJoin"
      /\ Ops.benchmark[4] = "cpuInit" /\ Ops.benchmark[5] = "memoryInit"
      /\ Ops.benchmark[10] = "serverStart" /\ Ops.benchmark[12] = "clientsJoin"
      /\ Ops.benchmark[13] = "serverStop" /\ Ops.benchmark[15] = "monitorJoin"
  BY DEF Ops
<1> QED  BY <1>1, <1>2, <1>3 DEF MainInv, Modes

\* What the managers, the server and the monitor are in is as it was where they are not touched.
LEMMA Onward ==
  ASSUME IInv, NEW o, At(o), Done(o)
  PROVE  /\ MainInv' /\ BuiltInv' /\ mode' = mode /\ pc' = pc + 1 /\ pc \in Nat /\ ~Over
         /\ file' = file /\ Len(built') >= Len(built) /\ Len(built) \in Nat /\ Len(built') \in Nat
         /\ config' = config => ConfigInv'
         /\ UNCHANGED <<tenants, groups, monitored, served>> => NoTenants'
         /\ UNCHANGED <<cpu, memory, disk, pool, cpuCgroup>> => ManagersInv'
         /\ o \notin {"serverStart", "serverStop", "clientsJoin"} /\ UNCHANGED <<serving, clients>>
              => Served'
         /\ o \notin {"cpuInit", "memoryInit"} /\ UNCHANGED <<config, cpuCgroup, memory, pool>>
              => Agreed'
         /\ o # "monitorJoin" /\ UNCHANGED <<running, mon>> => Watched'
<1>0. /\ mode # "test" /\ pc = 4 => o = "cpuInit"
      /\ mode # "test" /\ pc = 5 => o = "memoryInit"
      /\ (mode = "demo" /\ pc = 11) \/ (mode = "benchmark" /\ pc = 10) => o = "serverStart"
      /\ (mode = "demo" /\ pc = 14) \/ (mode = "benchmark" /\ pc = 13) => o = "serverStop"
      /\ mode = "benchmark" /\ pc = 12 => o = "clientsJoin"
      /\ (mode = "demo" /\ pc = 16) \/ (mode = "benchmark" /\ pc = 15) => o = "monitorJoin"
  <2>1. MainInv
    BY DEF IInv
  <2> QED  BY <2>1, WhichCall
<1>1. /\ MainInv' /\ BuiltInv' /\ mode' = mode /\ pc' = pc + 1 /\ pc \in Nat /\ ~Over
      /\ Len(built') >= Len(built) /\ file' = file
  BY MainGoesOn DEF IInv, Done, input
<1>2. Len(built) \in Nat /\ Len(built') \in Nat
  <2>1. built \in Seq(Singletons) /\ built' \in Seq(Singletons)
    BY <1>1 DEF IInv, BuiltInv
  <2> QED  BY <2>1
<1>3. config' = config => ConfigInv'
  BY DEF IInv, ConfigInv
<1>4. UNCHANGED <<tenants, groups, monitored, served>> => NoTenants'
  BY DEF IInv, NoTenants
<1>5. UNCHANGED <<cpu, memory, disk, pool, cpuCgroup>> => ManagersInv'
  BY DEF IInv, ManagersInv
<1>6. ASSUME o \notin {"serverStart", "serverStop", "clientsJoin"}, UNCHANGED <<serving, clients>>
      PROVE  Served'
  <2>1. mode \in Modes
    BY DEF IInv, MainInv
  <2>2. /\ ~(mode = "demo" /\ pc \in {11, 14}) /\ ~(mode = "benchmark" /\ pc \in {10, 12, 13})
    BY <1>0, <1>6
  <2>3. pc + 1 \in ServerUp[mode] <=> pc \in ServerUp[mode]
    BY <1>1, <2>1, <2>2 DEF ServerUp, Modes
  <2>4. clients = 0
    BY <2>2 DEF IInv, Served
  <2> QED  BY <1>1, <1>6, <2>3, <2>4 DEF IInv, Served
<1>7. ASSUME o \notin {"cpuInit", "memoryInit"}, UNCHANGED <<config, cpuCgroup, memory, pool>>
      PROVE  Agreed'
  <2>1. ~(mode # "test" /\ pc \in {4, 5})
    BY <1>0, <1>7
  <2>2. Cgroup' = Cgroup /\ Memory' = Memory /\ Threads' = Threads
    BY <1>7, SameConfig
  <2> QED  BY <1>1, <1>7, <2>1, <2>2 DEF IInv, Agreed
<1>8. ASSUME o # "monitorJoin", UNCHANGED <<running, mon>>
      PROVE  Watched'
  <2>1. mode \in Modes
    BY DEF IInv, MainInv
  <2>2. /\ ~(mode = "demo" /\ pc = 16) /\ ~(mode = "benchmark" /\ pc = 15)
    BY <1>0, <1>8
  <2>3. pc \in MonitorUp[mode] => pc + 1 \in MonitorUp[mode]
    BY <1>1, <2>1, <2>2 DEF MonitorUp, Modes
  <2> QED  BY <1>1, <1>2, <1>8, <2>3 DEF IInv, Watched, Joinable
<1> QED  BY <1>1, <1>2, <1>3, <1>4, <1>5, <1>6, <1>7, <1>8

(***************************************************************************)
(* The calls.                                                              *)
(***************************************************************************)
LEMMA InitIInv == Init => IInv
<1> SUFFICES ASSUME Init PROVE IInv
  OBVIOUS
<1>1. mode \in Modes /\ pc = 1 /\ MainInv
  <2>1. mode \in Modes
    BY ProgramIs DEF Init
  <2>2. Len(Program[mode]) \in Nat
    BY <2>1, ProgramIs DEF Modes
  <2> QED  BY <2>1, <2>2 DEF Init, MainInv
<1>2. ConfigInv
  <2>1. Cardinality({}) = 0
    BY FS_EmptySet
  <2>2. \A k \in Keys : config[k] = {}
    BY DEF Init, Nobody
  <2> QED  BY <2>1, <2>2 DEF Init, Nobody, ConfigInv
<1>3. NoTenants /\ ManagersInv
  <2>1. DOMAIN cpu = {}
    BY DEF Init
  <2>2. 0 \in 0..(SizeRange - 1)
    BY StartupAssumption
  <2>3. pool \in [ready : BOOLEAN, cgroup : BOOLEAN, total : 0..(SizeRange - 1)]
    BY <2>2 DEF Init
  <2> QED  BY <2>1, <2>2, <2>3 DEF Init, NoTenants, ManagersInv
<1>4. Served
  <2>1. pc \notin ServerUp[mode]
    BY <1>1 DEF ServerUp, Modes
  <2>2. serving = FALSE /\ clients = 0 /\ clients \in 0..ClientThreads
    BY StartupAssumption DEF Init
  <2>3. serving \in BOOLEAN /\ ~serving
    BY <2>2, Zenon
  <2>4. ~(clients > 0)
    BY <2>2
  <2> QED  BY <2>1, <2>2, <2>3, <2>4, Zenon DEF Served
<1>5. Agreed /\ Watched
  <2>1. pool.ready = FALSE /\ running = FALSE /\ mon = "none"
    BY DEF Init
  <2>2. ~pool.ready /\ running \in BOOLEAN
    BY <2>1, Zenon
  <2>3. Agreed
    BY <1>1, <2>2 DEF Agreed
  <2>4. Watched
    BY <2>1, <2>2 DEF Watched, Joinable
  <2> QED  BY <2>3, <2>4
<1>6. BuiltInv
  <2>1. Len(Order[mode]) \in {6, 7}
    BY <1>1 DEF Order, Modes
  <2>2. built = <<>>
    BY DEF Init
  <2>3. built \in Seq(Singletons) /\ Len(built) = 0
    BY <2>2
  <2> QED  BY <1>1, <2>1, <2>3 DEF BuiltInv
<1> QED  BY <1>1, <1>2, <1>3, <1>4, <1>5, <1>6 DEF IInv

LEMMA LoadConfigIInv == ASSUME IInv, LoadConfig PROVE IInv'
<1>1. At("load") /\ Done("load") /\ mode # "test" /\ pc = 1
  BY Where DEF LoadConfig, IInv
<1>2. /\ MainInv' /\ BuiltInv' /\ pc' = pc + 1 /\ mode' = mode
      /\ NoTenants' /\ ManagersInv' /\ Served' /\ Watched'
  BY <1>1, Onward DEF LoadConfig, shares, records, threads
<1>3. ConfigInv'
  <2>1. ConfigInv /\ file \in Files \cup {NoFile}
    BY DEF IInv, MainInv
  <2>2. CASE file # NoFile
    <3>1. config' = Load(config, file) /\ file \in Files
      BY <2>1, <2>2 DEF LoadConfig
    <3> QED  BY <2>1, <3>1, Loaded DEF ConfigInv
  <2>3. CASE file = NoFile
    <3>1. \A n : Cardinality({n}) = 1
      BY FS_Singleton
    <3>2. \/ config' = [config EXCEPT !["enable_cgroup"] = {0}, !["total_threads"] = {120}]
          \/ config' = config
      BY <2>3 DEF LoadConfig
    <3>3. ASSUME NEW c, c = [config EXCEPT !["enable_cgroup"] = {0}, !["total_threads"] = {120}]
          PROVE  c \in [Keys -> SUBSET Int] /\ \A k \in Keys : Cardinality(c[k]) <= 1
      <4>1. config \in [Keys -> SUBSET Int] /\ \A k \in Keys : Cardinality(config[k]) <= 1
        BY <2>1 DEF ConfigInv
      <4>2. c = [k \in Keys |-> IF k = "total_threads" THEN {120}
                                ELSE IF k = "enable_cgroup" THEN {0} ELSE config[k]]
        BY <3>3, <4>1
      <4>3. \A k \in Keys : c[k] = {0} \/ c[k] = {120} \/ c[k] = config[k]
        BY <4>2
      <4>4. \A k \in Keys : c[k] \in SUBSET Int
        BY <4>1, <4>3
      <4>5. \A k \in Keys : Cardinality(c[k]) <= 1
        <5>1. Cardinality({0}) <= 1 /\ Cardinality({120}) <= 1
          BY <3>1
        <5> QED  BY <4>1, <4>3, <5>1, Zenon
      <4>6. c \in [Keys -> SUBSET Int]
        BY <4>2, <4>4
      <4> QED  BY <4>5, <4>6
    <3> QED  BY <2>1, <3>2, <3>3 DEF ConfigInv
  <2> QED  BY <2>2, <2>3
<1>4. Agreed'
  BY <1>1, <1>2 DEF Agreed, IInv, LoadConfig
<1> QED  BY <1>2, <1>3, <1>4 DEF IInv

\* The pool is not initialised when createTenant is called, in any mode.
LEMMA CreateTenantIInv == ASSUME IInv, CreateTenant PROVE IInv'
<1>1. At("create") /\ Done("create") /\ ~pool.ready
  BY Where DEF CreateTenant, IInv, Agreed
<1>2. /\ UNCHANGED <<config, tenants, groups, cpu, monitored, cpuCgroup, pool, serving, served,
                     clients, running, mon>>
      /\ \/ memory' = [memory EXCEPT !.tenants = @ \ {Tenant}]
         \/ memory' = memory
      /\ \/ disk' = [disk EXCEPT !.tenants = @ \ {Tenant}]
         \/ disk' = disk
  BY <1>1 DEF CreateTenant, threads
<1>3. /\ MainInv' /\ BuiltInv' /\ pc' = pc + 1 /\ pc \in Nat /\ mode' = mode /\ ConfigInv' /\ NoTenants'
      /\ Served' /\ Watched'
  BY <1>1, <1>2, Onward
<1>4. ManagersInv' /\ memory'.total = memory.total
  <2>1. ManagersInv
    BY DEF IInv
  <2>2. memory' \in [total : 0..(SizeRange - 1), tenants : SUBSET Names] /\ memory'.tenants = {}
        /\ memory'.total = memory.total
    BY <1>2, <2>1 DEF ManagersInv
  <2>3. disk' \in [total : 0..(SizeRange - 1), tenants : SUBSET Names] /\ disk'.tenants = {}
    BY <1>2, <2>1 DEF ManagersInv
  <2> QED  BY <1>2, <2>1, <2>2, <2>3 DEF ManagersInv
<1>5. Agreed'
  <2>1. mode # "test" => pc < 4
    BY <1>1, Where DEF IInv
  <2> QED  BY <1>1, <1>2, <1>3, <2>1 DEF Agreed
<1> QED  BY <1>3, <1>4, <1>5 DEF IInv

LEMMA RemoveTenantIInv == ASSUME IInv, RemoveTenant PROVE IInv'
<1>1. At("remove") /\ Done("remove") /\ tenants = {}
  BY DEF RemoveTenant, IInv, NoTenants
<1>2. UNCHANGED <<tenants, groups, cpu, memory, disk, monitored, config, cpuCgroup, pool, serving,
                  served, clients, running, mon>>
  BY <1>1 DEF RemoveTenant, threads, shares
<1> QED  BY <1>1, <1>2, Onward DEF IInv

LEMMA LookupIInv == ASSUME IInv, Lookup PROVE IInv'
<1>1. /\ At("lookup") /\ Done("lookup")
      /\ UNCHANGED <<tenants, groups, cpu, memory, disk, monitored, config, cpuCgroup, pool,
                     serving, served, clients, running, mon>>
  BY DEF Lookup, threads, shares
<1> QED  BY <1>1, Onward DEF IInv

LEMMA CheckQuotaIInv == ASSUME IInv, CheckQuota PROVE IInv'
<1>1. /\ At("check") /\ Done("check")
      /\ UNCHANGED <<tenants, groups, cpu, memory, disk, monitored, config, cpuCgroup, pool,
                     serving, served, clients, running, mon>>
  BY DEF CheckQuota, threads, shares
<1> QED  BY <1>1, Onward DEF IInv

LEMMA UpdateUsageIInv == ASSUME IInv, UpdateUsage PROVE IInv'
<1>1. /\ At("update") /\ Done("update") /\ mode = "test" /\ pc = 11
      /\ UNCHANGED <<tenants, groups, memory, disk, monitored, config, cpuCgroup, pool,
                     serving, served, clients, running, mon>>
      /\ cpu' = [u \in DOMAIN cpu \cup {Tenant} |-> IF u = Tenant THEN 60 ELSE cpu[u]]
  BY Where DEF UpdateUsage, threads, IInv
<1>2. Tenant \in Names
  BY <1>1, ProgramIs DEF Tenant
<1>3. ManagersInv'
  BY <1>1, <1>2 DEF IInv, ManagersInv
<1> QED  BY <1>1, <1>3, Onward DEF IInv

LEMMA InitializeCpuIInv == ASSUME IInv, InitializeCpu PROVE IInv'
<1>1. /\ At("cpuInit") /\ Done("cpuInit") /\ mode # "test" /\ pc = 4 /\ cpuCgroup' = Cgroup
      /\ UNCHANGED <<tenants, groups, cpu, memory, disk, monitored, config, pool,
                     serving, served, clients, running, mon>>
  BY Where DEF InitializeCpu, threads, records, shares, IInv
<1>2. /\ MainInv' /\ BuiltInv' /\ pc' = pc + 1 /\ mode' = mode /\ ConfigInv' /\ NoTenants'
      /\ Served' /\ Watched'
  BY <1>1, Onward
<1>3. Cgroup \in BOOLEAN /\ Cgroup' = Cgroup
  BY <1>1, ConfigTypes, SameConfig DEF IInv
<1>4. ManagersInv' /\ Agreed'
  BY <1>1, <1>2, <1>3 DEF IInv, ManagersInv, Agreed
<1> QED  BY <1>2, <1>4 DEF IInv

LEMMA InitializeMemoryIInv == ASSUME IInv, InitializeMemory PROVE IInv'
<1>1. /\ At("memoryInit") /\ Done("memoryInit") /\ mode # "test" /\ pc = 5
      /\ memory' = [total |-> Memory, tenants |-> {}]
      /\ UNCHANGED <<tenants, groups, cpu, disk, monitored, config, cpuCgroup, pool,
                     serving, served, clients, running, mon>>
  BY Where DEF InitializeMemory, threads, records, IInv
<1>2. /\ MainInv' /\ BuiltInv' /\ pc' = pc + 1 /\ mode' = mode /\ ConfigInv' /\ NoTenants'
      /\ Served' /\ Watched'
  BY <1>1, Onward
<1>3. Memory \in 0..(SizeRange - 1) /\ Memory' = Memory /\ Cgroup' = Cgroup
  BY <1>1, ConfigTypes, SameConfig DEF IInv
<1>4. ManagersInv' /\ Agreed'
  BY <1>1, <1>2, <1>3 DEF IInv, ManagersInv, Agreed
<1> QED  BY <1>2, <1>4 DEF IInv

LEMMA InitializeDiskIInv == ASSUME IInv, InitializeDisk PROVE IInv'
<1>1. /\ At("diskInit") /\ Done("diskInit")
      /\ disk' = [total |-> Disk, tenants |-> {}]
      /\ UNCHANGED <<tenants, groups, cpu, memory, monitored, config, cpuCgroup, pool,
                     serving, served, clients, running, mon>>
  BY DEF InitializeDisk, threads, records
<1>2. Disk \in 0..(SizeRange - 1)
  BY ConfigTypes DEF IInv
<1>3. ManagersInv'
  BY <1>1, <1>2 DEF IInv, ManagersInv
<1> QED  BY <1>1, <1>3, Onward DEF IInv

\* The data server sets the size of its own accord.
LEMMA InitializeDataServerIInv == ASSUME IInv, InitializeDataServer PROVE IInv'
<1>1. /\ At("dataInit") /\ Done("dataInit")
      /\ disk' = [total |-> 100, tenants |-> {}]
      /\ UNCHANGED <<tenants, groups, cpu, memory, monitored, config, cpuCgroup, pool,
                     serving, served, clients, running, mon>>
  BY DEF InitializeDataServer, threads, records
<1>2. ManagersInv'
  BY <1>1, StartupAssumption DEF IInv, ManagersInv
<1> QED  BY <1>1, <1>2, Onward DEF IInv

LEMMA StartMonitoringIInv == ASSUME IInv, StartMonitoring PROVE IInv'
<1>0. /\ At("monitorStart") /\ Done("monitorStart")
      /\ UNCHANGED <<tenants, groups, cpu, memory, disk, monitored, config, cpuCgroup, pool,
                     serving, served, clients>>
  BY DEF StartMonitoring, records, shares
<1>1. /\ <<mode, pc>> \in {<<"demo", 7>>, <<"benchmark", 8>>}
      /\ running' = TRUE /\ mon' \in {mon, "check"}
  BY Where DEF StartMonitoring, IInv, Watched
<1>2. /\ MainInv' /\ BuiltInv' /\ pc' = pc + 1 /\ mode' = mode /\ ConfigInv' /\ NoTenants'
      /\ ManagersInv' /\ Served' /\ Agreed' /\ ~Over
      /\ Len(built') >= Len(built) /\ Len(built) \in Nat /\ Len(built') \in Nat
  BY <1>0, Onward
<1>3. Len(built) = 7
  BY <1>1, <1>2 DEF IInv, BuiltInv
<1>4. pc' \in MonitorUp[mode] /\ mode # "test"
  BY <1>1, <1>2 DEF MonitorUp
<1>5. Watched'
  BY <1>1, <1>2, <1>3, <1>4 DEF IInv, Watched, Joinable
<1> QED  BY <1>2, <1>5 DEF IInv

\* What initialising the pool leaves, when it succeeds or is done before and when it fails.
LEMMA PoolTypes ==
  ASSUME IInv, NEW ok \in BOOLEAN, PoolInitialized(ok), config' = config, pc > 6, mode # "test",
         mode' = mode, pc' > 7, cpuCgroup' \in {cpuCgroup, Cgroup}
  PROVE  /\ pool' \in [ready : BOOLEAN, cgroup : BOOLEAN, total : 0..(SizeRange - 1)]
         /\ pool'.ready => pool'.cgroup = Cgroup' /\ pool'.total = Threads'
         /\ cpuCgroup' \in BOOLEAN /\ cpuCgroup' = Cgroup'
<1>1. /\ Cgroup \in BOOLEAN /\ Threads \in 0..(SizeRange - 1) /\ Cgroup' = Cgroup
      /\ Threads' = Threads
  BY ConfigTypes, SameConfig DEF IInv
<1>2. /\ pool \in [ready : BOOLEAN, cgroup : BOOLEAN, total : 0..(SizeRange - 1)]
      /\ pool.ready => pool.cgroup = Cgroup /\ pool.total = Threads
      /\ cpuCgroup = Cgroup
  BY DEF IInv, ManagersInv, Agreed, MainInv
<1>3. CASE pool.ready
  <2>1. pool' = pool
    BY <1>3 DEF PoolInitialized
  <2> QED  BY <1>1, <1>2, <2>1
<1>4. CASE ~pool.ready
  <2>1. pool' = [ready |-> ok, cgroup |-> Cgroup, total |-> Threads]
    BY <1>4 DEF PoolInitialized
  <2> QED  BY <1>1, <1>2, <2>1
<1> QED  BY <1>3, <1>4

\* A call that fails ends main, in the demo and before the server is started.
LEMMA Failed ==
  ASSUME IInv, NEW o \in {"poolInit", "sqlInit"}, At(o), Fail(o), mode # "benchmark",
         UNCHANGED <<tenants, groups, monitored, served, config, serving, clients, running, mon>>
  PROVE  /\ MainInv' /\ BuiltInv' /\ ConfigInv' /\ NoTenants' /\ Served' /\ Watched'
         /\ mode' = mode /\ pc' > 7 /\ pc > 6 /\ mode # "test"
<1>1. MainInv /\ mode = "demo" /\ pc \in {8, 9}
  BY Where DEF IInv, MainInv, Modes
<1>2. mode' = mode /\ file' = file /\ code' = 1 /\ pc' = 18 /\ Len(Program[mode]) = 17
  BY <1>1, ProgramIs DEF Fail, input
<1>3. MainInv' /\ Over'
  BY <1>1, <1>2 DEF MainInv, Over
<1>4. built' = built
  <2>1. Len(built) = 7
    BY <1>1, <1>2 DEF IInv, BuiltInv, Over
  <2>2. ToSet(built) = Singletons
    BY <1>1, <2>1, BuiltIs DEF IInv
  <2>3. built' = IF o \in DOMAIN Uses THEN Used(built, Uses[o]) ELSE built
    BY DEF Fail, Construct
  <2>4. o \in DOMAIN Uses => Uses[o] \in Singletons
    BY DEF Uses, Singletons
  <2> QED  BY <2>2, <2>3, <2>4 DEF Used
<1>5. BuiltInv'
  BY <1>2, <1>3, <1>4 DEF IInv, BuiltInv
<1>6. ConfigInv' /\ NoTenants'
  BY DEF IInv, ConfigInv, NoTenants
<1>7. Served'
  <2>1. pc \notin ServerUp[mode] /\ pc' \notin ServerUp[mode]
    BY <1>1, <1>2 DEF ServerUp
  <2> QED  BY <1>1, <1>2, <2>1 DEF IInv, Served
<1>8. Watched'
  BY <1>2, <1>3, <1>4 DEF IInv, Watched, Joinable
<1> QED  BY <1>1, <1>2, <1>3, <1>5, <1>6, <1>7, <1>8

LEMMA InitializePoolIInv == ASSUME IInv, InitializePool PROVE IInv'
<1>1. PICK ok \in BOOLEAN :
        /\ PoolInitialized(ok)
        /\ IF ok \/ mode = "benchmark" THEN Done("poolInit") ELSE Fail("poolInit")
  BY DEF InitializePool
<1>2. /\ At("poolInit") /\ <<mode, pc>> \in {<<"demo", 8>>, <<"benchmark", 7>>}
      /\ UNCHANGED <<tenants, groups, cpu, memory, disk, monitored, config, cpuCgroup,
                     serving, served, clients, running, mon>>
  BY Where DEF InitializePool, records, shares, threads, IInv
<1>3. /\ MainInv' /\ BuiltInv' /\ ConfigInv' /\ NoTenants' /\ Served' /\ Watched'
      /\ mode' = mode /\ pc' > 7 /\ pc > 6 /\ mode # "test"
  <2>1. CASE ok \/ mode = "benchmark"
    BY <1>1, <1>2, <2>1, Onward
  <2>2. CASE ~(ok \/ mode = "benchmark")
    BY <1>1, <1>2, <2>2, Failed
  <2> QED  BY <2>1, <2>2
<1>4. /\ pool' \in [ready : BOOLEAN, cgroup : BOOLEAN, total : 0..(SizeRange - 1)]
      /\ pool'.ready => pool'.cgroup = Cgroup' /\ pool'.total = Threads'
      /\ cpuCgroup' \in BOOLEAN /\ cpuCgroup' = Cgroup'
  BY <1>1, <1>2, <1>3, PoolTypes
<1>5. ManagersInv'
  BY <1>2, <1>4 DEF IInv, ManagersInv
<1>6. Agreed'
  <2>1. Memory' = Memory /\ memory.total = Memory
    BY <1>2, <1>3, SameConfig DEF IInv, Agreed
  <2> QED  BY <1>2, <1>3, <1>4, <2>1 DEF Agreed
<1> QED  BY <1>3, <1>5, <1>6 DEF IInv

LEMMA InitializeSqlServerIInv == ASSUME IInv, InitializeSqlServer PROVE IInv'
<1>1. PICK ok \in BOOLEAN :
        /\ PoolInitialized(ok)
        /\ IF ok \/ mode = "benchmark" THEN Done("sqlInit") ELSE Fail("sqlInit")
        /\ cpuCgroup' = IF ok THEN Cgroup ELSE cpuCgroup
        /\ memory' = IF ok THEN [total |-> Memory, tenants |-> {}] ELSE memory
  BY DEF InitializeSqlServer
<1>2. /\ At("sqlInit") /\ mode # "test" /\ pc = 9
      /\ UNCHANGED <<tenants, groups, cpu, disk, monitored, config,
                     serving, served, clients, running, mon>>
  BY Where DEF InitializeSqlServer, records, threads, IInv
<1>3. /\ MainInv' /\ BuiltInv' /\ ConfigInv' /\ NoTenants' /\ Served' /\ Watched'
      /\ mode' = mode /\ pc' > 7 /\ pc > 6 /\ mode # "test"
  <2>1. CASE ok \/ mode = "benchmark"
    BY <1>1, <1>2, <2>1, Onward
  <2>2. CASE ~(ok \/ mode = "benchmark")
    BY <1>1, <1>2, <2>2, Failed
  <2> QED  BY <2>1, <2>2
<1>4. /\ pool' \in [ready : BOOLEAN, cgroup : BOOLEAN, total : 0..(SizeRange - 1)]
      /\ pool'.ready => pool'.cgroup = Cgroup' /\ pool'.total = Threads'
      /\ cpuCgroup' \in BOOLEAN /\ cpuCgroup' = Cgroup'
  BY <1>1, <1>2, <1>3, PoolTypes
<1>5. /\ Memory' = Memory /\ memory.total = Memory /\ Memory \in 0..(SizeRange - 1)
      /\ ManagersInv
  BY <1>2, SameConfig, ConfigTypes DEF IInv, Agreed
<1>6. /\ memory' \in [total : 0..(SizeRange - 1), tenants : SUBSET Names]
      /\ memory'.tenants = {} /\ memory'.total = Memory
  BY <1>1, <1>5 DEF ManagersInv
<1>7. ManagersInv'
  BY <1>2, <1>4, <1>5, <1>6 DEF ManagersInv
<1>8. Agreed'
  BY <1>3, <1>4, <1>5, <1>6 DEF Agreed
<1> QED  BY <1>3, <1>7, <1>8 DEF IInv

LEMMA StartServerIInv == ASSUME IInv, StartServer PROVE IInv'
<1>1. /\ At("serverStart") /\ Done("serverStart")
      /\ UNCHANGED <<tenants, groups, cpu, memory, disk, monitored, config, cpuCgroup, pool,
                     served, clients, running, mon>>
  BY DEF StartServer, records, shares, threads
<1>2. /\ MainInv' /\ BuiltInv' /\ pc' = pc + 1 /\ mode' = mode /\ ConfigInv' /\ NoTenants'
      /\ ManagersInv' /\ Agreed' /\ Watched'
  BY <1>1, Onward
<1>3. /\ <<mode, pc>> \in {<<"demo", 11>>, <<"benchmark", 10>>} /\ serving' = TRUE
      /\ clients' = clients
  BY Where DEF StartServer, threads, IInv
<1>4. pc' \in ServerUp[mode] /\ clients = 0 /\ clients \in 0..ClientThreads
  BY <1>2, <1>3 DEF IInv, Served, ServerUp
<1>5. Served'
  BY <1>2, <1>3, <1>4 DEF Served
<1> QED  BY <1>2, <1>5 DEF IInv

LEMMA StopServerIInv == ASSUME IInv, StopServer PROVE IInv'
<1>1. /\ At("serverStop") /\ Done("serverStop")
      /\ UNCHANGED <<tenants, cpu, memory, disk, monitored, config, cpuCgroup, served,
                     clients, running, mon>>
      /\ groups' \in {groups, {}}
      /\ pool' = [pool EXCEPT !.ready = FALSE] \/ pool' = pool
  BY DEF StopServer, PoolDown, records, shares, threads
<1>2. groups' = groups
  BY <1>1 DEF IInv, NoTenants
<1>3. /\ MainInv' /\ BuiltInv' /\ pc' = pc + 1 /\ mode' = mode /\ pc \in Nat /\ ConfigInv'
      /\ NoTenants' /\ Watched'
  BY <1>1, <1>2, Onward
<1>4. <<mode, pc>> \in {<<"demo", 14>>, <<"benchmark", 13>>} /\ serving' = FALSE
  BY Where DEF StopServer, IInv
<1>5. /\ pool' \in [ready : BOOLEAN, cgroup : BOOLEAN, total : 0..(SizeRange - 1)]
      /\ pool'.ready => pool' = pool
  BY <1>1 DEF IInv, ManagersInv
<1>6. ManagersInv'
  BY <1>1, <1>5 DEF IInv, ManagersInv
<1>7. Agreed'
  BY <1>1, <1>3, <1>4, <1>5, SameConfig DEF IInv, Agreed
<1>8. Served'
  <2>1. pc' \notin ServerUp[mode] /\ clients' = 0 /\ clients' \in 0..ClientThreads
    BY <1>1, <1>3, <1>4 DEF IInv, Served, ServerUp
  <2>2. serving' \in BOOLEAN /\ ~serving'
    BY <1>4, Zenon
  <2> QED  BY <1>3, <2>1, <2>2 DEF Served
<1> QED  BY <1>3, <1>6, <1>7, <1>8 DEF IInv

LEMMA StopPoolIInv == ASSUME IInv, StopPool PROVE IInv'
<1>1. /\ At("poolStop") /\ Done("poolStop")
      /\ UNCHANGED <<tenants, cpu, memory, disk, monitored, config, cpuCgroup, serving, served,
                     clients, running, mon>>
      /\ groups' \in {groups, {}} /\ pool' = [pool EXCEPT !.ready = FALSE]
  BY DEF StopPool, PoolDown, records, shares, threads
<1>2. groups' = groups
  BY <1>1 DEF IInv, NoTenants
<1>3. /\ MainInv' /\ BuiltInv' /\ pc' = pc + 1 /\ mode' = mode /\ pc \in Nat /\ ConfigInv'
      /\ NoTenants' /\ Served' /\ Watched'
  BY <1>1, <1>2, Onward
<1>4. <<mode, pc>> \in {<<"demo", 17>>, <<"benchmark", 16>>}
  BY Where DEF StopPool, IInv
<1>5. /\ pool' \in [ready : BOOLEAN, cgroup : BOOLEAN, total : 0..(SizeRange - 1)]
      /\ ~pool'.ready
  BY <1>1 DEF IInv, ManagersInv
<1>6. ManagersInv'
  BY <1>1, <1>5 DEF IInv, ManagersInv
<1>7. Agreed'
  BY <1>1, <1>3, <1>4, <1>5, SameConfig DEF IInv, Agreed
<1> QED  BY <1>3, <1>6, <1>7 DEF IInv

\* There are no requests of tenants: no tenant is there.
LEMMA RequestsIInv == ASSUME IInv, Requests PROVE IInv'
<1>1. At("requests") /\ Done("requests") /\ Handled(Tenant)
      /\ UNCHANGED <<tenants, groups, cpu, memory, disk, monitored, config, cpuCgroup, pool,
                     serving, clients, running, mon>>
  BY DEF Requests, shares, threads
<1>2. served' = served
  BY <1>1 DEF Handled, IInv, NoTenants
<1> QED  BY <1>1, <1>2, Onward DEF IInv

LEMMA StartClientsIInv == ASSUME IInv, StartClients PROVE IInv'
<1>1. /\ At("clientsStart") /\ Done("clientsStart")
      /\ UNCHANGED <<tenants, groups, cpu, memory, disk, monitored, config, cpuCgroup, pool,
                     serving, served, running, mon>>
  BY DEF StartClients, shares, records
<1>2. /\ MainInv' /\ BuiltInv' /\ pc' = pc + 1 /\ mode' = mode /\ ConfigInv' /\ NoTenants'
      /\ ManagersInv' /\ Agreed' /\ Watched'
  BY <1>1, Onward
<1>3. mode = "benchmark" /\ pc = 11 /\ clients' = ClientThreads /\ serving' = serving
  BY Where DEF StartClients, IInv
<1>4. pc \in ServerUp[mode] /\ pc' \in ServerUp[mode]
  BY <1>2, <1>3 DEF ServerUp
<1>5. Served'
  BY <1>2, <1>3, <1>4, StartupAssumption DEF IInv, Served
<1> QED  BY <1>2, <1>5 DEF IInv

LEMMA JoinClientsIInv == ASSUME IInv, JoinClients PROVE IInv'
<1>1. /\ At("clientsJoin") /\ Done("clientsJoin") /\ clients = 0
      /\ UNCHANGED <<tenants, groups, cpu, memory, disk, monitored, config, cpuCgroup, pool,
                     serving, served, clients, running, mon>>
  BY DEF JoinClients, shares, records, threads
<1>2. /\ MainInv' /\ BuiltInv' /\ pc' = pc + 1 /\ mode' = mode /\ ConfigInv' /\ NoTenants'
      /\ ManagersInv' /\ Agreed' /\ Watched'
  BY <1>1, Onward
<1>3. mode = "benchmark" /\ pc = 12
  BY <1>1, Where DEF IInv
<1>4. pc \in ServerUp[mode] /\ pc' \in ServerUp[mode]
  BY <1>2, <1>3 DEF ServerUp
<1>5. Served'
  BY <1>1, <1>2, <1>3, <1>4 DEF IInv, Served
<1> QED  BY <1>2, <1>5 DEF IInv

LEMMA SignalMonitorIInv == ASSUME IInv, SignalMonitor PROVE IInv'
<1>1. /\ At("monitorSignal") /\ Done("monitorSignal")
      /\ UNCHANGED <<tenants, groups, cpu, memory, disk, monitored, config, cpuCgroup, pool,
                     serving, served, clients>>
  BY DEF SignalMonitor, shares, records
<1>2. /\ MainInv' /\ BuiltInv' /\ pc' = pc + 1 /\ mode' = mode /\ ConfigInv' /\ NoTenants'
      /\ ManagersInv' /\ Served' /\ Agreed' /\ ~Over
      /\ Len(built') >= Len(built) /\ Len(built) \in Nat /\ Len(built') \in Nat
  BY <1>1, Onward
<1>3. <<mode, pc>> \in {<<"demo", 15>>, <<"benchmark", 14>>} /\ running' = FALSE /\ mon' = mon
  BY Where DEF SignalMonitor, IInv
<1>4. pc' \in MonitorUp[mode]
  BY <1>2, <1>3 DEF MonitorUp
<1>5. Watched'
  <2>1. running' \in BOOLEAN
    BY <1>3, Zenon
  <2>2. mon' \in {"none", "check", "pass", "ended", "joined"}
    BY <1>3 DEF IInv, Watched
  <2>3. Joinable' => mode # "test" /\ Len(built) >= 6
    BY <1>3 DEF IInv, Watched, Joinable
  <2> QED  BY <1>2, <1>4, <2>1, <2>2, <2>3 DEF Watched
<1> QED  BY <1>2, <1>5 DEF IInv

LEMMA JoinMonitorIInv == ASSUME IInv, JoinMonitor PROVE IInv'
<1>1. /\ At("monitorJoin") /\ Done("monitorJoin")
      /\ UNCHANGED <<tenants, groups, cpu, memory, disk, monitored, config, cpuCgroup, pool,
                     serving, served, clients>>
  BY DEF JoinMonitor, shares, records
<1>2. /\ MainInv' /\ BuiltInv' /\ pc' = pc + 1 /\ mode' = mode /\ ConfigInv' /\ NoTenants'
      /\ ManagersInv' /\ Served' /\ Agreed'
  BY <1>1, Onward
<1>3. mon' \in {"none", "joined"} /\ running' = running
  BY DEF JoinMonitor
<1>4. Watched'
  BY <1>2, <1>3 DEF IInv, Watched, Joinable
<1> QED  BY <1>2, <1>4 DEF IInv

(***************************************************************************)
(* The other threads, and the end.                                         *)
(***************************************************************************)
\* Steps that leave main, the configuration and the tenants alone.
LEMMA MainWaits ==
  ASSUME IInv, UNCHANGED <<mode, file, pc, code, config, tenants, memory, disk, monitored,
                           cpuCgroup, serving>>
  PROVE  /\ MainInv' /\ ConfigInv' /\ (Over' <=> Over)
         /\ groups' = groups /\ served' = served => NoTenants'
         /\ cpu' = cpu /\ pool' = pool => ManagersInv'
         /\ clients' = clients => Served'
         /\ pool' = pool => Agreed'
         /\ built' = built => BuiltInv'
         /\ UNCHANGED <<running, mon, built>> => Watched'
<1>1. MainInv' /\ ConfigInv' /\ (Over' <=> Over)
  BY DEF IInv, MainInv, ConfigInv, Over
<1>2. groups' = groups /\ served' = served => NoTenants'
  BY DEF IInv, NoTenants
<1>3. cpu' = cpu /\ pool' = pool => ManagersInv'
  BY DEF IInv, ManagersInv
<1>4. clients' = clients => Served'
  BY DEF IInv, Served
<1>5. pool' = pool => Agreed'
  BY SameConfig DEF IInv, Agreed
<1>6. built' = built => BuiltInv'
  BY DEF IInv, BuiltInv, Over
<1>7. UNCHANGED <<running, mon, built>> => Watched'
  BY DEF IInv, Watched, Over, Joinable
<1> QED  BY <1>1, <1>2, <1>3, <1>4, <1>5, <1>6, <1>7

LEMMA MonitorCheckIInv == ASSUME IInv, MonitorCheck PROVE IInv'
<1>1. /\ UNCHANGED <<mode, file, pc, code, config, tenants, cpu, memory, disk, monitored,
                     cpuCgroup, pool, groups, serving, served, clients, running, built>>
      /\ mon = "check" /\ mon' \in {"pass", "ended"}
  BY DEF MonitorCheck, input, shares, records
<1>2. Watched'
  BY <1>1 DEF IInv, Watched, Over, Joinable
<1> QED  BY <1>1, <1>2, MainWaits DEF IInv

LEMMA MonitorPassIInv == ASSUME IInv, MonitorPass PROVE IInv'
<1>1. /\ UNCHANGED <<mode, file, pc, code, config, tenants, memory, disk, monitored,
                     cpuCgroup, pool, groups, serving, served, clients, running, built>>
      /\ mon = "pass" /\ mon' = "check"
      /\ cpu' \in [DOMAIN cpu \cup monitored -> {0, 99}]
  BY DEF MonitorPass, input, records
<1>2. Watched'
  BY <1>1 DEF IInv, Watched, Over, Joinable
<1>3. ManagersInv'
  BY <1>1 DEF IInv, ManagersInv, NoTenants
<1> QED  BY <1>1, <1>2, <1>3, MainWaits DEF IInv

LEMMA ClientEndsIInv == ASSUME IInv, ClientEnds PROVE IInv'
<1>1. /\ UNCHANGED <<mode, file, pc, code, config, tenants, cpu, memory, disk, monitored,
                     cpuCgroup, pool, groups, serving, running, mon, built>>
      /\ clients > 0 /\ clients' = clients - 1 /\ Handled("bench_tenant1")
  BY DEF ClientEnds, input, shares
<1>2. served' = served
  BY <1>1 DEF Handled, IInv, NoTenants
<1>3. Served'
  BY <1>1, StartupAssumption DEF IInv, Served
<1> QED  BY <1>1, <1>2, <1>3, MainWaits DEF IInv

LEMMA DestructorSignalsIInv == ASSUME IInv, DestructorSignals PROVE IInv'
<1>1. /\ UNCHANGED <<mode, file, pc, code, config, tenants, cpu, memory, disk, monitored,
                     cpuCgroup, pool, groups, serving, served, clients, mon, built>>
      /\ running' = FALSE
  BY DEF DestructorSignals, input, shares, records
<1>2. Watched'
  <2>1. running' \in BOOLEAN
    BY <1>1, Zenon
  <2> QED  BY <1>1, <2>1 DEF IInv, Watched, Over, Joinable
<1> QED  BY <1>1, <1>2, MainWaits DEF IInv

\* The front of a sequence.
LEMMA Shorter ==
  ASSUME NEW C, NEW b \in Seq(C), b # <<>>
  PROVE  /\ Front(b) \in Seq(C) /\ Len(Front(b)) = Len(b) - 1 /\ Len(b) > 0
         /\ \A i \in 1..Len(Front(b)) : Front(b)[i] = b[i]
<1>1. Len(b) \in Nat /\ Len(b) # 0
  OBVIOUS
<1> DEFINE n == Len(b) - 1
<1>2. /\ n \in Nat /\ 1 \in Int /\ n \in Int /\ n - 1 + 1 = n /\ (1 <= n \/ n = 0)
      /\ \A i \in 1..n : b[i] \in C /\ 1 + i - 1 = i
  <2>1. /\ n \in Nat /\ 1 \in Int /\ n \in Int /\ n - 1 + 1 = n /\ (1 <= n \/ n = 0)
        /\ n + 1 = Len(b)
    <3>1. \A k \in Nat : k # 0 =>
            /\ k - 1 \in Nat /\ 1 \in Int /\ k - 1 \in Int /\ k - 1 - 1 + 1 = k - 1
            /\ (1 <= k - 1 \/ k - 1 = 0) /\ k - 1 + 1 = k
      OBVIOUS
    <3> QED  BY <1>1, <3>1, Zenon
  <2> HIDE DEF n
  <2>2. \A i \in 1..n : i \in 1..Len(b) /\ 1 + i - 1 = i
    BY <1>1, <2>1
  <2>3. \A i \in 1..Len(b) : b[i] \in C
    OBVIOUS
  <2> QED  BY <2>1, <2>2, <2>3
<1> HIDE DEF n
<1>3. /\ SubSeq(b, 1, n) \in Seq(C)
      /\ Len(SubSeq(b, 1, n)) = IF 1 <= n THEN n - 1 + 1 ELSE 0
      /\ \A i \in 1..(n - 1 + 1) : SubSeq(b, 1, n)[i] = b[1 + i - 1]
  BY <1>2, SubSeqProperties
<1>4. Len(SubSeq(b, 1, n)) = n
  BY <1>2, <1>3
<1>5. \A i \in 1..n : SubSeq(b, 1, n)[i] = b[i]
  BY <1>2, <1>3
<1> QED  BY <1>1, <1>3, <1>4, <1>5 DEF Front, n

\* The youngest singleton goes; the monitor goes only when its thread is joined.
LEMMA DestroyIInv == ASSUME IInv, Destroy PROVE IInv'
<1>1. /\ UNCHANGED <<mode, file, pc, code, config, tenants, cpu, memory, disk, monitored,
                     cpuCgroup, serving, served, clients, running>>
      /\ groups' \in {groups, {}}
      /\ pool' = [pool EXCEPT !.ready = FALSE] \/ pool' = pool
      /\ Over /\ built # <<>> /\ built' = Front(built)
  BY DEF Destroy, Destroying, PoolDown, input, shares, records
<1>2. groups' = groups
  BY <1>1 DEF IInv, NoTenants
<1>3. MainInv' /\ ConfigInv' /\ Over' /\ NoTenants' /\ Served'
  BY <1>1, <1>2, MainWaits
<1>4. /\ pool' \in [ready : BOOLEAN, cgroup : BOOLEAN, total : 0..(SizeRange - 1)]
      /\ pool'.ready => pool' = pool
  BY <1>1 DEF IInv, ManagersInv
<1>5. ManagersInv'
  BY <1>1, <1>4 DEF IInv, ManagersInv
<1>6. Agreed'
  BY <1>1, <1>4, SameConfig DEF IInv, Agreed
<1>7. /\ built' \in Seq(Singletons) /\ Len(built') = Len(built) - 1 /\ Len(built) \in Nat
      /\ Len(built) > 0 /\ \A i \in 1..Len(built') : built'[i] = built[i]
  <2>1. built \in Seq(Singletons) /\ Len(built) \in Nat
    BY DEF IInv, BuiltInv
  <2>2. built # <<>> /\ built' = Front(built)
    BY <1>1
  <2> QED  BY <2>1, <2>2, Shorter
<1>8. BuiltInv'
  <2>1. Len(Order[mode]) \in Nat
    BY DEF IInv, MainInv, Modes, Order
  <2> QED  BY <1>1, <1>3, <1>7, <2>1 DEF IInv, BuiltInv
<1>9. Watched'
  <2>1. ASSUME Joinable' PROVE mode # "test" /\ Len(built') >= 6
    <3>1. Joinable /\ (Dying = "Monitor" => mon = "none")
      BY <2>1 DEF Destroy, Joinable
    <3>2. mode # "test" /\ Len(built) >= 6 /\ Dying # "Monitor"
      BY <3>1 DEF IInv, Watched, Joinable
    <3>3. Len(built) # 6
      <4>1. ASSUME Len(built) = 6 PROVE FALSE
        <5>1. built[6] = Order[mode][6]
          BY <4>1 DEF IInv, BuiltInv
        <5>2. Order[mode][6] = "Monitor"
          BY <3>2 DEF IInv, MainInv, Modes, Order
        <5> QED  BY <3>2, <4>1, <5>1, <5>2 DEF Dying, Last
      <4> QED  BY <4>1
    <3> QED  BY <1>7, <3>2, <3>3
  <2>2. mon' \in {mon, "joined"}
    BY DEF Destroy
  <2> QED  BY <1>1, <1>3, <2>1, <2>2 DEF IInv, Watched, Joinable
<1> QED  BY <1>3, <1>5, <1>6, <1>8, <1>9 DEF IInv

LEMMA StillIInv == ASSUME IInv, UNCHANGED vars PROVE IInv'
<1>1. UNCHANGED <<mode, file, pc, code, config, tenants, cpu, memory, disk, monitored,
                  cpuCgroup, pool, groups, serving, served, clients, running, mon, built>>
  BY DEF vars, input, shares, records, threads
<1> QED  BY <1>1, MainWaits DEF IInv

LEMMA NextIInv == ASSUME IInv, [Next]_vars PROVE IInv'
<1>1. CASE MainStep
  BY <1>1, LoadConfigIInv, CreateTenantIInv, RemoveTenantIInv, LookupIInv, CheckQuotaIInv,
     UpdateUsageIInv, InitializeCpuIInv, InitializeMemoryIInv, InitializeDiskIInv,
     StartMonitoringIInv, InitializePoolIInv, InitializeSqlServerIInv,
     InitializeDataServerIInv, StartServerIInv, RequestsIInv, StartClientsIInv,
     JoinClientsIInv, StopServerIInv, SignalMonitorIInv, JoinMonitorIInv, StopPoolIInv,
     DestructorSignalsIInv, DestroyIInv DEF MainStep
<1>2. CASE MonitorStep
  BY <1>2, MonitorCheckIInv, MonitorPassIInv DEF MonitorStep
<1>3. CASE ClientEnds
  BY <1>3, ClientEndsIInv
<1>4. CASE Terminated \/ UNCHANGED vars
  BY <1>4, StillIInv DEF Terminated
<1> QED  BY <1>1, <1>2, <1>3, <1>4 DEF Next

LEMMA StartupInvariant == Spec => []IInv
<1>1. Init => IInv
  BY InitIInv
<1>2. IInv /\ [Next]_vars => IInv'
  BY NextIInv
<1> QED  BY <1>1, <1>2, PTL DEF Spec

(***************************************************************************)
(* The theorems.                                                           *)
(***************************************************************************)
\* What each variable of the process may hold; no singleton is constructed twice.
THEOREM StartupTypeOK == Spec => []TypeOK
<1>1. ASSUME IInv PROVE TypeOK
  <2>1. /\ mode \in DOMAIN Program /\ pc \in 1..Len(Program[mode]) + 1 /\ code \in {0, 1}
    BY <1>1, ProgramIs DEF IInv, MainInv
  <2>2. DOMAIN config = Keys /\ \A k \in Keys : Cardinality(config[k]) <= 1
    BY <1>1 DEF IInv, ConfigInv
  <2>3. /\ tenants \subseteq Names /\ groups \subseteq Names /\ monitored \subseteq Names
        /\ served \subseteq Names
    BY <1>1 DEF IInv, NoTenants
  <2>4. /\ DOMAIN cpu \subseteq Names /\ \A t \in DOMAIN cpu : cpu[t] \in 0..100
        /\ \A m \in {memory, disk} : m.total \in 0..SizeRange - 1 /\ m.tenants \subseteq Names
        /\ pool \in [ready : BOOLEAN, cgroup : BOOLEAN, total : 0..SizeRange - 1]
    BY <1>1 DEF IInv, ManagersInv
  <2>5. {cpuCgroup, serving, running} \subseteq BOOLEAN
    <3>1. cpuCgroup \in BOOLEAN /\ serving \in BOOLEAN /\ running \in BOOLEAN
      BY <1>1 DEF IInv, ManagersInv, Served, Watched
    <3> QED  BY <3>1, Zenon
  <2>6. clients \in 0..ClientThreads /\ mon \in {"none", "check", "pass", "ended", "joined"}
    BY <1>1 DEF IInv, Served, Watched
  <2>7. IsInjective(built)
    <3>0. mode \in Modes
      BY <1>1 DEF IInv, MainInv
    <3>1. /\ built \in Seq(Singletons) /\ DOMAIN built = 1..Len(built) /\ Len(built) \in Nat
          /\ Len(built) <= 7 /\ (mode = "test" => Len(built) <= 6)
          /\ \A i \in 1..Len(built) : built[i] = Order[mode][i]
      <4>1. /\ Len(Order["test"]) <= 6
            /\ \A m \in Modes : Len(Order[m]) <= 7 /\ Len(Order[m]) \in Nat
        BY DEF Order, Modes
      <4>2. /\ built \in Seq(Singletons) /\ Len(built) <= Len(Order[mode])
            /\ \A i \in 1..Len(built) : built[i] = Order[mode][i]
        BY <1>1 DEF IInv, BuiltInv
      <4>3. Len(built) \in Nat /\ DOMAIN built = 1..Len(built)
        BY <4>2
      <4>4. Len(Order[mode]) <= 7 /\ (mode = "test" => Len(Order[mode]) <= 6)
            /\ Len(Order[mode]) \in Nat
        BY <3>0, <4>1
      <4> QED  BY <4>2, <4>3, <4>4
    <3>2. CASE mode # "test"
      <4>1. \A i, j \in 1..7 : Order[mode][i] = Order[mode][j] => i = j
        BY <1>1, <3>2 DEF Order, IInv, MainInv, Modes
      <4> QED  BY <3>1, <4>1 DEF IsInjective
    <3>3. CASE mode = "test"
      <4>1. \A i, j \in 1..6 : Order[mode][i] = Order[mode][j] => i = j
        BY <3>3 DEF Order
      <4> QED  BY <3>1, <3>3, <4>1 DEF IsInjective
    <3> QED  BY <3>2, <3>3
  <2> QED  BY <2>1, <2>2, <2>3, <2>4, <2>5, <2>6, <2>7 DEF TypeOK
<1> QED  BY <1>1, StartupInvariant, PTL

\* In no mode does main create or remove a tenant while the monitor thread goes
\* over the map it has no lock for: createTenant and removeTenant are called before
\* startMonitoring or after the join of stopMonitoring.
THEOREM StartupMonitorAlone == Spec => []MonitorAlone
<1>1. ASSUME IInv PROVE MonitorAlone
  <2> SUFFICES ASSUME mon \in {"check", "pass"} PROVE ~At("create") /\ ~At("remove")
    BY DEF MonitorAlone
  <2>1. pc \in MonitorUp[mode] \/ Over
    BY <1>1 DEF IInv, Watched
  <2>2. CASE Over
    <3>1. pc \in Nat /\ Len(Program[mode]) \in Nat
      BY <1>1, ProgramIs DEF IInv, MainInv, Modes
    <3> QED  BY <2>2, <3>1 DEF Over, At
  <2>3. CASE pc \in MonitorUp[mode]
    <3>1. MainInv /\ mode \in Modes
      BY <1>1 DEF IInv, MainInv
    <3>2. /\ ~(mode # "test" /\ pc \in {2, 3}) /\ mode # "test"
          /\ ~(mode = "benchmark" /\ pc \in {17, 18})
      BY <2>3, <3>1 DEF MonitorUp, Modes
    <3> QED  BY <3>1, <3>2, Where
  <2> QED  BY <2>1, <2>2, <2>3
<1> QED  BY <1>1, StartupInvariant, PTL

\* However main ends, the early returns of the demo included, the monitor thread
\* has its singletons as long as it runs and is joined before its object goes, and
\* the server is stopped after its last client and before main returns.
THEOREM StartupSafeExit == Spec => []SafeExit
<1>1. ASSUME IInv PROVE SafeExit
  <2>1. Joinable => {"Cpu", "Monitor"} \subseteq ToSet(built)
    BY <1>1, BuiltIs DEF IInv, Watched
  <2>2. mon \in {"check", "pass"} => Joinable
    BY DEF Joinable
  <2>3. clients > 0 => serving
    <3>1. 12 \in ServerUp["benchmark"]
      BY DEF ServerUp
    <3> QED  BY <1>1, <3>1 DEF IInv, Served
  <2>4. Over => ~serving
    <3>1. mode \in Modes /\ pc \in 1..(Len(Program[mode]) + 1)
      BY <1>1 DEF IInv, MainInv
    <3>2. Over => pc \notin ServerUp[mode]
      <4>1. CASE mode = "demo"
        BY <3>1, <4>1, ProgramIs DEF Over, ServerUp
      <4>2. CASE mode = "benchmark"
        BY <3>1, <4>2, ProgramIs DEF Over, ServerUp
      <4>3. CASE mode = "test"
        BY <4>3 DEF ServerUp
      <4> QED  BY <3>1, <4>1, <4>2, <4>3 DEF Modes
    <3> QED  BY <1>1, <3>2 DEF IInv, Served
  <2> QED  BY <2>1, <2>2, <2>3, <2>4 DEF SafeExit
<1> QED  BY <1>1, StartupInvariant, PTL

\* main initialises the CPU and the memory manager and the pool, YaoSqlServer::initialize
\* does it again; while the server runs, they are what the configuration says, whatever
\* the file holds.
THEOREM StartupOneConfiguration == Spec => []OneConfiguration
<1>1. ASSUME IInv PROVE OneConfiguration
  <2> SUFFICES ASSUME serving
               PROVE  /\ cpuCgroup = Cgroup /\ memory.total = Memory
                      /\ pool.ready => pool.cgroup = Cgroup /\ pool.total = Threads
    BY DEF OneConfiguration
  <2>1. pc \in ServerUp[mode] /\ mode \in Modes
    BY <1>1 DEF IInv, MainInv, Served
  <2>2. mode # "test" /\ pc > 5
    BY <2>1 DEF ServerUp, Modes
  <2>3. mode # "test" /\ pc > 4
    BY <2>1 DEF ServerUp, Modes
  <2>4. Agreed
    BY <1>1 DEF IInv
  <2> QED  BY <2>2, <2>3, <2>4, Zenon DEF Agreed
<1> QED  BY <1>1, StartupInvariant, PTL

\* No tenant is ever registered: createTenant is called before the pool is
\* initialised, in the demo and the benchmark, and the self-tests never do that.
THEOREM StartupNoTenant == Spec => [](tenants = {})
<1>1. IInv => tenants = {}
  BY DEF IInv, NoTenants
<1> QED  BY <1>1, StartupInvariant, PTL
================================================================================
