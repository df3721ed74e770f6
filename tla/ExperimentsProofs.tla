-------------------------- MODULE ExperimentsProofs --------------------------
(***************************************************************************)
(* Theorems about the scripts of Experiments.tla and the stack they drive, *)
(* for any rollouts and identities and with every generation number.       *)
(*                                                                         *)
(* A script is a fixed sequence of steps, but next to its main thread run  *)
(* a cycle, a request, a crash and a user.  So what a step finds is not    *)
(* what the step before it left.  The argument keeps to what is needed of  *)
(* a scenario: which step may come right after which (MayFollow).  Two     *)
(* invariants rest on it.  Base: the types, the controller's own invariant *)
(* and who owns the server, where os._exit is reached behind a kill only   *)
(* (AfterKill).  Closed: nobody touches the engine or the controller while *)
(* a cycle is under way or after it has raised (Undisturbed), what a cycle *)
(* finds when it is called (Prepared), and where it stands at each of its  *)
(* calls (CallHolds).                                                      *)
(***************************************************************************)
EXTENDS Experiments, LifecycleProofs, SequenceTheorems

(* The generations are not bounded: versions.py allows every n >= 0.  (The *)
(* TLC instance has as many as the scenarios reach.)                       *)
EveryGeneration == Versions = Nat

-----------------------------------------------------------------------------
(* The order of the steps.                                                 *)

(* Steps that start a cycle and go on ...                                  *)
Starts == {"spawn", "by hand"}

(* ... steps that may find one under way, or one whose outcome has not     *)
(* been taken, and leave it so ...                                         *)
Carry ==
    {"arm", "aim", "kill", "join", "try", "check disagreement", "check finalize",
     "check label", "check fail closed", "check dead", "check refused",
     "check kill landed", "verdict", "hang"}

(* ... and steps that take its outcome, or begin with another engine.      *)
Clear == {"seed", "new controller", "serve", "cycle", "join hot", "assert"}

(* The scripts that kill their server and may leave by os._exit, and their *)
(* steps between the two.                                                  *)
Killers   == {"updatekill", "benchmark"}
AfterKill == {"join", "check fail closed", "check kill landed", "verdict", "hang"}

(* The scripts whose controller serves from its bootstrap to the call of   *)
(* the cycle, and the steps in between.                                    *)
Plain   == {"demo", "tests", "cycle", "concurrency", "trajectory", "cache", "updatekill"}
Called  == {"cycle", "try", "spawn"}
Between == {"generate", "admit", "stream", "fault finish", "fault caches", "fault any",
            "check warm", "check committed", "check installed", "check cold",
            "out of band", "join request"}

(* The benchmark from its first bootstrap to its last server: its hot      *)
(* cycle has returned, and its controller serves whatever the engine does. *)
Warm == {"check installed", "stop", "serve", "generate", "spawn"}

Steps ==
    Starts \cup Carry \cup Clear \cup Between \cup Checks \cup
    {"bootstrap", "try bootstrap", "owned", "refused", "release", "poll", "short drain",
     "finish", "redrain", "drain", "reset", "reopen", "abandon", "mismatch", "stop"}

MayFollow(k, a, b) ==
    /\ a \in Starts \cup Carry => b \in Carry \cup Clear
    /\ k \in Killers /\ b \in AfterKill => a \in {"kill"} \cup AfterKill
    /\ b = "by hand" => a = "drain"
    /\ k = "failures" /\ b = "cycle" => a = "by hand"
    /\ k \in Plain /\ b \in Called \cup Between => a \in {"bootstrap", "cycle"} \cup Between
    /\ k = "benchmark" /\ b \in Warm =>
          a \in {"bootstrap", "join hot"} \cup (Warm \ {"spawn"})
    /\ a \in {"verdict", "hang"} => b = "hang"

(* The fake engine has no process and no report, and a server no faults;   *)
(* who kills, and who spoils the engine behind the controller's back.      *)
Belongs(k, a) ==
    /\ a \in {"serve", "stop", "kill", "join hot", "verdict"} => k \notin InProcess
    /\ a \in {"seed", "fault finish", "fault caches", "fault any"} => k \in InProcess
    /\ a = "hang" => k \in Killers
    /\ a = "by hand" => k = "failures"
    /\ a = "out of band" => k = "cache"
    /\ a = "spawn" => k \in Killers
    /\ a \in {"cycle", "try"} => k # "benchmark"
    /\ a \in Called => k # "smoke"

Opens(k, a) == a \notin AfterKill \cup {"by hand"} \cup Called \cup Between

Orderly(k, s) ==
    /\ s \in Seq(Steps)
    /\ Len(s) > 0
    /\ \A i \in 1..Len(s) : Belongs(k, s[i])
    /\ \A i \in 1..(Len(s) - 1) : MayFollow(k, s[i], s[i + 1])

(* Two parts of a scenario, one after the other.                           *)
First(s) == s[1]
Final(s) == s[Len(s)]

LEMMA Joined ==
  ASSUME NEW k, NEW s, NEW t,
         Orderly(k, s), Orderly(k, t), MayFollow(k, Final(s), First(t))
  PROVE  /\ Orderly(k, s \o t)
         /\ First(s \o t) = First(s) /\ Final(s \o t) = Final(t)
<1> DEFINE c == s \o t
<1>1. /\ s \in Seq(Steps) /\ t \in Seq(Steps)
      /\ Len(s) \in Nat \ {0} /\ Len(t) \in Nat \ {0}
  BY LenProperties DEF Orderly
<1>2. /\ c \in Seq(Steps) /\ Len(c) = Len(s) + Len(t)
      /\ \A i \in 1..(Len(s) + Len(t)) :
            c[i] = IF i <= Len(s) THEN s[i] ELSE t[i - Len(s)]
  BY <1>1, ConcatProperties
<1> HIDE DEF c
<1>3. ASSUME NEW i \in 1..Len(c) PROVE Belongs(k, c[i])
  <2>1. CASE i <= Len(s)
    BY <1>1, <1>2, <2>1 DEF Orderly
  <2>2. CASE i > Len(s)
    <3>1. i - Len(s) \in 1..Len(t)
      BY <1>1, <1>2, <2>2
    <3> QED
      BY <1>1, <1>2, <2>2, <3>1 DEF Orderly
  <2> QED
    BY <1>1, <2>1, <2>2
<1>4. ASSUME NEW i \in 1..(Len(c) - 1) PROVE MayFollow(k, c[i], c[i + 1])
  <2>1. CASE i < Len(s)
    <3>1. i \in 1..(Len(s) - 1) /\ i + 1 \in 1..Len(s)
      BY <1>1, <2>1
    <3>2. c[i] = s[i] /\ c[i + 1] = s[i + 1]
      BY <1>1, <1>2, <3>1
    <3> QED
      BY <3>1, <3>2 DEF Orderly
  <2>2. CASE i = Len(s)
    <3>1. c[i] = Final(s) /\ c[i + 1] = First(t)
      BY <1>1, <1>2, <2>2 DEF First, Final
    <3> QED
      BY <3>1
  <2>3. CASE i > Len(s)
    <3>1. i - Len(s) \in 1..(Len(t) - 1) /\ (i + 1) - Len(s) = (i - Len(s)) + 1
      BY <1>1, <1>2, <2>3
    <3>2. c[i] = t[i - Len(s)] /\ c[i + 1] = t[(i - Len(s)) + 1]
      BY <1>1, <1>2, <2>3, <3>1
    <3> QED
      BY <3>1, <3>2 DEF Orderly
  <2> QED
    BY <1>1, <2>1, <2>2, <2>3
<1> QED
  <2>1. Orderly(k, c) /\ First(c) = First(s) /\ Final(c) = Final(t)
    BY <1>1, <1>2, <1>3, <1>4 DEF Orderly, First, Final
  <2> QED
    BY <2>1 DEF c

(* The last part of two of them, which Experiments.tla writes in place.    *)
FailuresEnd  == <<"serve", "new controller", "bootstrap", "check fresh", "verdict">>
BenchmarkEnd == <<"verdict", "hang">>

LEMMA DemoOrder ==
  /\ Orderly("demo", Demo)
  /\ Opens("demo", First(Demo))
<1> DEFINE B(i) == Belongs("demo", Demo[i])
           F(i) == MayFollow("demo", Demo[i], Demo[i + 1])
<1>1. /\ Demo \in Seq(Steps) /\ Len(Demo) = 26
      /\ Opens("demo", First(Demo))
  BY DEF Demo, Steps, Starts, Carry, Clear, Called, Between, Warm, Checks,
         Opens, First, AfterKill
<1>2. /\ B(1) /\ B(2) /\ B(3) /\ B(4) /\ B(5) /\ B(6) /\ B(7) /\ B(8)
      /\ B(9) /\ B(10) /\ B(11) /\ B(12) /\ B(13) /\ B(14) /\ B(15) /\ B(16)
      /\ B(17) /\ B(18) /\ B(19) /\ B(20) /\ B(21) /\ B(22) /\ B(23) /\ B(24)
      /\ B(25) /\ B(26)
  BY DEF Demo, Belongs, InProcess, Killers, Called
<1>3. /\ F(1) /\ F(2) /\ F(3) /\ F(4) /\ F(5) /\ F(6) /\ F(7) /\ F(8)
      /\ F(9) /\ F(10) /\ F(11) /\ F(12)
  BY DEF Demo, MayFollow, Starts, Carry, Clear, AfterKill, Killers, Plain,
         Called, Between, Warm
<1>4. /\ F(13) /\ F(14) /\ F(15) /\ F(16) /\ F(17) /\ F(18) /\ F(19) /\ F(20)
      /\ F(21) /\ F(22) /\ F(23) /\ F(24) /\ F(25)
  BY DEF Demo, MayFollow, Starts, Carry, Clear, AfterKill, Killers, Plain,
         Called, Between, Warm
<1> QED
  BY <1>1, <1>2, <1>3, <1>4 DEF Orderly

LEMMA FaultTestOrder ==
  /\ Orderly("tests", FaultTest)
  /\ Opens("tests", First(FaultTest))
<1> DEFINE B(i) == Belongs("tests", FaultTest[i])
           F(i) == MayFollow("tests", FaultTest[i], FaultTest[i + 1])
<1>1. /\ FaultTest \in Seq(Steps) /\ Len(FaultTest) = 5
      /\ Opens("tests", First(FaultTest))
  BY DEF FaultTest, Steps, Starts, Carry, Clear, Called, Between, Warm, Checks,
         Opens, First, AfterKill
<1>2. /\ B(1) /\ B(2) /\ B(3) /\ B(4) /\ B(5)
  BY DEF FaultTest, Belongs, InProcess, Killers, Called
<1>3. /\ F(1) /\ F(2) /\ F(3) /\ F(4)
  BY DEF FaultTest, MayFollow, Starts, Carry, Clear, AfterKill, Killers, Plain,
         Called, Between, Warm
<1> QED
  BY <1>1, <1>2, <1>3 DEF Orderly

LEMMA SmokeOrder ==
  /\ Orderly("smoke", Smoke)
  /\ Opens("smoke", First(Smoke))
<1> DEFINE B(i) == Belongs("smoke", Smoke[i])
           F(i) == MayFollow("smoke", Smoke[i], Smoke[i + 1])
<1>1. /\ Smoke \in Seq(Steps) /\ Len(Smoke) = 13
      /\ Opens("smoke", First(Smoke))
  BY DEF Smoke, Steps, Starts, Carry, Clear, Called, Between, Warm, Checks,
         Opens, First, AfterKill
<1>2. /\ B(1) /\ B(2) /\ B(3) /\ B(4) /\ B(5) /\ B(6) /\ B(7) /\ B(8)
      /\ B(9) /\ B(10) /\ B(11) /\ B(12) /\ B(13)
  BY DEF Smoke, Belongs, InProcess, Killers, Called
<1>3. /\ F(1) /\ F(2) /\ F(3) /\ F(4) /\ F(5) /\ F(6) /\ F(7) /\ F(8)
      /\ F(9) /\ F(10) /\ F(11) /\ F(12)
  BY DEF Smoke, MayFollow, Starts, Carry, Clear, AfterKill, Killers, Plain,
         Called, Between, Warm
<1> QED
  BY <1>1, <1>2, <1>3 DEF Orderly

LEMMA CycleOrder ==
  /\ Orderly("cycle", Cycle)
  /\ Opens("cycle", First(Cycle))
<1> DEFINE B(i) == Belongs("cycle", Cycle[i])
           F(i) == MayFollow("cycle", Cycle[i], Cycle[i + 1])
<1>1. /\ Cycle \in Seq(Steps) /\ Len(Cycle) = 6
      /\ Opens("cycle", First(Cycle))
  BY DEF Cycle, Steps, Starts, Carry, Clear, Called, Between, Warm, Checks,
         Opens, First, AfterKill
<1>2. /\ B(1) /\ B(2) /\ B(3) /\ B(4) /\ B(5) /\ B(6)
  BY DEF Cycle, Belongs, InProcess, Killers, Called
<1>3. /\ F(1) /\ F(2) /\ F(3) /\ F(4) /\ F(5)
  BY DEF Cycle, MayFollow, Starts, Carry, Clear, AfterKill, Killers, Plain,
         Called, Between, Warm
<1> QED
  BY <1>1, <1>2, <1>3 DEF Orderly

LEMMA ConcurrencyOrder ==
  ASSUME NEW k \in {"concurrency", "trajectory"}
  PROVE  /\ Orderly(k, Concurrency)
         /\ Opens(k, First(Concurrency))
<1> DEFINE B(i) == Belongs(k, Concurrency[i])
           F(i) == MayFollow(k, Concurrency[i], Concurrency[i + 1])
<1>1. /\ Concurrency \in Seq(Steps) /\ Len(Concurrency) = 10
      /\ Opens(k, First(Concurrency))
  BY DEF Concurrency, Steps, Starts, Carry, Clear, Called, Between, Warm,
     Checks,
         Opens, First, AfterKill
<1>2. /\ B(1) /\ B(2) /\ B(3) /\ B(4) /\ B(5) /\ B(6) /\ B(7) /\ B(8)
      /\ B(9) /\ B(10)
  BY DEF Concurrency, Belongs, InProcess, Killers, Called
<1>3. /\ F(1) /\ F(2) /\ F(3) /\ F(4) /\ F(5) /\ F(6) /\ F(7) /\ F(8)
      /\ F(9)
  BY DEF Concurrency, MayFollow, Starts, Carry, Clear, AfterKill, Killers,
     Plain,
         Called, Between, Warm
<1> QED
  BY <1>1, <1>2, <1>3 DEF Orderly

LEMMA CacheOrder ==
  /\ Orderly("cache", Cache)
  /\ Opens("cache", First(Cache))
<1> DEFINE B(i) == Belongs("cache", Cache[i])
           F(i) == MayFollow("cache", Cache[i], Cache[i + 1])
<1>1. /\ Cache \in Seq(Steps) /\ Len(Cache) = 12
      /\ Opens("cache", First(Cache))
  BY DEF Cache, Steps, Starts, Carry, Clear, Called, Between, Warm, Checks,
         Opens, First, AfterKill
<1>2. /\ B(1) /\ B(2) /\ B(3) /\ B(4) /\ B(5) /\ B(6) /\ B(7) /\ B(8)
      /\ B(9) /\ B(10) /\ B(11) /\ B(12)
  BY DEF Cache, Belongs, InProcess, Killers, Called
<1>3. /\ F(1) /\ F(2) /\ F(3) /\ F(4) /\ F(5) /\ F(6) /\ F(7) /\ F(8)
      /\ F(9) /\ F(10) /\ F(11)
  BY DEF Cache, MayFollow, Starts, Carry, Clear, AfterKill, Killers, Plain,
         Called, Between, Warm
<1> QED
  BY <1>1, <1>2, <1>3 DEF Orderly

LEMMA UpdateKillOrder ==
  /\ Orderly("updatekill", UpdateKill)
  /\ Opens("updatekill", First(UpdateKill))
<1> DEFINE B(i) == Belongs("updatekill", UpdateKill[i])
           F(i) == MayFollow("updatekill", UpdateKill[i], UpdateKill[i + 1])
<1>1. /\ UpdateKill \in Seq(Steps) /\ Len(UpdateKill) = 12
      /\ Opens("updatekill", First(UpdateKill))
  BY DEF UpdateKill, Steps, Starts, Carry, Clear, Called, Between, Warm, Checks,
         Opens, First, AfterKill
<1>2. /\ B(1) /\ B(2) /\ B(3) /\ B(4) /\ B(5) /\ B(6) /\ B(7) /\ B(8)
      /\ B(9) /\ B(10) /\ B(11) /\ B(12)
  BY DEF UpdateKill, Belongs, InProcess, Killers, Called
<1>3. /\ F(1) /\ F(2) /\ F(3) /\ F(4) /\ F(5) /\ F(6) /\ F(7) /\ F(8)
      /\ F(9) /\ F(10) /\ F(11)
  BY DEF UpdateKill, MayFollow, Starts, Carry, Clear, AfterKill, Killers, Plain,
         Called, Between, Warm
<1> QED
  BY <1>1, <1>2, <1>3 DEF Orderly

LEMMA FailuresDrainOrder ==
  /\ Orderly("failures", FailuresDrain)
  /\ Opens("failures", First(FailuresDrain))
<1> DEFINE B(i) == Belongs("failures", FailuresDrain[i])
           F(i) == MayFollow("failures", FailuresDrain[i], FailuresDrain[i + 1])
<1>1. /\ FailuresDrain \in Seq(Steps) /\ Len(FailuresDrain) = 12
      /\ Opens("failures", First(FailuresDrain))
  BY DEF FailuresDrain, Steps, Starts, Carry, Clear, Called, Between, Warm,
     Checks,
         Opens, First, AfterKill
<1>2. /\ B(1) /\ B(2) /\ B(3) /\ B(4) /\ B(5) /\ B(6) /\ B(7) /\ B(8)
      /\ B(9) /\ B(10) /\ B(11) /\ B(12)
  BY DEF FailuresDrain, Belongs, InProcess, Killers, Called
<1>3. /\ F(1) /\ F(2) /\ F(3) /\ F(4) /\ F(5) /\ F(6) /\ F(7) /\ F(8)
      /\ F(9) /\ F(10) /\ F(11)
  BY DEF FailuresDrain, MayFollow, Starts, Carry, Clear, AfterKill, Killers,
     Plain,
         Called, Between, Warm
<1> QED
  BY <1>1, <1>2, <1>3 DEF Orderly

LEMMA FailuresMismatchOrder ==
  /\ Orderly("failures", FailuresMismatch)
  /\ Opens("failures", First(FailuresMismatch))
<1> DEFINE B(i) == Belongs("failures", FailuresMismatch[i])
           F(i) == MayFollow("failures", FailuresMismatch[i], FailuresMismatch[i + 1])
<1>1. /\ FailuresMismatch \in Seq(Steps) /\ Len(FailuresMismatch) = 6
      /\ Opens("failures", First(FailuresMismatch))
  BY DEF FailuresMismatch, Steps, Starts, Carry, Clear, Called, Between, Warm,
     Checks,
         Opens, First, AfterKill
<1>2. /\ B(1) /\ B(2) /\ B(3) /\ B(4) /\ B(5) /\ B(6)
  BY DEF FailuresMismatch, Belongs, InProcess, Killers, Called
<1>3. /\ F(1) /\ F(2) /\ F(3) /\ F(4) /\ F(5)
  BY DEF FailuresMismatch, MayFollow, Starts, Carry, Clear, AfterKill, Killers,
     Plain,
         Called, Between, Warm
<1> QED
  BY <1>1, <1>2, <1>3 DEF Orderly

LEMMA FailuresDeadOrder ==
  /\ Orderly("failures", FailuresDead)
  /\ Opens("failures", First(FailuresDead))
<1> DEFINE B(i) == Belongs("failures", FailuresDead[i])
           F(i) == MayFollow("failures", FailuresDead[i], FailuresDead[i + 1])
<1>1. /\ FailuresDead \in Seq(Steps) /\ Len(FailuresDead) = 11
      /\ Opens("failures", First(FailuresDead))
  BY DEF FailuresDead, Steps, Starts, Carry, Clear, Called, Between, Warm,
     Checks,
         Opens, First, AfterKill
<1>2. /\ B(1) /\ B(2) /\ B(3) /\ B(4) /\ B(5) /\ B(6) /\ B(7) /\ B(8)
      /\ B(9) /\ B(10) /\ B(11)
  BY DEF FailuresDead, Belongs, InProcess, Killers, Called
<1>3. /\ F(1) /\ F(2) /\ F(3) /\ F(4) /\ F(5) /\ F(6) /\ F(7) /\ F(8)
      /\ F(9) /\ F(10)
  BY DEF FailuresDead, MayFollow, Starts, Carry, Clear, AfterKill, Killers,
     Plain,
         Called, Between, Warm
<1> QED
  BY <1>1, <1>2, <1>3 DEF Orderly

LEMMA FailuresEndOrder ==
  Orderly("failures", FailuresEnd)
<1> DEFINE B(i) == Belongs("failures", FailuresEnd[i])
           F(i) == MayFollow("failures", FailuresEnd[i], FailuresEnd[i + 1])
<1>1. /\ FailuresEnd \in Seq(Steps) /\ Len(FailuresEnd) = 5
  BY DEF FailuresEnd, Steps, Starts, Carry, Clear, Called, Between, Warm,
     Checks,
         Opens, First, AfterKill
<1>2. /\ B(1) /\ B(2) /\ B(3) /\ B(4) /\ B(5)
  BY DEF FailuresEnd, Belongs, InProcess, Killers, Called
<1>3. /\ F(1) /\ F(2) /\ F(3) /\ F(4)
  BY DEF FailuresEnd, MayFollow, Starts, Carry, Clear, AfterKill, Killers,
     Plain,
         Called, Between, Warm
<1> QED
  BY <1>1, <1>2, <1>3 DEF Orderly

LEMMA BenchmarkEndOrder ==
  Orderly("benchmark", BenchmarkEnd)
<1> DEFINE B(i) == Belongs("benchmark", BenchmarkEnd[i])
           F(i) == MayFollow("benchmark", BenchmarkEnd[i], BenchmarkEnd[i + 1])
<1>1. /\ BenchmarkEnd \in Seq(Steps) /\ Len(BenchmarkEnd) = 2
  BY DEF BenchmarkEnd, Steps, Starts, Carry, Clear, Called, Between, Warm,
     Checks,
         Opens, First, AfterKill
<1>2. /\ B(1) /\ B(2)
  BY DEF BenchmarkEnd, Belongs, InProcess, Killers, Called
<1>3. /\ F(1)
  BY DEF BenchmarkEnd, MayFollow, Starts, Carry, Clear, AfterKill, Killers,
     Plain,
         Called, Between, Warm
<1> QED
  BY <1>1, <1>2, <1>3 DEF Orderly

LEMMA BenchmarkHotOrder ==
  /\ Orderly("benchmark", BenchmarkHot)
  /\ Opens("benchmark", First(BenchmarkHot))
<1> DEFINE B(i) == Belongs("benchmark", BenchmarkHot[i])
           F(i) == MayFollow("benchmark", BenchmarkHot[i], BenchmarkHot[i + 1])
<1>1. /\ BenchmarkHot \in Seq(Steps) /\ Len(BenchmarkHot) = 6
      /\ Opens("benchmark", First(BenchmarkHot))
  BY DEF BenchmarkHot, Steps, Starts, Carry, Clear, Called, Between, Warm,
     Checks,
         Opens, First, AfterKill
<1>2. /\ B(1) /\ B(2) /\ B(3) /\ B(4) /\ B(5) /\ B(6)
  BY DEF BenchmarkHot, Belongs, InProcess, Killers, Called
<1>3. /\ F(1) /\ F(2) /\ F(3) /\ F(4) /\ F(5)
  BY DEF BenchmarkHot, MayFollow, Starts, Carry, Clear, AfterKill, Killers,
     Plain,
         Called, Between, Warm
<1> QED
  BY <1>1, <1>2, <1>3 DEF Orderly

LEMMA BenchmarkRestartOrder ==
  /\ Orderly("benchmark", BenchmarkRestart)
  /\ Opens("benchmark", First(BenchmarkRestart))
<1> DEFINE B(i) == Belongs("benchmark", BenchmarkRestart[i])
           F(i) == MayFollow("benchmark", BenchmarkRestart[i], BenchmarkRestart[i + 1])
<1>1. /\ BenchmarkRestart \in Seq(Steps) /\ Len(BenchmarkRestart) = 4
      /\ Opens("benchmark", First(BenchmarkRestart))
  BY DEF BenchmarkRestart, Steps, Starts, Carry, Clear, Called, Between, Warm,
     Checks,
         Opens, First, AfterKill
<1>2. /\ B(1) /\ B(2) /\ B(3) /\ B(4)
  BY DEF BenchmarkRestart, Belongs, InProcess, Killers, Called
<1>3. /\ F(1) /\ F(2) /\ F(3)
  BY DEF BenchmarkRestart, MayFollow, Starts, Carry, Clear, AfterKill, Killers,
     Plain,
         Called, Between, Warm
<1> QED
  BY <1>1, <1>2, <1>3 DEF Orderly

LEMMA BenchmarkKillOrder ==
  /\ Orderly("benchmark", BenchmarkKill)
  /\ Opens("benchmark", First(BenchmarkKill))
<1> DEFINE B(i) == Belongs("benchmark", BenchmarkKill[i])
           F(i) == MayFollow("benchmark", BenchmarkKill[i], BenchmarkKill[i + 1])
<1>1. /\ BenchmarkKill \in Seq(Steps) /\ Len(BenchmarkKill) = 9
      /\ Opens("benchmark", First(BenchmarkKill))
  BY DEF BenchmarkKill, Steps, Starts, Carry, Clear, Called, Between, Warm,
     Checks,
         Opens, First, AfterKill
<1>2. /\ B(1) /\ B(2) /\ B(3) /\ B(4) /\ B(5) /\ B(6) /\ B(7) /\ B(8)
      /\ B(9)
  BY DEF BenchmarkKill, Belongs, InProcess, Killers, Called
<1>3. /\ F(1) /\ F(2) /\ F(3) /\ F(4) /\ F(5) /\ F(6) /\ F(7) /\ F(8)
  BY DEF BenchmarkKill, MayFollow, Starts, Carry, Clear, AfterKill, Killers,
     Plain,
         Called, Between, Warm
<1> QED
  BY <1>1, <1>2, <1>3 DEF Orderly

(* The failures script, part by part.                                      *)
LEMMA FailuresOrder ==
  Orderly("failures", Failures) /\ Opens("failures", First(Failures))
<1>1. /\ Orderly("failures", FailuresDrain) /\ Opens("failures", First(FailuresDrain))
      /\ Orderly("failures", FailuresMismatch) /\ Orderly("failures", FailuresDead)
      /\ Orderly("failures", FailuresEnd)
  BY FailuresDrainOrder, FailuresMismatchOrder, FailuresDeadOrder, FailuresEndOrder
<1>2. /\ Final(FailuresDrain) = "check installed"
      /\ First(FailuresMismatch) = "redrain"
      /\ Final(FailuresMismatch) = "reopen"
      /\ First(FailuresDead) = "stop"
      /\ Final(FailuresDead) = "check refused"
      /\ First(FailuresEnd) = "serve"
  BY DEF FailuresDrain, FailuresMismatch, FailuresDead, FailuresEnd, First, Final
<1>3. /\ MayFollow("failures", Final(FailuresDrain), First(FailuresMismatch))
      /\ MayFollow("failures", Final(FailuresMismatch), First(FailuresDead))
      /\ MayFollow("failures", Final(FailuresDead), First(FailuresEnd))
  BY <1>2 DEF MayFollow, Starts, Carry, Clear, AfterKill, Killers, Plain,
             Called, Between, Warm
<1>4. /\ Orderly("failures", FailuresDrain \o FailuresMismatch)
      /\ First(FailuresDrain \o FailuresMismatch) = First(FailuresDrain)
      /\ Final(FailuresDrain \o FailuresMismatch) = Final(FailuresMismatch)
  BY <1>1, <1>3, Joined
<1>5. /\ Orderly("failures", (FailuresDrain \o FailuresMismatch) \o FailuresDead)
      /\ First((FailuresDrain \o FailuresMismatch) \o FailuresDead) = First(FailuresDrain)
      /\ Final((FailuresDrain \o FailuresMismatch) \o FailuresDead) = Final(FailuresDead)
  BY <1>1, <1>3, <1>4, Joined
<1>6. /\ Orderly("failures",
                 ((FailuresDrain \o FailuresMismatch) \o FailuresDead) \o FailuresEnd)
      /\ First(((FailuresDrain \o FailuresMismatch) \o FailuresDead) \o FailuresEnd)
         = First(FailuresDrain)
  BY <1>1, <1>3, <1>5, Joined
<1>7. Failures = ((FailuresDrain \o FailuresMismatch) \o FailuresDead) \o FailuresEnd
  BY DEF Failures, FailuresEnd
<1> QED
  BY <1>1, <1>6, <1>7

(* The benchmark, part by part.                                            *)
LEMMA BenchmarkOrder ==
  Orderly("benchmark", Benchmark) /\ Opens("benchmark", First(Benchmark))
<1>1. /\ Orderly("benchmark", BenchmarkHot) /\ Opens("benchmark", First(BenchmarkHot))
      /\ Orderly("benchmark", BenchmarkRestart) /\ Orderly("benchmark", BenchmarkKill)
      /\ Orderly("benchmark", BenchmarkEnd)
  BY BenchmarkHotOrder, BenchmarkRestartOrder, BenchmarkKillOrder, BenchmarkEndOrder
<1>2. /\ Final(BenchmarkHot) = "check installed"
      /\ First(BenchmarkRestart) = "stop"
      /\ Final(BenchmarkRestart) = "stop"
      /\ First(BenchmarkKill) = "serve"
      /\ Final(BenchmarkKill) = "check kill landed"
      /\ First(BenchmarkEnd) = "verdict"
  BY DEF BenchmarkHot, BenchmarkRestart, BenchmarkKill, BenchmarkEnd, First, Final
<1>3. /\ MayFollow("benchmark", Final(BenchmarkHot), First(BenchmarkRestart))
      /\ MayFollow("benchmark", Final(BenchmarkRestart), First(BenchmarkKill))
      /\ MayFollow("benchmark", Final(BenchmarkKill), First(BenchmarkEnd))
  BY <1>2 DEF MayFollow, Starts, Carry, Clear, AfterKill, Killers, Plain,
             Called, Between, Warm
<1>4. /\ Orderly("benchmark", BenchmarkHot \o BenchmarkRestart)
      /\ First(BenchmarkHot \o BenchmarkRestart) = First(BenchmarkHot)
      /\ Final(BenchmarkHot \o BenchmarkRestart) = Final(BenchmarkRestart)
  BY <1>1, <1>3, Joined
<1>5. /\ Orderly("benchmark", (BenchmarkHot \o BenchmarkRestart) \o BenchmarkKill)
      /\ First((BenchmarkHot \o BenchmarkRestart) \o BenchmarkKill) = First(BenchmarkHot)
      /\ Final((BenchmarkHot \o BenchmarkRestart) \o BenchmarkKill) = Final(BenchmarkKill)
  BY <1>1, <1>3, <1>4, Joined
<1>6. /\ Orderly("benchmark",
                 ((BenchmarkHot \o BenchmarkRestart) \o BenchmarkKill) \o BenchmarkEnd)
      /\ First(((BenchmarkHot \o BenchmarkRestart) \o BenchmarkKill) \o BenchmarkEnd)
         = First(BenchmarkHot)
  BY <1>1, <1>3, <1>5, Joined
<1>7. Benchmark = ((BenchmarkHot \o BenchmarkRestart) \o BenchmarkKill) \o BenchmarkEnd
  BY DEF Benchmark, BenchmarkEnd
<1> QED
  BY <1>1, <1>6, <1>7

LEMMA ScriptNames ==
  Scripts = {"demo", "tests", "smoke", "cycle", "concurrency", "trajectory", "cache",
             "failures", "updatekill", "benchmark"}
  BY DEF Scripts, Scenario

(* Every scenario keeps the order.                                         *)
LEMMA ScenarioOrder ==
  ASSUME NEW k \in Scripts
  PROVE  Orderly(k, Scenario[k]) /\ Opens(k, First(Scenario[k]))
<1>1. CASE k \in {"demo", "tests", "smoke", "cycle"}
  BY <1>1, DemoOrder, FaultTestOrder, SmokeOrder, CycleOrder DEF Scenario
<1>2. CASE k \in {"concurrency", "trajectory", "cache", "updatekill"}
  BY <1>2, ConcurrencyOrder, CacheOrder, UpdateKillOrder DEF Scenario
<1>3. CASE k \in {"failures", "benchmark"}
  BY <1>3, FailuresOrder, BenchmarkOrder DEF Scenario
<1> QED
  BY <1>1, <1>2, <1>3, ScriptNames


-----------------------------------------------------------------------------
(* The invariant, in two layers: what ranges over what, which controller   *)
(* this is and who owns the server; and, on top of it, who touches what    *)
(* while a cycle is under way.                                             *)

(* The main thread is about to take one of these steps.                    *)
AtStep(S) ==
    /\ stage = "run"
    /\ pc <= Len(Scenario[script])
    /\ Scenario[script][pc] \in S

AtEnd == stage = "run" /\ pc = Len(Scenario[script]) + 1

(* A server is stopped with its children by whoever owns the group, one    *)
(* that is starting is waited for and by nobody called, and os._exit finds *)
(* the server dead.                                                        *)
Hosted ==
    /\ script \in InProcess => proc = "none"
    /\ proc = "none" => ~workers
    /\ proc = "gone" /\ workers => script \notin KillsGroup
    /\ proc = "booting" => at = "idle" /\ (stage = "run" => AtStep({"serve"}))
    /\ script \in Killers /\ AtStep(AfterKill) => proc = "gone"

Aimed == at \in Calls => aim \in Targets

(* The fake engine is a call away, not a network.                          *)
Local == script \in InProcess => ~Remote

Base ==
    /\ script \in Scripts
    /\ XTypeOK
    /\ IInv
    /\ Aimed
    /\ Local
    /\ Hosted
    /\ NoOrphanServer

LEMMA Position ==
  ASSUME script \in Scripts
  PROVE  Len(Scenario[script]) \in Nat \ {0} /\ Scenario[script] \in Seq(Steps)
  BY ScenarioOrder, LenProperties DEF Orderly

(* A step that is taken belongs to its script ...                          *)
LEMMA StepBelongs ==
  ASSUME script \in Scripts, XTypeOK, NEW a, Now(a)
  PROVE  a \in Steps /\ Belongs(script, a)
<1>1. pc \in 1..Len(Scenario[script]) /\ Scenario[script][pc] = a
  BY Position DEF XTypeOK, Now
<1> QED
  BY <1>1, ScenarioOrder, ElementOfSeq DEF Orderly

(* ... and the one after it may follow.                                    *)
LEMMA StepOrder ==
  ASSUME script \in Scripts, XTypeOK, NEW a, Now(a), pc' = pc + 1, UNCHANGED script,
         NEW S, AtStep(S)'
  PROVE  \E b \in S : MayFollow(script, a, b)
<1>1. pc \in 1..(Len(Scenario[script]) - 1) /\ Scenario[script][pc] = a
  BY Position DEF XTypeOK, Now, AtStep
<1>2. MayFollow(script, a, Scenario[script][pc + 1]) /\ Scenario[script][pc + 1] \in S
  BY <1>1, ScenarioOrder DEF Orderly, AtStep
<1> QED
  BY <1>2

(* The opening of a scenario.                                              *)
LEMMA StepOpens ==
  ASSUME script \in Scripts, pc = 1, NEW S, AtStep(S)
  PROVE  \E b \in S : Opens(script, b)
  BY ScenarioOrder DEF AtStep, First

(* Every script begins with nothing running.                               *)
LEMMA BaseInit == XInit => Base
<1> SUFFICES ASSUME XInit PROVE Base
  OBVIOUS
<1>1. script \in Scripts
  BY DEF XInit
<1>2. XTypeOK
  <2>1. eng \in Engines /\ ~eng.up
    BY DEF XInit, SInit, Engines, FreshEngine, Labels, Weights
  <2>2. pc \in 1..(Len(Scenario[script]) + 1)
    BY <1>1, Position DEF XInit
  <2>3. state \in LifecycleState
    BY DEF XInit, SInit, Init, LifecycleState
  <2> QED
    BY <2>1, <2>2, <2>3 DEF XInit, SInit, XTypeOK
<1>3. IInv
  BY InitInv DEF XInit, SInit
<1>4. Hosted
  BY <1>1, StepOpens DEF XInit, SInit, Hosted, Opens
<1>5. Local
  BY DEF XInit, Local, Remote
<1> QED
  BY <1>1, <1>2, <1>3, <1>4, <1>5 DEF Base, Aimed, XInit, SInit, Calls, NoOrphanServer

(* How a step moves the main thread: not at all, on by one step of the     *)
(* scenario, or out of it.                                                 *)
Stays     == UNCHANGED runVars
Onward(a) ==
    /\ Now(a) /\ pc' = pc + 1
    /\ {good', verdict'} \subseteq BOOLEAN
    /\ UNCHANGED <<stage, code>>
Leaves    ==
    /\ stage # "exit" /\ stage' \in {"finally", "stop", "exit"}
    /\ code' # Running
    /\ UNCHANGED <<pc, good, verdict>>

LEMMA GoMoves ==
  ASSUME XTypeOK, NEW a, Now(a), Go
  PROVE  Onward(a)
  BY DEF Go, Record, Onward, XTypeOK

LEMMA LeaveMoves ==
  ASSUME stage = "run", NEW c \in {0, 1, 2, 3, Interrupted}, Leave(c) \/ Quit(c)
  PROVE  Leaves
  BY DEF Leave, Quit, Leaves, Running, Interrupted

LEMMA MovesTyped ==
  ASSUME script \in Scripts, XTypeOK, UNCHANGED script, Stays \/ Leaves \/ \E a : Onward(a)
  PROVE  /\ pc' \in 1..(Len(Scenario[script']) + 1)
         /\ stage' \in {"run", "finally", "stop", "exit"}
         /\ stage' = "run" <=> code' = Running
         /\ {good', verdict'} \subseteq BOOLEAN
<1>1. CASE Stays
  BY <1>1 DEF Stays, runVars, XTypeOK
<1>2. CASE Leaves
  BY <1>2 DEF Leaves, XTypeOK
<1>3. ASSUME NEW a, Onward(a)
      PROVE  /\ pc' \in 1..(Len(Scenario[script']) + 1)
             /\ UNCHANGED <<stage, code>> /\ {good', verdict'} \subseteq BOOLEAN
  BY <1>3, Position DEF Onward, Now, XTypeOK
<1> QED
  BY <1>1, <1>2, <1>3 DEF XTypeOK

LEMMA Moves ==
  ASSUME Base, XNext
  PROVE  Stays \/ Leaves \/ \E a : Onward(a)
<1>0. script \in Scripts /\ XTypeOK
  BY DEF Base
<1>1. CASE Launch \/ Cycling \/ RequestEnds \/ ThreadReleases \/ Crash
  BY <1>1 DEF Launch, Cycling, RequestEnds, ThreadReleases, Crash, Stays, runVars
<1>2. CASE Ready \/ Kill \/ Stop \/ NewController \/ Seed \/ Admit \/ Finish
  BY <1>0, <1>2, GoMoves DEF Ready, Kill, Stop, NewController, Seed, Admit, Finish
<1>3. CASE Mismatch \/ Abandon \/ Inject \/ Look \/ Join
  BY <1>0, <1>3, GoMoves DEF Mismatch, Abandon, Inject, Look, Join
<1>4. CASE (\E c \in {1, Interrupted} : NotReady(c)) \/ Interrupt \/ CallFails \/ Return
  BY <1>4, LeaveMoves DEF NotReady, Interrupt, CallFails, Raise, Return, Now
<1>5. CASE Bootstrap \/ RefusedAdoption
  BY <1>0, <1>5, GoMoves, LeaveMoves DEF Bootstrap, RefusedAdoption, Raise, Now
<1>6. CASE Touch
  BY <1>0, <1>6, GoMoves, LeaveMoves DEF Touch, Directly, Raise, Now
<1>7. CASE Generate \/ Stream \/ JoinRequest \/ Quiesce
  BY <1>0, <1>7, GoMoves, LeaveMoves DEF Generate, Stream, JoinRequest, Quiesce, Raise,
     Now
<1>8. CASE DrainByHand
  BY <1>0, <1>8, GoMoves, LeaveMoves DEF DrainByHand, Raise, Now
<1>9. CASE CallCycle \/ CycleEnds
  BY <1>0, <1>9, GoMoves, LeaveMoves DEF CallCycle, CycleEnds, Raise, Now, Stays, runVars
<1>10. CASE JoinHot \/ Hang
  BY <1>0, <1>10, GoMoves, LeaveMoves DEF JoinHot, Hang, Raise, Now
<1>11. CASE Check \/ Verdict
  BY <1>0, <1>11 DEF Check, Verdict, Record, Onward, XTypeOK
<1>12. CASE WriteReport \/ StopServer
  BY <1>0, <1>12 DEF WriteReport, StopServer, Leaves, Running, XTypeOK
<1> QED
  BY <1>1, <1>2, <1>3, <1>4, <1>5, <1>6, <1>7, <1>8, <1>9, <1>10, <1>11, <1>12
     DEF XNext, Main, Around

(* The engine, the server behind it and what is left of it.                *)
EngineTyped ==
    /\ eng \in Engines
    /\ proc \in {"none", "booting", "up", "gone", "ended"}
    /\ workers \in BOOLEAN
    /\ script \notin InProcess => (eng.up <=> proc = "up")

LEMMA TerminateTyped ==
  ASSUME EngineTyped, Terminate, UNCHANGED script
  PROVE  EngineTyped'
  BY DEF EngineTyped, Terminate, Engines

LEMMA DiesTyped ==
  ASSUME EngineTyped, Dies, proc' \in {"gone", "ended"}, workers' \in BOOLEAN,
         UNCHANGED script
  PROVE  EngineTyped'
  BY DEF EngineTyped, Dies, Engines

LEMMA DirectlyTyped ==
  ASSUME EngineTyped, NEW e \in Engines, e.up = eng.up, Directly(e), UNCHANGED script
  PROVE  EngineTyped'
  BY DEF EngineTyped, Directly, Lost, Quiet, hostVars

(* A call that raised may have had its effect.                             *)
LEMMA EffectTyped ==
  ASSUME EngineTyped, NEW op, NEW e \in Engines, e.up = eng.up, EffectRaises(op, e),
         UNCHANGED <<hostVars, script>>
  PROVE  EngineTyped'
  BY DEF EngineTyped, EffectRaises, Lost, hostVars

LEMMA CallTyped ==
  ASSUME EngineTyped, Aimed, CycleCall, UNCHANGED <<hostVars, script>>
  PROVE  EngineTyped'
<1>1. CASE UNCHANGED eng
  BY <1>1 DEF EngineTyped, hostVars
<1>2. CASE PauseReissued \/ BeginCycle \/ StartWeightUpdate
  BY <1>2 DEF EngineTyped, Engines, hostVars, PauseReissued, BeginCycle, StartWeightUpdate,
              Lost
<1>3. CASE SendWeights
  <2>1. ASSUME NEW w \in Weights
        PROVE  [eng EXCEPT !.weights = w] \in Engines /\ [eng EXCEPT !.weights = w].up = eng.up
    BY DEF EngineTyped, Engines
  <2>2. CASE eng' = [eng EXCEPT !.weights = "sent"]
    BY <2>1, <2>2 DEF EngineTyped, Weights, hostVars
  <2> QED
    BY <1>3, <2>1, <2>2, EffectTyped DEF SendWeights
<1>4. CASE FinishWeightUpdate
  <2> DEFINE finished == [eng EXCEPT !.label = aim.version, !.session = FALSE]
  <2>1. finished \in Engines /\ finished.up = eng.up
    BY <1>4 DEF FinishWeightUpdate, EngineTyped, Engines, Aimed, Calls, Targets, Labels
  <2>2. CASE eng' = finished
    BY <2>1, <2>2 DEF EngineTyped, hostVars
  <2> QED
    BY <1>4, <2>1, <2>2, EffectTyped DEF FinishWeightUpdate
<1>5. CASE InvalidateCaches
  <2>1. /\ [eng EXCEPT !.kv = None] \in Engines /\ [eng EXCEPT !.kv = None].up = eng.up
        /\ [eng EXCEPT !.kv = @] = eng
    BY DEF EngineTyped, Engines
  <2>2. CASE \E prefix \in BOOLEAN : eng' = [eng EXCEPT !.kv = IF prefix THEN None ELSE @]
    BY <2>1, <2>2 DEF EngineTyped, hostVars
  <2> QED
    BY <1>5, <2>1, <2>2, EffectTyped DEF InvalidateCaches
<1>6. CASE Resume
  <2>1. [eng EXCEPT !.paused = FALSE] \in Engines /\ [eng EXCEPT !.paused = FALSE].up = eng.up
    BY DEF EngineTyped, Engines
  <2>2. CASE eng' = [eng EXCEPT !.paused = FALSE]
    BY <2>1, <2>2 DEF EngineTyped, hostVars
  <2> QED
    BY <1>1, <1>6, <2>1, <2>2, EffectTyped DEF Resume
<1> QED
  BY <1>1, <1>2, <1>3, <1>4, <1>5, <1>6
     DEF CycleCall, AwaitDrain, DrainGivesUp, OpenUpdate, ValidatePreResume, Commit

LEMMA EngineStep ==
  ASSUME EveryGeneration, Base, XNext
  PROVE  EngineTyped'
<1>0. /\ script \in Scripts /\ XTypeOK /\ EngineTyped /\ UNCHANGED script
      /\ Aimed /\ Hosted
  BY DEF Base, XTypeOK, EngineTyped, XNext
<1>1. CASE UNCHANGED <<eng, proc, workers>>
  BY <1>0, <1>1 DEF EngineTyped
<1>2. CASE Launch
  BY <1>0, <1>2 DEF Launch, EngineTyped, Engines, FreshEngine, Labels, Weights
<1>3. CASE Ready
  BY <1>0, <1>3 DEF Ready, EngineTyped, Engines
<1>4. CASE \E c \in {1, Interrupted} : NotReady(c)
  BY <1>0, <1>4, TerminateTyped DEF NotReady, StopUnready, EngineTyped, stackVars
<1>5. CASE Kill \/ Crash
  BY <1>0, <1>5, DiesTyped DEF Kill, Crash
<1>6. CASE Stop \/ StopServer
  BY <1>0, <1>6, TerminateTyped DEF Stop, StopServer
<1>7. CASE Seed
  <2>1. script \in InProcess
    BY <1>0, <1>7, StepBelongs DEF Seed, Belongs
  <2> QED
    BY <1>0, <1>7, <2>1 DEF Seed, Quiet, hostVars, EngineTyped, Engines, FreshEngine,
       Labels,
                            Weights
<1>8. CASE Bootstrap
  BY <1>0, <1>8, VersionsAssumption DEF Bootstrap, Adopt, BootstrapRaises, Lost, Quiet,
     hostVars, EngineTyped, Engines, Labels
<1>9. CASE Touch
  <2>1. /\ [eng EXCEPT !.label = 2] \in Engines
        /\ [eng EXCEPT !.label = Unmanaged] \in Engines
        /\ [eng EXCEPT !.kv = None] \in Engines
        /\ [eng EXCEPT !.paused = FALSE] \in Engines
        /\ [eng EXCEPT !.weights = "corrupted", !.label = 2] \in Engines
    BY <1>0 DEF EngineTyped, Engines, Labels, Weights, EveryGeneration
  <2>2. ASSUME NEW e \in Engines, e.up = eng.up, Directly(e) PROVE EngineTyped'
    BY <1>0, <2>2, DirectlyTyped
  <2> QED
    BY <1>0, <1>9, <2>1, <2>2 DEF Touch, EngineTyped, Engines
<1>10. CASE Generate \/ DrainByHand \/ Quiesce
  BY <1>0, <1>10 DEF Generate, DrainByHand, Pause, Quiesce, Lost, Quiet, hostVars,
     EngineTyped, Engines
<1>11. CASE JoinHot
  BY <1>0, <1>11, TerminateTyped DEF JoinHot, hostVars, EngineTyped
<1>12. CASE Cycling
  BY <1>0, <1>12, CallTyped DEF Cycling, Quiet
<1>13. CASE NewController \/ Inject \/ RefusedAdoption \/ Admit \/ Stream \/ Finish
  BY <1>1, <1>13 DEF NewController, Inject, RefusedAdoption, Admit, Stream, Finish, Quiet,
                     hostVars, stackVars
<1>14. CASE JoinRequest \/ Mismatch \/ Abandon \/ CallCycle \/ CycleEnds
  BY <1>1, <1>14 DEF JoinRequest, Mismatch, Abandon, CallCycle, CycleEnds, Quiet,
                     hostVars, stackVars
<1>15. CASE \/ Look \/ Join \/ Check \/ Verdict \/ Hang \/ Return \/ Interrupt
            \/ CallFails \/ WriteReport
  BY <1>1, <1>15 DEF Look, Join, Check, Verdict, Hang, Return, Interrupt, CallFails,
     WriteReport, Quiet, hostVars, stackVars
<1>16. CASE RequestEnds \/ ThreadReleases
  BY <1>1, <1>16 DEF RequestEnds, ThreadReleases, Quiet, hostVars
<1> QED
  BY <1>2, <1>3, <1>4, <1>5, <1>6, <1>7, <1>8, <1>9, <1>10, <1>11, <1>12, <1>13, <1>14,
     <1>15,
     <1>16 DEF XNext, Main, Around

-----------------------------------------------------------------------------
(* The controller: a step of a script is a step of Lifecycle.tla, or it    *)
(* leaves the controller alone, or it makes a new one.                     *)

LEMMA SameController ==
  ASSUME IInv, UNCHANGED vars
  PROVE  IInv'
  BY NextPreserves

LEMMA ControllerMoves ==
  ASSUME IInv, Next
  PROVE  IInv'
  BY NextPreserves

LEMMA ControllerTainted ==
  ASSUME IInv, TaintWith
  PROVE  IInv'
  BY TaintPreserves

LEMMA AnotherController ==
  ASSUME Afresh
  PROVE  IInv'
  BY DEF Afresh, IInv, TypeOK, LifecycleState, FreshUntilBootstrap, DrainBeforeMutation,
         BoundToCommitted, PendingIsNewer, OrphansPredateUpdate,
         MutationStates, PendingStates, NoRollouts

(* The targets the scripts ask for.                                        *)
LEMMA NextTargets ==
  ASSUME EveryGeneration, IInv, NEW i \in {ModelA, ModelB}
  PROVE  NextTarget(i) \in Targets
<1>1. current = None \/ current.version + 1 \in Versions
  BY DEF IInv, TypeOK, Targets, EveryGeneration
<1>2. 1 \in Versions
  BY DEF EveryGeneration
<1> QED
  BY <1>1, <1>2, ModelAssumption DEF NextTarget, Targets

LEMMA AdoptMoves ==
  ASSUME Adopt, eng \in Engines
  PROVE  Next
<1> DEFINE e == [observed_engine_label |-> INITIAL_VERSION, pre_seed_label |-> eng.label,
                 weight_transfer_initialised |-> TRUE, has_driver |-> TRUE,
                 weight_identity |-> ModelA]
<1>1. e \in BootstrapEvidence
  BY VersionsAssumption, ModelAssumption DEF BootstrapEvidence, Labels, Engines
<1>2. Initialize(e)
  BY DEF Adopt
<1> QED
  BY <1>1, <1>2 DEF Next

(* What the runner shows the controller is evidence of the right shape.    *)
LEMMA ResumedMoves ==
  ASSUME NEW acknowledged \in BOOLEAN, NEW e \in Engines, aim \in Targets,
         Confirmed(acknowledged, e)
  PROVE  Next
<1> DEFINE evidence == [target |-> aim, resume_acknowledged |-> acknowledged,
                        is_paused |-> e.paused, observed_engine_label |-> e.label]
<1>1. evidence \in ResumeEvidence
  BY DEF ResumeEvidence, Engines
<1>2. ConfirmResumed(evidence)
  BY DEF Confirmed
<1> QED
  BY <1>1, <1>2 DEF Next

LEMMA CycleMoves ==
  ASSUME CycleCall, eng \in Engines, eng' \in Engines, Aimed
  PROVE  Next \/ TaintWith \/ UNCHANGED vars
<1>1. CASE UNCHANGED vars \/ TaintWith
  BY <1>1
<1>e. ASSUME NEW op, NEW e, EffectRaises(op, e) PROVE TaintWith \/ UNCHANGED vars
  BY <1>e DEF EffectRaises, EffectFails
<1>2. CASE BeginCycle
  BY <1>2 DEF BeginCycle, Next
<1>3. CASE AwaitDrain
  <2>1. [engine_drain_completed |-> TRUE, engine_busy |-> FALSE] \in DrainEvidence
    BY DEF DrainEvidence
  <2> QED
    BY <1>3, <2>1 DEF AwaitDrain, Next
<1>4. CASE OpenUpdate
  BY <1>4 DEF OpenUpdate, Next, Aimed, Calls
<1>5. CASE FinishWeightUpdate
  <2> DEFINE e == [target |-> aim, weights_loaded |-> TRUE, data_plane_complete |-> TRUE,
                   finish_acknowledged |-> TRUE, observed_identity |-> aim.identity]
  <2>1. e \in UpdateEvidence
    BY <1>5 DEF FinishWeightUpdate, Aimed, Calls, UpdateEvidence, Targets
  <2>2. CASE ConfirmUpdated(e)
    BY <2>1, <2>2 DEF Next
  <2> QED
    BY <1>5, <1>e, <2>2 DEF FinishWeightUpdate
<1>6. CASE InvalidateCaches
  <2> DEFINE e(p, o) == [prefix_cache_reset |-> p, encoder_cache_reset |-> o,
                         mm_cache_reset |-> o]
  <2>1. \A p, o \in BOOLEAN : e(p, o) \in InvalidateEvidence
    BY DEF InvalidateEvidence
  <2>2. CASE \E p, o \in BOOLEAN : ConfirmInvalidated(e(p, o))
    BY <2>1, <2>2 DEF Next
  <2> QED
    BY <1>6, <1>e, <2>2 DEF InvalidateCaches
<1>7. CASE ValidatePreResume
  <2> DEFINE clean == eng.kv = None
             e == [target |-> aim, observed_engine_label |-> eng.label,
                   is_paused |-> eng.paused, caches_still_clean |-> clean]
  <2>1. e \in ValidateEvidence
    BY <1>7 DEF ValidatePreResume, Aimed, Calls, ValidateEvidence, Engines
  <2>2. CASE ConfirmValidated(e)
    BY <2>1, <2>2 DEF Next
  <2> QED
    BY <1>7, <2>2 DEF ValidatePreResume
<1>8. CASE Resume \/ Commit
  <2>1. aim \in Targets
    BY <1>8 DEF Resume, Commit, Aimed, Calls
  <2>2. CASE Confirmed(FALSE, eng') \/ Confirmed(TRUE, eng)
    BY <2>1, <2>2, ResumedMoves
  <2> QED
    BY <1>8, <1>e, <2>2 DEF Resume, Commit, EffectFails
<1> QED
  BY <1>1, <1>e, <1>2, <1>3, <1>4, <1>5, <1>6, <1>7, <1>8
     DEF CycleCall, PauseReissued, DrainGivesUp, StartWeightUpdate, SendWeights, EffectFails

LEMMA ControllerStep ==
  ASSUME EveryGeneration, Base, XNext
  PROVE  IInv'
<1>0. IInv /\ Aimed /\ eng \in Engines /\ eng' \in Engines
  BY EngineStep DEF Base, XTypeOK, EngineTyped
<1>1. CASE UNCHANGED vars
  BY <1>0, <1>1, SameController
<1>2. CASE TaintWith
  BY <1>0, <1>2, ControllerTainted
<1>3. CASE NewController \/ Seed
  BY <1>3, AnotherController DEF NewController, Seed
<1>4. CASE Next
  BY <1>0, <1>4, ControllerMoves
<1>5. CASE Bootstrap
  BY <1>0, <1>1, <1>2, <1>4, <1>5, AdoptMoves DEF Bootstrap, BootstrapRaises
<1>6. CASE Admit \/ Finish \/ Abandon
  BY <1>4, <1>6 DEF Admit, Finish, Abandon, Next
<1>7. CASE DrainByHand
  BY <1>4, <1>7 DEF DrainByHand, Pause, Next
<1>8. CASE Quiesce
  <2>1. [engine_drain_completed |-> TRUE, engine_busy |-> FALSE] \in DrainEvidence
    BY DEF DrainEvidence
  <2> QED
    BY <1>1, <1>4, <1>8, <2>1 DEF Quiesce, Next
<1>9. CASE Mismatch
  BY <1>0, <1>4, <1>9, NextTargets DEF Mismatch, Next
<1>10. CASE ThreadReleases
  BY <1>1, <1>4, <1>10 DEF ThreadReleases, Next
<1>11. CASE Cycling
  BY <1>0, <1>1, <1>2, <1>4, <1>11, CycleMoves DEF Cycling
<1>12. CASE \/ Launch \/ Ready \/ Kill \/ Stop \/ Crash
            \/ \E c \in {1, Interrupted} : NotReady(c)
  BY <1>1, <1>12 DEF Launch, Ready, NotReady, Kill, Stop, Crash, Dies
<1>13. CASE Inject \/ RefusedAdoption \/ Touch \/ Generate \/ Stream \/ JoinRequest
  BY <1>1, <1>13 DEF Inject, RefusedAdoption, Touch, Directly, Generate, Stream,
     JoinRequest
<1>14. CASE CallCycle \/ CycleEnds \/ Look \/ Join \/ JoinHot \/ Check \/ Verdict \/ Hang
  BY <1>1, <1>14 DEF CallCycle, CycleEnds, Look, Join, JoinHot, Check, Verdict, Hang
<1>15. CASE Return \/ Interrupt \/ CallFails \/ WriteReport \/ StopServer \/ RequestEnds
  BY <1>1, <1>15 DEF Return, Interrupt, CallFails, WriteReport, StopServer, RequestEnds
<1> QED
  BY <1>3, <1>5, <1>6, <1>7, <1>8, <1>9, <1>10, <1>11, <1>12, <1>13, <1>14, <1>15
     DEF XNext, Main, Around

(* The steps that call a cycle or take its outcome; no other moves it.     *)
LEMMA CycleUntouched ==
  ASSUME XNext
  PROVE  \/ UNCHANGED <<at, aim, before, byHand>>
         \/ at' = "idle" /\ UNCHANGED <<aim, before, byHand>>
         \/ CallCycle \/ Cycling
<1>1. CASE \/ Launch \/ Ready \/ Kill \/ Stop \/ Crash
           \/ \E c \in {1, Interrupted} : NotReady(c)
  BY <1>1 DEF Launch, Ready, NotReady, Kill, Stop, Crash, Dies, stackVars
<1>2. CASE NewController \/ Seed \/ Inject \/ Bootstrap \/ RefusedAdoption \/ Touch
  BY <1>2 DEF NewController, Seed, Afresh, Inject, Bootstrap, RefusedAdoption, Touch,
     Directly,
              SameCycle, stackVars
<1>3. CASE Generate \/ Admit \/ Stream \/ Finish \/ JoinRequest \/ DrainByHand \/ Quiesce
  BY <1>3 DEF Generate, Admit, Stream, Finish, JoinRequest, DrainByHand, Pause, Quiesce,
              SameCycle, stackVars
<1>4. CASE Mismatch \/ Abandon \/ CycleEnds \/ Look \/ Join \/ JoinHot \/ Check \/ Verdict
  BY <1>4 DEF Mismatch, Abandon, CycleEnds, Look, Join, JoinHot, Check, Verdict, stackVars
<1>5. CASE Hang \/ Return \/ Interrupt \/ CallFails \/ WriteReport \/ StopServer
           \/ RequestEnds \/ ThreadReleases
  BY <1>5 DEF Hang, Return, Interrupt, CallFails, WriteReport, StopServer, RequestEnds,
              ThreadReleases, SameCycle, stackVars
<1> QED
  BY <1>1, <1>2, <1>3, <1>4, <1>5 DEF XNext, Main, Around

LEMMA CycleStaysTyped ==
  ASSUME Cycling
  PROVE  at \in Calls /\ at' \in Calls \cup Outcomes /\ UNCHANGED <<aim, before, byHand>>
  BY DEF Cycling, CycleCall, Calls, Outcomes, PauseReissued, BeginCycle, AwaitDrain,
         DrainGivesUp, OpenUpdate, StartWeightUpdate, SendWeights, FinishWeightUpdate,
         InvalidateCaches, ValidatePreResume, Resume, Commit, EffectRaises, EffectFails

LEMMA CallTargets ==
  ASSUME EveryGeneration, IInv, CallCycle
  PROVE  /\ at' \in {"called", "begin"} /\ aim' \in Targets /\ before' = current
         /\ UNCHANGED <<vars, eng, faults>>
<1>1. NextTarget(ModelA) \in Targets /\ NextTarget(ModelB) \in Targets
  BY NextTargets
<1> QED
  BY <1>1 DEF CallCycle, Call

LEMMA AimStep ==
  ASSUME EveryGeneration, Base, XNext
  PROVE  Aimed' /\ at' \in {"idle"} \cup Calls \cup Outcomes
<1>0. IInv /\ Aimed /\ at \in {"idle"} \cup Calls \cup Outcomes
  BY DEF Base, XTypeOK
<1>1. CASE UNCHANGED <<at, aim>>
  BY <1>0, <1>1 DEF Aimed
<1>2. CASE at' = "idle"
  BY <1>2 DEF Aimed, Calls
<1>3. CASE CallCycle
  BY <1>0, <1>3, CallTargets DEF Aimed, Calls
<1>4. CASE Cycling
  BY <1>0, <1>4, CycleStaysTyped DEF Aimed
<1> QED
  BY <1>1, <1>2, <1>3, <1>4, CycleUntouched

(* The request, the notes and the report.                                  *)
Noted ==
    /\ request \in {"none", "running", "answered", "released", "aborted", "failed"}
    /\ used \subseteq Weights
    /\ report \in {"earlier", "green", "red", "torn"}
    /\ {writeFailed, reused, hung} \subseteq BOOLEAN

LEMMA NotedStep ==
  ASSUME EveryGeneration, Base, XNext
  PROVE  Noted'
<1>0. Noted /\ eng \in Engines /\ eng' \in Engines
  BY EngineStep DEF Base, XTypeOK, Noted, EngineTyped
<1>1. CASE \/ Launch \/ Ready \/ Kill \/ Stop \/ Crash
           \/ \E c \in {1, Interrupted} : NotReady(c)
  BY <1>0, <1>1 DEF Noted, Launch, Ready, NotReady, Kill, Stop, Crash, Dies, stackVars,
     noteVars
<1>2. CASE NewController \/ Seed \/ Inject \/ Bootstrap \/ RefusedAdoption \/ Touch
  BY <1>0, <1>2 DEF Noted, NewController, Seed, Afresh, Inject, Bootstrap,
     RefusedAdoption,
              Touch, Directly, stackVars, Quiet, noteVars, hostVars
<1>3. CASE Generate \/ Admit \/ Stream \/ Finish \/ JoinRequest
  BY <1>0, <1>3 DEF Noted, Generate, Admit, Stream, Finish, JoinRequest, Engines,
              stackVars, Quiet, noteVars, hostVars
<1>4. CASE DrainByHand \/ Quiesce
  BY <1>0, <1>4 DEF Noted, DrainByHand, Pause, Straggling, Quiesce, stackVars, Quiet,
     noteVars, hostVars
<1>5. CASE Mismatch \/ Abandon \/ CallCycle \/ CycleEnds \/ Look \/ Join \/ Check
           \/ Verdict
  BY <1>0, <1>5 DEF Noted, Mismatch, Abandon, CallCycle, CycleEnds, Look, Join, Check,
     Verdict,
              stackVars, Quiet, noteVars, hostVars
<1>6. CASE JoinHot \/ Hang \/ WriteReport
  BY <1>0, <1>6 DEF Noted, JoinHot, Hang, WriteReport, Written, stackVars, noteVars,
     hostVars
<1>7. CASE Return \/ Interrupt \/ CallFails \/ StopServer \/ RequestEnds \/ ThreadReleases
  BY <1>0, <1>7 DEF Noted, Return, Interrupt, CallFails, StopServer, RequestEnds,
              ThreadReleases, stackVars, Quiet, noteVars, hostVars
<1>8. CASE Cycling
  BY <1>0, <1>8 DEF Noted, Cycling, CycleCall, PauseReissued, Engines, Quiet, noteVars,
     hostVars
<1> QED
  BY <1>1, <1>2, <1>3, <1>4, <1>5, <1>6, <1>7, <1>8 DEF XNext, Main, Around

LEMMA TypeStep ==
  ASSUME EveryGeneration, Base, XNext
  PROVE  XTypeOK'
<1>1. script \in Scripts /\ XTypeOK /\ UNCHANGED script
  BY DEF Base, XNext
<1>2. state' \in LifecycleState
  BY ControllerStep DEF IInv, TypeOK
<1> QED
  BY <1>1, <1>2, Moves, MovesTyped, EngineStep, AimStep, NotedStep
     DEF XTypeOK, EngineTyped, Noted

-----------------------------------------------------------------------------
(* The server.                                                             *)

(* While it starts the main thread waits for it ...                        *)
LEMMA ServeSteps ==
  ASSUME script \in Scripts, XTypeOK, XNext, Now("serve")
  PROVE  Launch \/ Ready \/ (\E c \in {1, Interrupted} : NotReady(c)) \/ Cycling
         \/ RequestEnds \/ ThreadReleases \/ Crash
<1>1. ~(Kill \/ Stop \/ NewController \/ Seed \/ Inject \/ Bootstrap \/ RefusedAdoption)
  BY DEF Now, Kill, Stop, NewController, Seed, Inject, Bootstrap, RefusedAdoption
<1>2. ~(Touch \/ Generate \/ Admit \/ Stream \/ Finish \/ JoinRequest \/ DrainByHand
        \/ Quiesce)
  BY DEF Now, Touch, Generate, Admit, Stream, Finish, JoinRequest, DrainByHand, Quiesce
<1>3. ~(Mismatch \/ Abandon \/ CallCycle \/ CycleEnds \/ Look \/ Join \/ JoinHot)
  BY DEF Now, Mismatch, Abandon, CallCycle, CycleEnds, Look, Join, JoinHot
<1>4. /\ ~(Check \/ Verdict \/ Hang \/ Return \/ Interrupt \/ CallFails)
      /\ ~(WriteReport \/ StopServer)
  <2>1. pc \in Nat /\ Len(Scenario[script]) \in Nat
    BY Position DEF XTypeOK
  <2> QED
    BY <2>1 DEF Now, Check, Checks, Verdict, Hang, Return, Interrupt, CallFails,
       WriteReport, StopServer
<1> QED
  BY <1>1, <1>2, <1>3, <1>4 DEF XNext, Main, Around

(* ... and nothing takes the main thread past a kill but the kill.         *)
LEMMA KillSteps ==
  ASSUME script \in Scripts, XTypeOK, XNext, Now("kill"), pc' # pc
  PROVE  Kill
<1>1. ~(Launch \/ Ready \/ Stop \/ NewController \/ Seed \/ Inject \/ Bootstrap
        \/ RefusedAdoption)
  BY DEF Now, Launch, Ready, Stop, NewController, Seed, Inject, Bootstrap, RefusedAdoption
<1>2. ~(Touch \/ Generate \/ Admit \/ Stream \/ Finish \/ JoinRequest \/ DrainByHand
        \/ Quiesce)
  BY DEF Now, Touch, Generate, Admit, Stream, Finish, JoinRequest, DrainByHand, Quiesce
<1>3. ~(Mismatch \/ Abandon \/ CallCycle \/ CycleEnds \/ Look \/ Join \/ JoinHot)
  BY DEF Now, Mismatch, Abandon, CallCycle, CycleEnds, Look, Join, JoinHot
<1>4. ~(Check \/ Verdict \/ Hang \/ Return \/ WriteReport \/ StopServer)
  BY DEF Now, Check, Checks, Verdict, Hang, Return, Leave, WriteReport, StopServer
<1>5. ~(Cycling \/ RequestEnds \/ ThreadReleases \/ Crash \/ Interrupt \/ CallFails)
      /\ \A c \in {1, Interrupted} : ~NotReady(c)
  BY DEF Now, Cycling, RequestEnds, ThreadReleases, Crash, Interrupt, CallFails, Raise,
     Leave, NotReady, runVars
<1> QED
  BY <1>1, <1>2, <1>3, <1>4, <1>5 DEF XNext, Main, Around

(* What becomes of the process and its children.                           *)
LEMMA ServerMoves ==
  ASSUME XNext
  PROVE  \/ UNCHANGED <<proc, workers>>
         \/ Launch
         \/ Ready
         \/ proc \in {"booting", "up"} /\ proc' = "ended"
         \/ /\ proc' = "gone" /\ (workers' => script \notin KillsGroup)
            /\ Kill \/ proc \in {"booting", "up"}
<1>1. CASE Terminate
  BY <1>1 DEF Terminate
<1>2. CASE \E c \in {1, Interrupted} : NotReady(c)
  BY <1>1, <1>2 DEF NotReady, StopUnready
<1>3. CASE Stop \/ StopServer
  BY <1>1, <1>3 DEF Stop, StopServer
<1>4. CASE JoinHot
  BY <1>1, <1>4 DEF JoinHot, hostVars
<1>5. CASE Kill \/ Crash
  BY <1>5 DEF Kill, Crash
<1>6. CASE NewController \/ Seed \/ Inject \/ Bootstrap \/ RefusedAdoption \/ Touch
           \/ Generate
  BY <1>6 DEF NewController, Seed, Inject, Bootstrap, RefusedAdoption, Touch, Directly,
     Generate,
              Quiet, hostVars
<1>7. CASE Admit \/ Stream \/ Finish \/ JoinRequest \/ DrainByHand \/ Quiesce \/ Mismatch
  BY <1>7 DEF Admit, Stream, Finish, JoinRequest, DrainByHand, Pause, Quiesce, Mismatch,
     Quiet,
              hostVars
<1>8. CASE Abandon \/ CallCycle \/ CycleEnds \/ Look \/ Join \/ Check \/ Verdict \/ Hang
           \/ Return
  BY <1>8 DEF Abandon, CallCycle, CycleEnds, Look, Join, Check, Verdict, Hang, Return,
     Quiet,
              hostVars
<1>9. CASE WriteReport \/ Cycling \/ RequestEnds \/ ThreadReleases \/ Interrupt \/ CallFails
  BY <1>9 DEF WriteReport, Cycling, RequestEnds, ThreadReleases, Interrupt, CallFails,
     Quiet, hostVars
<1> QED
  BY <1>2, <1>3, <1>4, <1>5, <1>6, <1>7, <1>8, <1>9 DEF XNext, Main, Around

LEMMA HostStep ==
  ASSUME EveryGeneration, Base, XNext
  PROVE  Hosted'
<1>0. script \in Scripts /\ XTypeOK /\ Hosted /\ UNCHANGED script
  BY DEF Base, XNext
<1>1. CASE Launch
  <2>1. script \notin InProcess
    BY <1>0, <1>1, StepBelongs DEF Launch, Belongs
  <2>2. Now("serve") /\ UNCHANGED <<pc, stage>> /\ proc' = "booting" /\ at' = "idle"
    BY <1>1 DEF Launch, runVars
  <2>3. "serve" \notin AfterKill
    BY DEF AfterKill
  <2> QED
    BY <1>0, <2>1, <2>2, <2>3 DEF Hosted, AtStep, Now
<1>2. CASE Ready
  <2>1. Now("serve") /\ pc' = pc + 1 /\ proc' = "up" /\ proc = "booting"
    BY <1>2 DEF Ready, Go, Record
  <2>2. ~(script \in Killers /\ AtStep(AfterKill)')
    <3> SUFFICES ASSUME script \in Killers, AtStep(AfterKill)' PROVE FALSE
      OBVIOUS
    <3>1. \E b \in AfterKill : MayFollow(script, "serve", b)
      BY <1>0, <2>1, StepOrder
    <3> QED
      BY <3>1 DEF MayFollow, AfterKill
  <2> QED
    BY <1>0, <2>1, <2>2 DEF Hosted
<1>3. CASE ~Launch /\ ~Ready
  <2>1. script \in InProcess => proc' = "none"
    <3>1. ~(script \in InProcess /\ Kill)
      BY <1>0, StepBelongs DEF Kill, Belongs
    <3> QED
      BY <1>0, <1>3, <3>1, ServerMoves DEF Hosted
  <2>2. /\ proc' = "none" => ~workers'
        /\ proc' = "gone" /\ workers' => script' \notin KillsGroup
    BY <1>0, <1>3, ServerMoves DEF Hosted
  <2>3. ASSUME proc' = "booting" PROVE at' = "idle" /\ (stage' = "run" => AtStep({"serve"})')
    <3>1. proc = "booting" /\ at = "idle" /\ (stage = "run" => Now("serve"))
      BY <1>0, <1>3, <2>3, ServerMoves DEF Hosted, AtStep, Now
    <3>2. ~Cycling
      BY <3>1, CycleStaysTyped DEF Calls
    <3>3. ~CallCycle
      BY <3>1 DEF CallCycle, Now
    <3>4. CASE stage = "run"
      <4>1. UNCHANGED <<pc, stage>> \/ stage' # "run"
        BY <1>0, <1>3, <3>1, <3>2, <3>4, ServeSteps
           DEF NotReady, Leave, Quit, RequestEnds, ThreadReleases, Crash, runVars
      <4> QED
        BY <1>0, <3>1, <3>2, <3>3, <3>4, <4>1, CycleUntouched DEF AtStep, Now
    <3>5. CASE stage # "run"
      BY <3>1, <3>2, <3>3, <3>5, CycleUntouched, Moves DEF Stays, runVars, Onward, Now,
         Leaves
    <3> QED
      BY <3>4, <3>5
  <2>4. ASSUME script \in Killers, AtStep(AfterKill)' PROVE proc' = "gone"
    <3>1. CASE Kill
      BY <3>1 DEF Kill
    <3>2. CASE proc = "gone"
      BY <1>3, <3>2, ServerMoves
    <3>3. CASE Stays
      BY <1>0, <2>4, <3>2, <3>3 DEF Stays, runVars, AtStep, Hosted
    <3>4. CASE Leaves
      BY <2>4, <3>4 DEF Leaves, AtStep
    <3>5. ASSUME NEW a, Onward(a) PROVE proc' = "gone"
      <4>1. a \in {"kill"} \cup AfterKill
        BY <1>0, <2>4, <3>5, StepOrder DEF Onward, MayFollow
      <4>2. CASE a = "kill"
        BY <1>0, <3>1, <3>5, <4>2, KillSteps DEF Onward, XTypeOK
      <4>3. CASE a \in AfterKill
        BY <1>0, <2>4, <3>2, <3>5, <4>3 DEF Onward, Now, AtStep, Hosted
      <4> QED
        BY <4>1, <4>2, <4>3
    <3> QED
      BY <3>3, <3>4, <3>5, Moves
  <2> QED
    BY <1>0, <2>1, <2>2, <2>3, <2>4 DEF Hosted
<1> QED
  BY <1>1, <1>2, <1>3

(* A script that has left does nothing more ...                            *)
LEMMA ExitIsFinal ==
  ASSUME XNext
  PROVE  stage # "exit"
<1> SUFFICES ASSUME stage = "exit" PROVE FALSE
  OBVIOUS
<1>1. ~(Launch \/ Ready \/ Kill \/ Stop \/ NewController \/ Seed \/ Inject \/ Bootstrap)
  BY DEF Now, Launch, Ready, Kill, Stop, NewController, Seed, Inject, Bootstrap
<1>2. ~(Touch \/ Generate \/ Admit \/ Stream \/ Finish \/ JoinRequest \/ DrainByHand
        \/ Quiesce)
  BY DEF Now, Touch, Generate, Admit, Stream, Finish, JoinRequest, DrainByHand, Quiesce
<1>3. ~(RefusedAdoption \/ Mismatch \/ Abandon \/ CallCycle \/ CycleEnds \/ Look \/ Join
        \/ JoinHot)
  BY DEF Now, RefusedAdoption, Mismatch, Abandon, CallCycle, CycleEnds, Look, Join,
     JoinHot
<1>4. /\ ~(Check \/ Verdict \/ Hang \/ Return \/ Interrupt \/ CallFails)
      /\ ~(WriteReport \/ StopServer)
  BY DEF Now, Check, Verdict, Hang, Return, Interrupt, CallFails, WriteReport, StopServer
<1>5. ~(Cycling \/ RequestEnds \/ ThreadReleases \/ Crash)
      /\ \A c \in {1, Interrupted} : ~NotReady(c)
  BY DEF Now, Cycling, RequestEnds, ThreadReleases, Crash, NotReady
<1> QED
  BY <1>1, <1>2, <1>3, <1>4, <1>5 DEF XNext, Main, Around

(* ... and these are the ways out; the others go by the finally, unless    *)
(* the script has no server.                                               *)
LEMMA WaysOut ==
  ASSUME XNext, stage' = "exit", script \notin InProcess
  PROVE  JoinHot \/ Hang \/ WriteReport \/ StopServer
         \/ \E c \in {1, Interrupted} : NotReady(c)
<1>0. stage # "exit"
  BY ExitIsFinal
<1>1. ASSUME NEW c, Leave(c) PROVE FALSE
  BY <1>1 DEF Leave
<1>2. ~Go
  BY <1>0 DEF Go, Record
<1>3. ~(Launch \/ Ready \/ Kill \/ Stop \/ NewController \/ Seed \/ Inject)
  BY <1>0, <1>2 DEF Launch, Ready, Kill, Stop, NewController, Seed, Inject, runVars
<1>4. ~(Bootstrap \/ RefusedAdoption \/ Touch \/ Generate \/ Admit \/ Stream \/ Finish)
  BY <1>1, <1>2 DEF Bootstrap, RefusedAdoption, Touch, Directly, Generate, Admit, Stream,
                    Finish, Raise
<1>5. ~(JoinRequest \/ DrainByHand \/ Quiesce \/ Mismatch \/ Abandon \/ Look \/ Join)
  BY <1>1, <1>2 DEF JoinRequest, DrainByHand, Quiesce, Mismatch, Abandon, Look, Join,
     Raise
<1>6. ~(CallCycle \/ CycleEnds \/ Check \/ Verdict \/ Return \/ Interrupt \/ CallFails)
  BY <1>0, <1>1, <1>2 DEF CallCycle, CycleEnds, Check, Record, Verdict, Return, Interrupt,
                          CallFails, Raise, runVars
<1>7. ~(Cycling \/ RequestEnds \/ ThreadReleases \/ Crash)
  BY <1>0 DEF Cycling, RequestEnds, ThreadReleases, Crash, runVars
<1> QED
  BY <1>3, <1>4, <1>5, <1>6, <1>7 DEF XNext, Main, Around

LEMMA OwnStep ==
  ASSUME EveryGeneration, Base, XNext
  PROVE  NoOrphanServer'
<1>0. /\ script \in Scripts /\ XTypeOK /\ Hosted /\ UNCHANGED script
      /\ XTypeOK' /\ Hosted'
  BY TypeStep, HostStep DEF Base, XNext
<1> SUFFICES ASSUME stage' = "exit", ~writeFailed'
             PROVE  /\ proc' \in {"none", "gone", "ended"}
                    /\ workers' => script' \notin KillsGroup \/ proc' = "ended"
  BY DEF NoOrphanServer
<1>1. CASE proc' \in {"none", "gone", "ended"}
  BY <1>0, <1>1 DEF Hosted
<1>2. CASE script \in InProcess
  BY <1>0, <1>1, <1>2 DEF Hosted
<1>3. CASE Terminate
  BY <1>0, <1>1, <1>3 DEF Terminate, XTypeOK
<1>4. CASE JoinHot
  <2>1. Now("join hot") /\ ~Go
    BY <1>4 DEF JoinHot, Go, Record, Now
  <2>2. CASE Raise
    BY <1>2, <2>2 DEF Raise, Leave
  <2> QED
    BY <1>3, <1>4, <2>1, <2>2 DEF JoinHot
<1>5. CASE StopServer
  BY <1>3, <1>5 DEF StopServer
<1>6. CASE \E c \in {1, Interrupted} : NotReady(c)
  <2>1. PICK c \in {1, Interrupted} : NotReady(c)
    BY <1>6
  <2>2. CASE script = "smoke"
    BY <1>2, <2>1, <2>2 DEF NotReady, ServesInTry, Leave
  <2>3. CASE script # "smoke"
    BY <1>1, <1>3, <2>1, <2>3 DEF NotReady, StopUnready
  <2> QED
    BY <2>2, <2>3
<1>7. CASE Hang
  <2>1. script \in Killers /\ AtStep(AfterKill)
    BY <1>0, <1>7, StepBelongs DEF Hang, Belongs, Now, AtStep, AfterKill
  <2> QED
    BY <1>0, <1>1, <1>7, <2>1 DEF Hang, Hosted
<1>8. CASE WriteReport
  BY <1>8 DEF WriteReport
<1> QED
  BY <1>2, <1>4, <1>5, <1>6, <1>7, <1>8, WaysOut

(* Only the fake engine is told what to refuse, and by name.               *)
LEMMA FaultsStep ==
  ASSUME XNext
  PROVE  \/ UNCHANGED faults
         \/ faults' = {}
         \/ \E f \in Faults : faults' = {f}
<1>1. CASE Seed \/ Inject
  BY <1>1 DEF Seed, Inject, Faults
<1>2. CASE \/ Launch \/ Ready \/ Kill \/ Stop \/ Crash \/ NewController
           \/ \E c \in {1, Interrupted} : NotReady(c)
  BY <1>2 DEF Launch, Ready, NotReady, Kill, Stop, Crash, Dies, NewController, stackVars
<1>3. CASE Bootstrap \/ RefusedAdoption \/ Touch \/ Generate \/ Admit \/ Stream \/ Finish
  BY <1>3 DEF Bootstrap, RefusedAdoption, Touch, Directly, Generate, Admit, Stream, Finish,
              SameCycle, stackVars
<1>4. CASE JoinRequest \/ DrainByHand \/ Quiesce \/ Mismatch \/ Abandon \/ CallCycle
  BY <1>4 DEF JoinRequest, DrainByHand, Pause, Quiesce, Mismatch, Abandon, CallCycle,
              SameCycle, stackVars
<1>5. CASE CycleEnds \/ Look \/ Join \/ JoinHot \/ Check \/ Verdict \/ Hang \/ Return
  BY <1>5 DEF CycleEnds, Look, Join, JoinHot, Check, Verdict, Hang, Return, stackVars
<1>6. CASE Interrupt \/ CallFails \/ WriteReport \/ StopServer
  BY <1>6 DEF Interrupt, CallFails, WriteReport, StopServer, stackVars
<1>7. CASE RequestEnds \/ ThreadReleases \/ Cycling
  BY <1>7 DEF RequestEnds, ThreadReleases, Cycling, CycleCall, SameCycle
<1> QED
  BY <1>1, <1>2, <1>3, <1>4, <1>5, <1>6, <1>7 DEF XNext, Main, Around

LEMMA LocalStep ==
  ASSUME Base, XNext
  PROVE  Local'
<1>1. Local /\ UNCHANGED script
  BY DEF Base, XNext
<1>2. "network" \notin Faults
  BY DEF Faults
<1>3. "network" \in faults' => "network" \in faults
  BY <1>2, FaultsStep
<1> QED
  BY <1>1, <1>3 DEF Local, Remote

LEMMA BaseStep ==
  ASSUME EveryGeneration, Base, [XNext]_xvars
  PROVE  Base'
<1>1. CASE XNext
  BY <1>1, TypeStep, ControllerStep, AimStep, LocalStep, HostStep, OwnStep DEF Base, XNext
<1>2. CASE UNCHANGED xvars
  <2>1. IInv'
    BY <1>2, SameController DEF Base, xvars
  <2>2. /\ UNCHANGED <<state, eng, faults, at, aim, request, used>>
        /\ UNCHANGED <<script, runVars, hostVars, reused, hung>>
    BY <1>2 DEF xvars, vars, stackVars, noteVars
  <2>3. XTypeOK'
    BY <2>2 DEF Base, XTypeOK, runVars, hostVars
  <2>4. Aimed' /\ Local'
    BY <2>2 DEF Base, Aimed, Local, Remote
  <2>5. Hosted'
    BY <2>2 DEF Base, Hosted, AtStep, runVars, hostVars
  <2>6. NoOrphanServer'
    BY <2>2 DEF Base, NoOrphanServer, runVars, hostVars
  <2> QED
    BY <2>1, <2>2, <2>3, <2>4, <2>5, <2>6 DEF Base
<1> QED
  BY <1>1, <1>2

(* Types, the controller's own invariant, and who owns the server.         *)
THEOREM BaseInductive ==
  ASSUME EveryGeneration
  PROVE  XSpec => []Base
<1>1. Base /\ [XNext]_xvars => Base'
  BY BaseStep
<1> QED
  BY BaseInit, <1>1, PTL DEF XSpec

(* The variables of the scripts range over what Experiments.tla declares,  *)
(* and the exit code exists exactly when the run was left.                 *)
THEOREM ScriptsTypeCorrect ==
  ASSUME EveryGeneration
  PROVE  XSpec => []XTypeOK
  BY BaseInductive, PTL DEF Base

(* start_vllm_server, stop_vllm_server and the finally blocks: no server   *)
(* outlives its script, whatever crashed, hung or was interrupted.         *)
THEOREM ServersAreStopped ==
  ASSUME EveryGeneration
  PROVE  XSpec => []NoOrphanServer
  BY BaseInductive, PTL DEF Base

-----------------------------------------------------------------------------
(* The cycle.                                                              *)

(* Nobody but the cycle touches the stack from its call to its outcome.    *)
Undisturbed == stage = "run" /\ at # "idle" => AtEnd \/ AtStep(Carry \cup Clear)

Sealed   == eng.up => eng.paused
Labelled == eng.up => eng.label = current.version

(* The cache diagnostic writes another label in its tenth step.            *)
Unspoiled == script = "cache" => pc <= 10

(* What a scenario prepared before it calls a cycle: a drained engine, an  *)
(* engine that is dead, or a serving controller that knows the label.      *)
ByHand   == {"by hand"}
Drained  == script = "failures" /\ AtStep(ByHand) => Sealed
InCycle  == script = "failures" /\ AtStep({"cycle"}) => at # "idle"
Deathbed == script = "failures" /\ stage = "run" /\ pc \in 24..29 => ~eng.up
Serving  ==
    script \in Plain /\ AtStep(Called \cup Between) /\ at = "idle" =>
        state = "READY" /\ (Unspoiled => Labelled)
Measured ==
    script = "benchmark" =>
        /\ AtStep(Warm) /\ pc > 1 => at = "idle" /\ state = "READY"
        /\ stage = "run" /\ pc \in {3, 4, 14} => Labelled

Prepared == Drained /\ InCycle /\ Deathbed /\ Serving /\ Measured

(* Where the controller and the engine stand at each call of the cycle.    *)
Opened(s) == state = s /\ pending = aim

CallHolds ==
    /\ at \in Calls => current = before
    /\ at = "called" /\ eng.up => state = "READY" /\ eng.label = before.version
    /\ at = "pause" => state = "DRAINING" /\ (eng.up => eng.label = before.version)
    /\ at \in {"begin", "start", "transfer", "finish", "invalidate", "validate", "resume"}
          => Sealed
    /\ at \in {"start", "transfer", "finish"} => Opened("UPDATING")
    /\ at = "invalidate" => Opened("INVALIDATING")
    /\ at = "validate" => Opened("VALIDATING")
    /\ at \in {"resume", "commit"} =>
          Opened("RESUMING") /\ eng.label = aim.version /\ eng.kv = None
    /\ at \in {"finish", "invalidate", "validate", "resume", "commit", "returned"} =>
          eng.weights = "sent"
    /\ at = "commit" => ~eng.paused
    /\ at = "returned" => state = "READY" /\ Labelled

Closed == Undisturbed /\ Prepared /\ CallHolds /\ FailClosed

(* Where the elements of two sequences are in the one they are joined to.  *)
Joins(s, t, c) ==
    /\ c \in Seq(Steps) /\ Len(c) = Len(s) + Len(t)
    /\ \A i \in 1..Len(s) : c[i] = s[i]
    /\ \A i \in 1..Len(t) : c[Len(s) + i] = t[i]

LEMMA ElementsJoined ==
  ASSUME NEW s \in Seq(Steps), NEW t \in Seq(Steps)
  PROVE  Joins(s, t, s \o t)
  BY ConcatProperties, LenProperties DEF Joins

FailuresFront == FailuresDrain \o FailuresMismatch
FailuresBody  == FailuresFront \o FailuresDead

(* The failures script tries an update behind its kill, and only there.    *)
LEMMA FailuresSteps ==
  /\ Len(Failures) = 34
  /\ Failures[21] = "new controller" /\ Failures[22] = "bootstrap" /\ Failures[23] = "kill"
  /\ Failures[24] = "try" /\ Failures[25] = "check dead" /\ Failures[26] = "new controller"
  /\ Failures[27] = "try bootstrap" /\ Failures[28] = "try"
  /\ Failures[29] = "check refused" /\ Failures[30] = "serve"
  /\ Failures[31] = "new controller" /\ Failures[32] = "bootstrap"
  /\ Failures[33] = "check fresh" /\ Failures[34] = "verdict"
  /\ \A i \in 1..20 : Failures[i] # "try"
<1>1. /\ FailuresDrain \in Seq(Steps) /\ FailuresMismatch \in Seq(Steps)
      /\ FailuresDead \in Seq(Steps) /\ FailuresEnd \in Seq(Steps)
  BY FailuresDrainOrder, FailuresMismatchOrder, FailuresDeadOrder, FailuresEndOrder
     DEF Orderly
<1>2. /\ Len(FailuresDrain) = 12 /\ Len(FailuresMismatch) = 6 /\ Len(FailuresDead) = 11
      /\ Len(FailuresEnd) = 5
  BY DEF FailuresDrain, FailuresMismatch, FailuresDead, FailuresEnd
<1>3. Joins(FailuresDrain, FailuresMismatch, FailuresFront)
  BY <1>1, ElementsJoined DEF FailuresFront
<1>4. FailuresFront \in Seq(Steps) /\ Len(FailuresFront) = 18
  BY <1>2, <1>3 DEF Joins
<1>5. Joins(FailuresFront, FailuresDead, FailuresBody)
  BY <1>1, <1>4, ElementsJoined DEF FailuresBody
<1>f. /\ \A i \in 1..12 : FailuresFront[i] = FailuresDrain[i]
      /\ \A i \in 1..6 : FailuresFront[12 + i] = FailuresMismatch[i]
  BY <1>2, <1>3 DEF Joins
<1>6. /\ FailuresBody \in Seq(Steps) /\ Len(FailuresBody) = 29
      /\ \A i \in 1..18 : FailuresBody[i] = FailuresFront[i]
      /\ \A i \in 1..11 : FailuresBody[18 + i] = FailuresDead[i]
  BY <1>2, <1>4, <1>5 DEF Joins
<1>j. Joins(FailuresBody, FailuresEnd, Failures)
  <2>1. Failures = FailuresBody \o FailuresEnd
    BY DEF Failures, FailuresEnd, FailuresBody, FailuresFront
  <2> QED
    BY <1>1, <1>6, <2>1, ElementsJoined
<1>k. /\ Len(Failures) = 34
      /\ \A i \in 1..29 : Failures[i] = FailuresBody[i]
      /\ \A i \in 1..5 : Failures[29 + i] = FailuresEnd[i]
  BY <1>2, <1>6, <1>j DEF Joins
<1>l. ASSUME NEW i \in 1..11 PROVE Failures[18 + i] = FailuresDead[i]
  <2>1. 18 + i \in 1..29
    OBVIOUS
  <2> QED
    BY <1>6, <1>k, <2>1
<1>7. /\ Failures[21] = FailuresDead[3] /\ Failures[22] = FailuresDead[4]
      /\ Failures[23] = FailuresDead[5] /\ Failures[24] = FailuresDead[6]
      /\ Failures[25] = FailuresDead[7] /\ Failures[26] = FailuresDead[8]
  BY <1>l
<1>8. /\ Failures[27] = FailuresDead[9] /\ Failures[28] = FailuresDead[10]
      /\ Failures[29] = FailuresDead[11]
  BY <1>l
<1>9. /\ Failures[30] = FailuresEnd[1] /\ Failures[31] = FailuresEnd[2]
      /\ Failures[32] = FailuresEnd[3] /\ Failures[33] = FailuresEnd[4]
      /\ Failures[34] = FailuresEnd[5]
  BY <1>k
<1>m. ASSUME NEW i \in 1..12 PROVE Failures[i] = FailuresDrain[i]
  <2>1. i \in 1..18 /\ i \in 1..29
    OBVIOUS
  <2>2. FailuresBody[i] = FailuresFront[i] /\ Failures[i] = FailuresBody[i]
    BY <1>6, <1>k, <2>1
  <2> QED
    BY <1>f, <2>2
<1>n. ASSUME NEW i \in 1..6 PROVE Failures[12 + i] = FailuresMismatch[i]
  <2>1. 12 + i \in 1..18 /\ 12 + i \in 1..29
    OBVIOUS
  <2>2. FailuresBody[12 + i] = FailuresFront[12 + i] /\ Failures[12 + i] = FailuresBody[12 + i]
    BY <1>6, <1>k, <2>1
  <2> QED
    BY <1>f, <2>2
<1>g. /\ Failures[1] = FailuresDrain[1] /\ Failures[2] = FailuresDrain[2]
      /\ Failures[3] = FailuresDrain[3] /\ Failures[4] = FailuresDrain[4]
      /\ Failures[5] = FailuresDrain[5] /\ Failures[6] = FailuresDrain[6]
  BY <1>m
<1>h. /\ Failures[7] = FailuresDrain[7] /\ Failures[8] = FailuresDrain[8]
      /\ Failures[9] = FailuresDrain[9] /\ Failures[10] = FailuresDrain[10]
      /\ Failures[11] = FailuresDrain[11] /\ Failures[12] = FailuresDrain[12]
  BY <1>m
<1>10. /\ Failures[1] # "try" /\ Failures[2] # "try" /\ Failures[3] # "try"
       /\ Failures[4] # "try" /\ Failures[5] # "try" /\ Failures[6] # "try"
       /\ Failures[7] # "try" /\ Failures[8] # "try" /\ Failures[9] # "try"
       /\ Failures[10] # "try" /\ Failures[11] # "try" /\ Failures[12] # "try"
  BY <1>g, <1>h DEF FailuresDrain
<1>11. /\ Failures[13] = FailuresMismatch[1] /\ Failures[14] = FailuresMismatch[2]
       /\ Failures[15] = FailuresMismatch[3] /\ Failures[16] = FailuresMismatch[4]
       /\ Failures[17] = FailuresMismatch[5] /\ Failures[18] = FailuresMismatch[6]
  BY <1>n
<1>12. Failures[19] = FailuresDead[1] /\ Failures[20] = FailuresDead[2]
  BY <1>l
<1>13. /\ Failures[13] # "try" /\ Failures[14] # "try" /\ Failures[15] # "try"
       /\ Failures[16] # "try" /\ Failures[17] # "try" /\ Failures[18] # "try"
       /\ Failures[19] # "try" /\ Failures[20] # "try"
  BY <1>11, <1>12 DEF FailuresMismatch, FailuresDead
<1>14. ASSUME NEW i \in 1..20 PROVE Failures[i] # "try"
  <2>1. \/ i = 1 \/ i = 2 \/ i = 3 \/ i = 4 \/ i = 5 \/ i = 6 \/ i = 7 \/ i = 8 \/ i = 9
        \/ i = 10 \/ i = 11 \/ i = 12 \/ i = 13 \/ i = 14 \/ i = 15 \/ i = 16 \/ i = 17
        \/ i = 18 \/ i = 19 \/ i = 20
    OBVIOUS
  <2> QED
    BY <1>10, <1>13, <2>1
<1> QED
  BY <1>k, <1>7, <1>8, <1>9, <1>14 DEF FailuresDead, FailuresEnd

BenchmarkFront == BenchmarkHot \o BenchmarkRestart
BenchmarkBody  == BenchmarkFront \o BenchmarkKill

(* The benchmark spawns a cycle twice, behind a bootstrap each time.       *)
LEMMA BenchmarkSteps ==
  /\ Len(Benchmark) = 21
  /\ Benchmark[1] = "serve" /\ Benchmark[2] = "bootstrap" /\ Benchmark[3] = "generate"
  /\ Benchmark[4] = "spawn" /\ Benchmark[5] = "join hot" /\ Benchmark[6] = "check installed"
  /\ Benchmark[7] = "stop" /\ Benchmark[8] = "serve" /\ Benchmark[9] = "generate"
  /\ Benchmark[10] = "stop" /\ Benchmark[11] = "serve" /\ Benchmark[12] = "new controller"
  /\ Benchmark[13] = "bootstrap" /\ Benchmark[14] = "spawn" /\ Benchmark[15] = "arm"
  /\ Benchmark[16] = "aim" /\ Benchmark[17] = "kill" /\ Benchmark[18] = "join"
  /\ Benchmark[19] = "check kill landed" /\ Benchmark[20] = "verdict"
  /\ Benchmark[21] = "hang"
<1>1. /\ BenchmarkHot \in Seq(Steps) /\ BenchmarkRestart \in Seq(Steps)
      /\ BenchmarkKill \in Seq(Steps) /\ BenchmarkEnd \in Seq(Steps)
  BY BenchmarkHotOrder, BenchmarkRestartOrder, BenchmarkKillOrder, BenchmarkEndOrder
     DEF Orderly
<1>2. /\ Len(BenchmarkHot) = 6 /\ Len(BenchmarkRestart) = 4 /\ Len(BenchmarkKill) = 9
      /\ Len(BenchmarkEnd) = 2
  BY DEF BenchmarkHot, BenchmarkRestart, BenchmarkKill, BenchmarkEnd
<1>3. Joins(BenchmarkHot, BenchmarkRestart, BenchmarkFront)
  BY <1>1, ElementsJoined DEF BenchmarkFront
<1>4. /\ BenchmarkFront \in Seq(Steps) /\ Len(BenchmarkFront) = 10
      /\ \A i \in 1..6 : BenchmarkFront[i] = BenchmarkHot[i]
      /\ \A i \in 1..4 : BenchmarkFront[6 + i] = BenchmarkRestart[i]
  BY <1>2, <1>3 DEF Joins
<1>5. Joins(BenchmarkFront, BenchmarkKill, BenchmarkBody)
  BY <1>1, <1>4, ElementsJoined DEF BenchmarkBody
<1>6. /\ BenchmarkBody \in Seq(Steps) /\ Len(BenchmarkBody) = 19
      /\ \A i \in 1..10 : BenchmarkBody[i] = BenchmarkFront[i]
      /\ \A i \in 1..9 : BenchmarkBody[10 + i] = BenchmarkKill[i]
  BY <1>2, <1>4, <1>5 DEF Joins
<1>7. Joins(BenchmarkBody, BenchmarkEnd, Benchmark)
  <2>1. Benchmark = BenchmarkBody \o BenchmarkEnd
    BY DEF Benchmark, BenchmarkEnd, BenchmarkBody, BenchmarkFront
  <2> QED
    BY <1>1, <1>6, <2>1, ElementsJoined
<1>8. /\ Len(Benchmark) = 21
      /\ \A i \in 1..19 : Benchmark[i] = BenchmarkBody[i]
      /\ \A i \in 1..2 : Benchmark[19 + i] = BenchmarkEnd[i]
  BY <1>2, <1>6, <1>7 DEF Joins
<1>9. ASSUME NEW i \in 1..6 PROVE Benchmark[i] = BenchmarkHot[i]
  BY <1>4, <1>6, <1>8
<1>10. ASSUME NEW i \in 1..4 PROVE Benchmark[6 + i] = BenchmarkRestart[i]
  <2>1. 6 + i \in 1..10 /\ 6 + i \in 1..19
    OBVIOUS
  <2>2. Benchmark[6 + i] = BenchmarkBody[6 + i]
    BY <1>8, <2>1
  <2>3. BenchmarkBody[6 + i] = BenchmarkFront[6 + i]
    BY <1>6, <2>1
  <2> QED
    BY <1>4, <2>2, <2>3
<1>11. ASSUME NEW i \in 1..9 PROVE Benchmark[10 + i] = BenchmarkKill[i]
  <2>1. 10 + i \in 1..19
    OBVIOUS
  <2> QED
    BY <1>6, <1>8, <2>1
<1>12. /\ Benchmark[1] = "serve" /\ Benchmark[2] = "bootstrap" /\ Benchmark[3] = "generate"
       /\ Benchmark[4] = "spawn" /\ Benchmark[5] = "join hot"
       /\ Benchmark[6] = "check installed"
  <2>1. /\ Benchmark[1] = BenchmarkHot[1] /\ Benchmark[2] = BenchmarkHot[2]
        /\ Benchmark[3] = BenchmarkHot[3] /\ Benchmark[4] = BenchmarkHot[4]
        /\ Benchmark[5] = BenchmarkHot[5] /\ Benchmark[6] = BenchmarkHot[6]
    BY <1>9
  <2> QED
    BY <2>1 DEF BenchmarkHot
<1>13. /\ Benchmark[7] = "stop" /\ Benchmark[8] = "serve" /\ Benchmark[9] = "generate"
       /\ Benchmark[10] = "stop"
  <2>1. /\ Benchmark[7] = BenchmarkRestart[1] /\ Benchmark[8] = BenchmarkRestart[2]
        /\ Benchmark[9] = BenchmarkRestart[3] /\ Benchmark[10] = BenchmarkRestart[4]
    BY <1>10
  <2> QED
    BY <2>1 DEF BenchmarkRestart
<1>14. /\ Benchmark[11] = BenchmarkKill[1] /\ Benchmark[12] = BenchmarkKill[2]
       /\ Benchmark[13] = BenchmarkKill[3] /\ Benchmark[14] = BenchmarkKill[4]
       /\ Benchmark[15] = BenchmarkKill[5]
  BY <1>11
<1>15. /\ Benchmark[16] = BenchmarkKill[6] /\ Benchmark[17] = BenchmarkKill[7]
       /\ Benchmark[18] = BenchmarkKill[8] /\ Benchmark[19] = BenchmarkKill[9]
  BY <1>11
<1>16. Benchmark[20] = "verdict" /\ Benchmark[21] = "hang"
  <2>1. Benchmark[20] = BenchmarkEnd[1] /\ Benchmark[21] = BenchmarkEnd[2]
    BY <1>8
  <2> QED
    BY <2>1 DEF BenchmarkEnd
<1>17. /\ Benchmark[11] = "serve" /\ Benchmark[12] = "new controller"
       /\ Benchmark[13] = "bootstrap" /\ Benchmark[14] = "spawn" /\ Benchmark[15] = "arm"
  BY <1>14 DEF BenchmarkKill
<1>18. /\ Benchmark[16] = "aim" /\ Benchmark[17] = "kill" /\ Benchmark[18] = "join"
       /\ Benchmark[19] = "check kill landed"
  BY <1>15 DEF BenchmarkKill
<1> QED
  BY <1>8, <1>12, <1>13, <1>16, <1>17, <1>18

(* The tries of the failures, behind the kill.                            *)
LEMMA FailuresTries ==
  ASSUME NEW i \in 1..Len(Failures), Failures[i] = "try"
  PROVE  i \in 24..29
<1>1. i \in 1..34 /\ i \notin 1..20
  BY FailuresSteps
<1>2. i # 21 /\ i # 22 /\ i # 23
  BY FailuresSteps
<1>3. i # 30 /\ i # 31 /\ i # 32 /\ i # 33 /\ i # 34
  BY FailuresSteps
<1> QED
  BY <1>1, <1>2, <1>3

(* The two cycles of the benchmark.                                        *)
LEMMA BenchmarkSpawns ==
  ASSUME NEW i \in 1..Len(Benchmark), Benchmark[i] = "spawn"
  PROVE  i = 4 \/ i = 14
<1>1. i \in 1..21
  BY BenchmarkSteps
<1>2. i # 1 /\ i # 2 /\ i # 3 /\ i # 5 /\ i # 6 /\ i # 7 /\ i # 8 /\ i # 9 /\ i # 10
  BY BenchmarkSteps
<1>3. i # 11 /\ i # 12 /\ i # 13 /\ i # 15 /\ i # 16 /\ i # 17 /\ i # 18 /\ i # 19
      /\ i # 20 /\ i # 21
  BY BenchmarkSteps
<1> QED
  BY <1>1, <1>2, <1>3

LEMMA CacheCycles ==
  ASSUME NEW i \in 1..Len(Cache), Cache[i] \in Called
  PROVE  i <= 10
<1>1. Len(Cache) = 12 /\ Cache[11] = "generate" /\ Cache[12] = "verdict"
  BY DEF Cache
<1>2. i # 11 /\ i # 12
  BY <1>1 DEF Called
<1> QED
  BY <1>1, <1>2

(* The one cycle of the cache diagnostic, and where the label is spoiled.   *)
LEMMA CacheSteps ==
  ASSUME NEW i \in Nat \ {0}, i + 1 <= 10
  PROVE  Cache[i] # "out of band" /\ (Cache[i] = "cycle" => i = 5)
<1>1. /\ Cache[1] = "serve" /\ Cache[2] = "bootstrap" /\ Cache[3] = "generate"
      /\ Cache[4] = "check warm" /\ Cache[5] = "cycle" /\ Cache[6] = "check installed"
      /\ Cache[7] = "check cold" /\ Cache[8] = "generate" /\ Cache[9] = "check warm"
  BY DEF Cache
<1>2. \/ i = 1 \/ i = 2 \/ i = 3 \/ i = 4 \/ i = 5 \/ i = 6 \/ i = 7 \/ i = 8 \/ i = 9
  OBVIOUS
<1> QED
  BY <1>1, <1>2

(* What a step a of the scenario does to what the steps after it rely on.  *)
Effect(a) ==
    /\ at' # "idle" => a \in Starts \cup Carry
    /\ a = "by hand" => at' # "idle"
    /\ a = "kill" => ~eng'.up
    /\ eng'.up /\ ~eng.up => a \in {"serve", "seed"}
    /\ a = "drain" => Sealed'
    /\ a \in {"bootstrap", "cycle", "join hot"} => state' = "READY" /\ Labelled'
    /\ a \in Between \cup Warm => UNCHANGED state
    /\ a \in Between \ {"out of band"} => (Labelled => Labelled')

(* A step that neither starts a cycle nor takes its outcome finds none, or *)
(* leaves it as it is.                                                     *)
LEMMA Idle ==
  ASSUME script \in Scripts, XTypeOK, Undisturbed, NEW a, Now(a), a \notin Carry \cup Clear
  PROVE  at = "idle"
<1>1. stage = "run" /\ pc <= Len(Scenario[script]) /\ Scenario[script][pc] = a
  BY DEF Now
<1>2. ~AtEnd
  BY <1>1, Position DEF AtEnd, XTypeOK
<1> QED
  BY <1>1, <1>2 DEF Undisturbed, AtStep

LEMMA Carried ==
  ASSUME script \in Scripts, XTypeOK, Undisturbed, NEW a, Now(a), a \notin Clear,
         at' = at \/ at' = "idle"
  PROVE  at' # "idle" => a \in Carry
  BY Idle

(* The steps that touch neither the engine nor the controller.             *)
LEMMA PlainEffect ==
  ASSUME script \in Scripts, XTypeOK, Undisturbed, NEW a, Now(a), a \notin Clear,
         UNCHANGED <<state, current, eng, at>>,
         a \notin {"by hand", "kill", "drain", "bootstrap"}
  PROVE  Effect(a)
<1>1. at' # "idle" => a \in Carry
  BY Carried
<1> QED
  BY <1>1 DEF Effect, Clear, Labelled

LEMMA StepEffect ==
  ASSUME EveryGeneration, Base, Closed, XNext, NEW a, Onward(a)
  PROVE  Effect(a)
<1>0. /\ script \in Scripts /\ XTypeOK /\ Undisturbed /\ CallHolds /\ Hosted
      /\ Now(a) /\ stage = "run" /\ UNCHANGED <<stage, code>> /\ pc' # pc
  BY DEF Base, Closed, Onward, Now, XTypeOK
<1>1. ASSUME NEW c PROVE ~(Leave(c) \/ Quit(c))
  BY <1>0 DEF Leave, Quit
<1>2. ~Raise
  BY <1>1 DEF Raise
<1>3. CASE Ready
  <2>1. a = "serve" /\ at = "idle" /\ UNCHANGED <<state, at>>
    BY <1>0, <1>3 DEF Ready, Now, Hosted, vars
  <2> QED
    BY <2>1 DEF Effect, Between
<1>4. CASE Kill
  <2>1. a = "kill" /\ ~eng'.up /\ UNCHANGED <<state, at>>
    BY <1>0, <1>4 DEF Kill, Dies, Now, vars, Base, XTypeOK, Engines
  <2> QED
    BY <1>0, <2>1, Carried DEF Effect, Clear, Between, Warm
<1>5. CASE Stop
  <2>1. a = "stop" /\ ~eng'.up /\ UNCHANGED <<state, at>>
    BY <1>0, <1>5 DEF Stop, Terminate, Now, vars, XTypeOK, Engines
  <2> QED
    BY <1>0, <2>1, Carried DEF Effect, Clear, Between
<1>6. CASE NewController \/ Seed
  BY <1>0, <1>6 DEF NewController, Seed, Afresh, Now, Effect, Between, Warm
<1>7. CASE Inject
  <2>1. a \in {"fault finish", "fault caches", "fault any"}
        /\ UNCHANGED <<state, current, eng, at>>
    BY <1>0, <1>7 DEF Inject, Now, vars
  <2> QED
    BY <1>0, <2>1, PlainEffect DEF Clear
<1>8. CASE Bootstrap
  <2>1. /\ a \in {"bootstrap", "try bootstrap"} /\ UNCHANGED at
        /\ a = "bootstrap" => Adopt
        /\ Adopt \/ eng'.up = eng.up
    BY <1>0, <1>2, <1>8 DEF Bootstrap, BootstrapRaises, Lost, SameCycle, Now, XTypeOK,
                            Engines
  <2>2. CASE Adopt
    <3>1. /\ eng.label \notin Versions \cup {None} /\ eng'.up = eng.up
          /\ eng'.label = INITIAL_VERSION
      BY <1>0, <2>2, NoneAssumption DEF Adopt, Refused, XTypeOK, Engines
    <3>2. state' = "READY" /\ current' = [version |-> INITIAL_VERSION, identity |-> ModelA]
      BY <2>2, <3>1 DEF Adopt, Initialize, BootstrapFails, Advance
    <3> QED
      BY <1>0, <2>1, <3>1, <3>2, Carried DEF Effect, Clear, Between, Warm, Labelled
  <2>3. CASE ~Adopt
    BY <1>0, <2>1, <2>3, Carried DEF Effect, Clear, Between, Warm
  <2> QED
    BY <2>2, <2>3
<1>9. CASE RefusedAdoption \/ JoinRequest \/ Admit \/ Finish \/ Stream
  <2>1. a \in {"refused", "join request", "admit", "finish", "stream"}
        /\ UNCHANGED <<state, current, eng, at>>
    BY <1>0, <1>9 DEF RefusedAdoption, JoinRequest, Admit, AdmitRollout, Finish,
       ReleaseRollout,
                      Stream, SameCycle, stackVars, Now, vars
  <2> QED
    BY <1>0, <2>1, PlainEffect DEF Clear
<1>10. CASE Touch
  <2>1. /\ a \in {"owned", "release", "reset", "reopen", "out of band"}
        /\ eng'.up = eng.up /\ UNCHANGED <<state, at>>
    BY <1>0, <1>2, <1>10 DEF Touch, Directly, SameCycle, Now, vars, XTypeOK, Engines
  <2> QED
    BY <1>0, <2>1, Carried DEF Effect, Clear, Between
<1>11. CASE Generate
  <2>1. /\ a = "generate" /\ eng'.up = eng.up /\ eng'.label = eng.label
        /\ UNCHANGED <<state, current, at>>
    BY <1>0, <1>2, <1>11 DEF Generate, SameCycle, Now, vars, XTypeOK, Engines
  <2> QED
    BY <1>0, <2>1, Carried DEF Effect, Clear, Labelled
<1>12. CASE DrainByHand \/ Quiesce
  <2>1. /\ a \in {"redrain", "poll", "short drain", "drain"} /\ UNCHANGED at
        /\ eng'.up = eng.up /\ (a = "drain" => Sealed')
    BY <1>0, <1>2, <1>12 DEF DrainByHand, Pause, Quiesce, Lost, SameCycle, Now, XTypeOK,
                             Engines, Sealed
  <2> QED
    BY <1>0, <2>1, Carried DEF Effect, Clear, Between, Warm
<1>13. CASE Mismatch \/ Abandon
  <2>1. a \in {"mismatch", "abandon"} /\ UNCHANGED <<eng, at>>
    BY <1>0, <1>13 DEF Mismatch, Abandon, stackVars, Now
  <2> QED
    BY <1>0, <2>1, Carried DEF Effect, Clear, Between, Warm
<1>14. CASE CallCycle
  <2>1. a \in Starts /\ at' # "idle" /\ UNCHANGED <<state, current, eng>>
    BY <1>0, <1>14 DEF CallCycle, Call, Now, Starts, runVars, vars
  <2> QED
    BY <2>1 DEF Effect, Starts, Between
<1>15. CASE CycleEnds
  <2>1. /\ UNCHANGED <<state, current, eng>>
        /\ \/ a = "cycle" /\ at = "returned" /\ at' = "idle"
           \/ a = "try" /\ UNCHANGED at
    BY <1>0, <1>2, <1>15 DEF CycleEnds, Now, vars
  <2>2. CASE a = "cycle"
    BY <1>0, <2>1, <2>2 DEF Effect, CallHolds, Labelled, Between, Warm
  <2>3. CASE a = "try"
    BY <1>0, <2>1, <2>3, PlainEffect DEF Clear
  <2> QED
    BY <2>1, <2>2, <2>3
<1>16. CASE Look \/ Join \/ Verdict \/ Hang
  <2>1. a \in {"arm", "aim", "join", "verdict", "hang"}
        /\ UNCHANGED <<state, current, eng, at>>
    BY <1>0, <1>16 DEF Look, Join, Verdict, Hang, stackVars, Now, vars
  <2> QED
    BY <1>0, <2>1, PlainEffect DEF Clear
<1>17. CASE Check
  <2>1. a \in Checks /\ UNCHANGED <<state, current, eng, at>>
    BY <1>0, <1>17 DEF Check, stackVars, Now, vars
  <2>2. a \notin Clear \cup {"by hand", "kill", "drain", "bootstrap"}
    BY <2>1 DEF Checks, Clear
  <2> QED
    BY <1>0, <2>1, <2>2, PlainEffect
<1>18. CASE JoinHot
  <2>1. a = "join hot" /\ at = "returned" /\ at' = "idle" /\ UNCHANGED <<state, current, eng>>
    BY <1>0, <1>1, <1>2, <1>18 DEF JoinHot, Now, vars
  <2> QED
    BY <1>0, <2>1 DEF Effect, CallHolds, Labelled, Between, Warm
<1>19. ~(Launch \/ Cycling \/ RequestEnds \/ ThreadReleases \/ Crash)
  BY <1>0 DEF Launch, Cycling, RequestEnds, ThreadReleases, Crash, runVars
<1>20. /\ ~(Return \/ Interrupt \/ CallFails \/ WriteReport \/ StopServer)
       /\ \A c \in {1, Interrupted} : ~NotReady(c)
  BY <1>0, <1>1, <1>2 DEF Return, Interrupt, CallFails, WriteReport, StopServer, NotReady
<1> QED
  BY <1>3, <1>4, <1>5, <1>6, <1>7, <1>8, <1>9, <1>10, <1>11, <1>12, <1>13, <1>14, <1>15,
     <1>16,
     <1>17, <1>18, <1>19, <1>20 DEF XNext, Main, Around

(* The steps that leave the main thread where it is.                       *)
Beside == Cycling \/ RequestEnds \/ ThreadReleases \/ Crash

LEMMA StaysOnly ==
  ASSUME script \in Scripts, XTypeOK, XNext, Stays
  PROVE  \/ Beside \/ Launch
         \/ CallCycle /\ at = "idle" /\ at' # "idle" /\ AtStep({"cycle", "try"})
         \/ stage # "run" /\ UNCHANGED stage
<1> SUFFICES ASSUME stage = "run"
             PROVE  Beside \/ Launch
                    \/ (CallCycle /\ at = "idle" /\ at' # "idle" /\ AtStep({"cycle", "try"}))
  BY DEF Stays, runVars
<1>0. pc' = pc /\ stage' = stage /\ pc + 1 # pc
  BY DEF Stays, runVars, XTypeOK
<1>1. ~Go
  BY <1>0 DEF Go, Record
<1>2. ASSUME NEW c PROVE ~(Leave(c) \/ Quit(c))
  BY <1>0 DEF Leave, Quit
<1>3. ~Raise
  BY <1>2 DEF Raise
<1>4. ~(Ready \/ Kill \/ Stop \/ NewController \/ Seed \/ Inject \/ Bootstrap
        \/ RefusedAdoption)
  BY <1>1, <1>3 DEF Ready, Kill, Stop, NewController, Seed, Inject, Bootstrap,
     RefusedAdoption
<1>5. ~(Touch \/ Generate \/ Admit \/ Stream \/ Finish \/ JoinRequest \/ DrainByHand
        \/ Quiesce)
  BY <1>1, <1>3 DEF Touch, Directly, Generate, Admit, Stream, Finish, JoinRequest,
     DrainByHand,
                    Quiesce
<1>6. ~(Mismatch \/ Abandon \/ CycleEnds \/ Look \/ Join \/ JoinHot)
  BY <1>1, <1>2, <1>3 DEF Mismatch, Abandon, CycleEnds, Look, Join, JoinHot
<1>7. /\ ~(Check \/ Verdict \/ Hang \/ Return \/ Interrupt \/ CallFails)
      /\ ~(WriteReport \/ StopServer)
      /\ \A c \in {1, Interrupted} : ~NotReady(c)
  BY <1>0, <1>1, <1>2, <1>3 DEF Check, Record, Verdict, Hang, Return, Interrupt, CallFails,
                                WriteReport, StopServer, NotReady
<1>8. CASE CallCycle
  BY <1>1, <1>8 DEF CallCycle, Call, AtStep, Now
<1> QED
  BY <1>4, <1>5, <1>6, <1>7, <1>8 DEF XNext, Main, Around, Beside

(* No call of the cycle starts or stops an engine.                         *)
LEMMA CycleEngine ==
  ASSUME Cycling, eng \in Engines
  PROVE  eng'.up = eng.up
<1>1. ASSUME NEW op, NEW e, e.up = eng.up, EffectRaises(op, e) PROVE eng'.up = eng.up
  BY <1>1 DEF EffectRaises, Lost
<1>2. CASE PauseReissued \/ BeginCycle \/ AwaitDrain \/ DrainGivesUp \/ OpenUpdate
  BY <1>2 DEF PauseReissued, BeginCycle, AwaitDrain, DrainGivesUp, OpenUpdate, Lost, Engines
<1>3. CASE StartWeightUpdate
  BY <1>3 DEF StartWeightUpdate, Lost, Engines
<1>4. CASE SendWeights
  <2>1. \A w \in Weights : [eng EXCEPT !.weights = w].up = eng.up
    BY DEF Engines
  <2> QED
    BY <1>1, <1>4, <2>1 DEF SendWeights, Engines
<1>5. CASE FinishWeightUpdate
  <2>1. [eng EXCEPT !.label = aim.version, !.session = FALSE].up = eng.up
    BY DEF Engines
  <2> QED
    BY <1>1, <1>5, <2>1 DEF FinishWeightUpdate
<1>6. CASE InvalidateCaches
  <2>1. [eng EXCEPT !.kv = None].up = eng.up
    BY DEF Engines
  <2> QED
    BY <1>1, <1>6, <2>1 DEF InvalidateCaches, Engines
<1>7. CASE Resume
  <2>1. [eng EXCEPT !.paused = FALSE].up = eng.up
    BY DEF Engines
  <2> QED
    BY <1>1, <1>7, <2>1 DEF Resume
<1>8. CASE ValidatePreResume \/ Commit
  BY <1>8 DEF ValidatePreResume, Commit
<1> QED
  BY <1>2, <1>3, <1>4, <1>5, <1>6, <1>7, <1>8 DEF Cycling, CycleCall

LEMMA BesideEffect ==
  ASSUME Beside, eng \in Engines
  PROVE  /\ eng'.up => eng.up
         /\ at = "idle" => at' = "idle" /\ UNCHANGED <<state, current>>
         /\ at # "idle" => at' # "idle"
         /\ at = "idle" /\ eng'.up => UNCHANGED eng
<1>1. CASE RequestEnds
  BY <1>1 DEF RequestEnds, SameCycle, vars
<1>2. CASE ThreadReleases
  BY <1>2 DEF ThreadReleases, ReleaseRollout, SameCycle, vars
<1>3. CASE Crash
  BY <1>3 DEF Crash, Dies, vars, Engines
<1>4. CASE Cycling
  <2>1. at \in Calls /\ at' \in Calls \cup Outcomes
    BY <1>4, CycleStaysTyped
  <2>2. eng'.up = eng.up
    BY <1>4, CycleEngine
  <2> QED
    BY <2>1, <2>2 DEF Calls, Outcomes
<1> QED
  BY <1>1, <1>2, <1>3, <1>4 DEF Beside

LEMMA NextStep ==
  ASSUME script \in Scripts, XTypeOK, NEW a, Now(a), pc' = pc + 1, UNCHANGED <<script, stage>>
  PROVE  AtEnd' \/ \E b \in Steps : AtStep({b})' /\ MayFollow(script, a, b)
<1>1. /\ stage = "run" /\ pc \in 1..Len(Scenario[script]) /\ Scenario[script][pc] = a
      /\ Len(Scenario[script]) \in Nat
  BY Position DEF XTypeOK, Now
<1>2. CASE pc = Len(Scenario[script])
  BY <1>1, <1>2 DEF AtEnd
<1>3. CASE pc # Len(Scenario[script])
  <2>1. pc \in 1..(Len(Scenario[script]) - 1) /\ pc + 1 \in 1..Len(Scenario[script])
    BY <1>1, <1>3
  <2>2. PICK b \in Steps : Scenario[script][pc + 1] = b
    BY <2>1, Position, ElementOfSeq
  <2>3. MayFollow(script, a, b)
    BY <1>1, <2>1, <2>2, ScenarioOrder DEF Orderly
  <2>4. AtStep({b})'
    BY <1>1, <2>1, <2>2 DEF AtStep
  <2> QED
    BY <2>3, <2>4
<1> QED
  BY <1>2, <1>3

LEMMA UndisturbedStep ==
  ASSUME EveryGeneration, Base, Closed, XNext
  PROVE  Undisturbed'
<1>0. script \in Scripts /\ XTypeOK /\ Undisturbed /\ eng \in Engines /\ UNCHANGED script
  BY DEF Base, Closed, XTypeOK, XNext
<1> SUFFICES ASSUME stage' = "run", at' # "idle" PROVE AtEnd' \/ AtStep(Carry \cup Clear)'
  BY DEF Undisturbed
<1>1. CASE Stays
  <2>1. UNCHANGED <<pc, stage>>
    BY <1>1 DEF Stays, runVars
  <2>2. ~Launch
    BY DEF Launch
  <2>3. CASE at # "idle"
    BY <1>0, <2>1, <2>3 DEF Undisturbed, AtEnd, AtStep
  <2>4. CASE AtStep({"cycle", "try"})
    BY <1>0, <2>1, <2>4 DEF AtStep, Carry, Clear
  <2> QED
    BY <1>0, <1>1, <2>1, <2>2, <2>3, <2>4, StaysOnly, BesideEffect
<1>2. ASSUME NEW a, Onward(a) PROVE AtEnd' \/ AtStep(Carry \cup Clear)'
  <2>1. a \in Starts \cup Carry
    BY <1>2, StepEffect DEF Effect
  <2>2. AtEnd' \/ \E b \in Steps : AtStep({b})' /\ MayFollow(script, a, b)
    BY <1>0, <1>2, NextStep DEF Onward
  <2>3. ASSUME NEW b \in Steps, AtStep({b})', MayFollow(script, a, b)
        PROVE  AtStep(Carry \cup Clear)'
    BY <2>1, <2>3 DEF MayFollow, AtStep
  <2> QED
    BY <2>2, <2>3
<1> QED
  BY <1>1, <1>2, Moves DEF Leaves

(* What is prepared stays so.                                              *)
LEMMA DrainedStep ==
  ASSUME EveryGeneration, Base, Closed, XNext
  PROVE  Drained'
<1>0. /\ script \in Scripts /\ XTypeOK /\ Undisturbed /\ Drained /\ eng \in Engines
      /\ UNCHANGED script
  BY DEF Base, Closed, Prepared, XTypeOK, XNext
<1> SUFFICES ASSUME script = "failures", AtStep(ByHand)' PROVE Sealed'
  BY <1>0 DEF Drained
<1>1. CASE Stays
  <2>1. AtStep(ByHand) /\ Now("by hand") /\ stage = "run"
    BY <1>0, <1>1 DEF Stays, runVars, AtStep, Now, ByHand
  <2>2. at = "idle"
    BY <1>0, <2>1, Idle DEF Carry, Clear
  <2>3. ~Launch /\ ~AtStep({"cycle", "try"})
    BY <2>1 DEF Launch, Now, AtStep, ByHand
  <2>4. Beside
    BY <1>0, <1>1, <2>1, <2>3, StaysOnly
  <2> QED
    BY <1>0, <2>1, <2>2, <2>4, BesideEffect DEF Drained, Sealed
<1>2. ASSUME NEW a, Onward(a) PROVE Sealed'
  <2>1. Effect(a)
    BY <1>2, StepEffect
  <2>2. a = "drain"
    <3>1. \E b \in ByHand : MayFollow(script, a, b)
      BY <1>0, <1>2, StepOrder DEF Onward
    <3> QED
      BY <3>1 DEF MayFollow, ByHand
  <2> QED
    BY <2>1, <2>2 DEF Effect
<1> QED
  BY <1>1, <1>2, Moves DEF Leaves, AtStep

LEMMA InCycleStep ==
  ASSUME EveryGeneration, Base, Closed, XNext
  PROVE  InCycle'
<1>0. /\ script \in Scripts /\ XTypeOK /\ InCycle /\ eng \in Engines /\ UNCHANGED script
  BY DEF Base, Closed, Prepared, XTypeOK, XNext
<1> SUFFICES ASSUME script = "failures", AtStep({"cycle"})' PROVE at' # "idle"
  BY <1>0 DEF InCycle
<1>1. CASE Stays
  <2>1. AtStep({"cycle"}) /\ stage = "run" /\ at # "idle"
    BY <1>0, <1>1 DEF Stays, runVars, AtStep, InCycle
  <2>2. ~Launch
    BY <2>1 DEF Launch, Now, AtStep
  <2> QED
    BY <1>0, <1>1, <2>1, <2>2, StaysOnly, BesideEffect
<1>2. ASSUME NEW a, Onward(a) PROVE at' # "idle"
  <2>1. \E b \in {"cycle"} : MayFollow(script, a, b)
    BY <1>0, <1>2, StepOrder DEF Onward
  <2>2. a = "by hand"
    BY <2>1 DEF MayFollow
  <2> QED
    BY <1>2, <2>2, StepEffect DEF Effect
<1> QED
  BY <1>1, <1>2, Moves DEF Leaves, AtStep

LEMMA DeathbedStep ==
  ASSUME EveryGeneration, Base, Closed, XNext
  PROVE  Deathbed'
<1>0. /\ script \in Scripts /\ XTypeOK /\ Deathbed /\ eng \in Engines /\ UNCHANGED script
  BY DEF Base, Closed, Prepared, XTypeOK, XNext
<1> SUFFICES ASSUME script = "failures", stage' = "run", pc' \in 24..29 PROVE ~eng'.up
  BY <1>0 DEF Deathbed
<1>1. CASE Stays
  <2>1. stage = "run" /\ ~eng.up
    BY <1>1 DEF Stays, runVars, Deathbed, Base, Closed, Prepared
  <2>2. CASE Launch
    BY <2>2 DEF Launch, FreshEngine
  <2>3. CASE CallCycle
    BY <2>1, <2>3 DEF CallCycle
  <2> QED
    BY <1>0, <1>1, <2>1, <2>2, <2>3, StaysOnly, BesideEffect
<1>2. ASSUME NEW a, Onward(a) PROVE ~eng'.up
  <2>1. /\ Effect(a) /\ Now(a) /\ stage = "run" /\ Scenario["failures"][pc] = a
        /\ pc' = pc + 1 /\ pc \in Nat
    BY <1>0, <1>2, StepEffect DEF Onward, Now, XTypeOK
  <2>2. Scenario["failures"] = Failures
    BY DEF Scenario
  <2>3. CASE pc = 23
    BY <2>1, <2>2, <2>3, FailuresSteps DEF Effect
  <2>4. CASE pc \in 24..28
    <3>1. pc = 24 \/ pc = 25 \/ pc = 26 \/ pc = 27 \/ pc = 28
      BY <2>4
    <3>2. a # "serve"
      BY <2>1, <2>2, <3>1, FailuresSteps
    <3>3. a # "seed"
      BY <1>0, <2>1, StepBelongs DEF Belongs, InProcess
    <3>4. ~eng.up
      BY <1>0, <2>1, <2>4 DEF Deathbed
    <3> QED
      BY <2>1, <3>2, <3>3, <3>4 DEF Effect
  <2> QED
    BY <2>1, <2>3, <2>4
<1> QED
  BY <1>1, <1>2, Moves DEF Leaves

LEMMA ServingStep ==
  ASSUME EveryGeneration, Base, Closed, XNext
  PROVE  Serving'
<1>0. /\ script \in Scripts /\ XTypeOK /\ Undisturbed /\ Serving /\ eng \in Engines
      /\ UNCHANGED script
  BY DEF Base, Closed, Prepared, XTypeOK, XNext
<1> SUFFICES ASSUME script \in Plain, AtStep(Called \cup Between)', at' = "idle"
             PROVE  state' = "READY" /\ (Unspoiled' => Labelled')
  BY <1>0 DEF Serving
<1>1. CASE Stays
  <2>1. AtStep(Called \cup Between) /\ stage = "run" /\ UNCHANGED pc
    BY <1>0, <1>1 DEF Stays, runVars, AtStep
  <2>2. ~Launch
    BY <2>1 DEF Launch, Now, AtStep, Called, Between
  <2>3. Beside
    BY <1>0, <1>1, <2>1, <2>2, StaysOnly
  <2>4. at = "idle" /\ UNCHANGED <<state, current>> /\ (eng'.up => eng' = eng)
    BY <1>0, <2>3, BesideEffect
  <2> QED
    BY <1>0, <2>1, <2>4 DEF Serving, Unspoiled, Labelled
<1>2. ASSUME NEW a, Onward(a) PROVE state' = "READY" /\ (Unspoiled' => Labelled')
  <2>1. Effect(a) /\ Now(a) /\ pc' = pc + 1 /\ pc \in Nat \ {0}
    BY <1>0, <1>2, StepEffect DEF Onward, XTypeOK
  <2>2. a \in {"bootstrap", "cycle"} \cup Between
    <3>1. \E b \in Called \cup Between : MayFollow(script, a, b)
      BY <1>0, <1>2, StepOrder DEF Onward
    <3> QED
      BY <3>1 DEF MayFollow
  <2>3. CASE a \in {"bootstrap", "cycle"}
    BY <2>1, <2>3 DEF Effect
  <2>4. CASE a \in Between
    <3>1. at = "idle"
      BY <1>0, <2>1, <2>4, Idle DEF Between, Carry, Clear
    <3>2. state = "READY" /\ (Unspoiled => Labelled)
      BY <1>0, <2>1, <2>4, <3>1 DEF Serving, AtStep, Now
    <3>3. Unspoiled' => Unspoiled
      BY <1>0, <2>1 DEF Unspoiled
    <3>4. Unspoiled' => a # "out of band"
      <4> SUFFICES ASSUME Unspoiled', a = "out of band" PROVE FALSE
        OBVIOUS
      <4>1. script = "cache"
        BY <1>0, <2>1, StepBelongs DEF Belongs
      <4>2. Scenario["cache"] = Cache
        BY DEF Scenario
      <4>3. Cache[pc] = "out of band"
        BY <1>0, <2>1, <4>1, <4>2 DEF Now
      <4>7. pc' <= 10
        BY <1>0, <4>1 DEF Unspoiled
      <4>4. pc \in Nat \ {0} /\ pc' = pc + 1
        BY <2>1
      <4>5. pc + 1 <= 10
        BY <4>4, <4>7
      <4>6. Cache[pc] # "out of band"
        BY <4>4, <4>5, CacheSteps
      <4> QED
        BY <4>3, <4>6
    <3> QED
      BY <2>1, <2>4, <3>2, <3>3, <3>4 DEF Effect
  <2> QED
    BY <2>2, <2>3, <2>4
<1> QED
  BY <1>1, <1>2, Moves DEF Leaves, AtStep

LEMMA MeasuredStep ==
  ASSUME EveryGeneration, Base, Closed, XNext
  PROVE  Measured'
<1>0. /\ script \in Scripts /\ XTypeOK /\ Measured /\ eng \in Engines /\ UNCHANGED script
      /\ Scenario["benchmark"] = Benchmark
  BY DEF Base, Closed, Prepared, XTypeOK, XNext, Scenario
<1> SUFFICES ASSUME script = "benchmark", stage' = "run"
             PROVE  /\ AtStep(Warm)' /\ pc' > 1 => at' = "idle" /\ state' = "READY"
                    /\ pc' \in {3, 4, 14} => Labelled'
  BY <1>0 DEF Measured, AtStep
<1>1. CASE Stays
  <2>0. UNCHANGED <<pc, stage>> /\ stage = "run"
    BY <1>1 DEF Stays, runVars
  <2>1. ASSUME pc \in {3, 4, 14} PROVE AtStep(Warm) /\ ~Now("serve")
    <3>1. pc = 3 \/ pc = 4 \/ pc = 14
      BY <2>1
    <3>2. Benchmark[3] = "generate" /\ Benchmark[4] = "spawn" /\ Benchmark[14] = "spawn"
      BY BenchmarkSteps
    <3>3. Len(Benchmark) = 21
      BY BenchmarkSteps
    <3>4. pc <= Len(Benchmark)
      BY <3>1, <3>3
    <3>5. Benchmark[pc] \in {"generate", "spawn"}
      BY <3>1, <3>2
    <3> QED
      BY <1>0, <2>0, <3>4, <3>5 DEF AtStep, Now, Warm
  <2>2. ASSUME AtStep(Warm), pc > 1
        PROVE  /\ at' = "idle" /\ state' = "READY"
               /\ ~Now("serve") /\ Labelled => Labelled'
    <3>1. at = "idle" /\ state = "READY"
      BY <1>0, <2>2 DEF Measured
    <3>2. CASE Launch
      BY <3>1, <3>2 DEF Launch, vars
    <3>3. ~AtStep({"cycle", "try"})
      BY <2>2 DEF AtStep, Warm
    <3>4. CASE Beside
      BY <1>0, <3>1, <3>4, BesideEffect DEF Labelled
    <3> QED
      BY <1>0, <1>1, <2>0, <3>2, <3>3, <3>4, StaysOnly
  <2>3. pc \in {3, 4, 14} => Labelled
    BY <1>0, <2>0 DEF Measured
  <2>4. AtStep(Warm)' => AtStep(Warm)
    BY <1>0, <2>0 DEF AtStep
  <2> QED
    BY <2>0, <2>1, <2>2, <2>3, <2>4
<1>2. ASSUME NEW a, Onward(a)
      PROVE  /\ AtStep(Warm)' /\ pc' > 1 => at' = "idle" /\ state' = "READY"
             /\ pc' \in {3, 4, 14} => Labelled'
  <2>1. /\ Effect(a) /\ Now(a) /\ stage = "run" /\ Benchmark[pc] = a
        /\ pc' = pc + 1 /\ pc \in Nat \ {0}
    BY <1>0, <1>2, StepEffect DEF Onward, Now, XTypeOK
  <2>2. ASSUME AtStep(Warm)', pc' > 1 PROVE at' = "idle" /\ state' = "READY"
    <3>1. a \in {"bootstrap", "join hot"} \cup (Warm \ {"spawn"})
      <4>1. \E b \in Warm : MayFollow(script, a, b)
        BY <1>0, <1>2, <2>2, StepOrder DEF Onward
      <4> QED
        BY <4>1 DEF MayFollow
    <3>2. at' = "idle"
      BY <2>1, <3>1 DEF Effect, Starts, Carry, Warm
    <3>3. pc # 1
      <4>1. pc = 1 => Benchmark[2] \in Warm
        BY <1>0, <2>1, <2>2 DEF AtStep
      <4> QED
        BY <4>1, BenchmarkSteps DEF Warm
    <3>4. CASE a \in {"bootstrap", "join hot"}
      BY <2>1, <3>2, <3>4 DEF Effect
    <3>5. CASE a \in Warm
      <4>1. state = "READY"
        BY <1>0, <2>1, <3>3, <3>5 DEF Measured, AtStep, Now
      <4> QED
        BY <2>1, <3>2, <3>5, <4>1 DEF Effect
    <3> QED
      BY <3>1, <3>4, <3>5
  <2>3. ASSUME pc' \in {3, 4, 14} PROVE Labelled'
    <3>1. pc = 2 \/ pc = 3 \/ pc = 13
      BY <2>1, <2>3
    <3>2. CASE pc = 2 \/ pc = 13
      BY <2>1, <3>2, BenchmarkSteps DEF Effect
    <3>3. CASE pc = 3
      <4>1. a = "generate"
        BY <2>1, <3>3, BenchmarkSteps
      <4>2. Labelled
        BY <1>0, <2>1, <3>3 DEF Measured
      <4> QED
        BY <2>1, <4>1, <4>2 DEF Effect, Between
    <3> QED
      BY <3>1, <3>2, <3>3
  <2> QED
    BY <2>2, <2>3
<1> QED
  BY <1>1, <1>2, Moves DEF Leaves

(* The calls of the cycle.                                                 *)
Standing == CallHolds /\ FailClosed

LEMMA SameStack ==
  ASSUME Standing, UNCHANGED <<state, current, pending, taintedIn, eng, at, aim, before>>
  PROVE  Standing'
  BY DEF Standing, CallHolds, FailClosed, Sealed, Labelled, Opened, Struck

LEMMA NoCycle ==
  ASSUME at' = "idle"
  PROVE  Standing'
  BY DEF Standing, CallHolds, FailClosed, Calls

LEMMA EngineEnds ==
  ASSUME Standing, eng \in Engines, eng' = [eng EXCEPT !.up = FALSE],
         UNCHANGED <<state, current, pending, taintedIn, at, aim, before>>
  PROVE  Standing'
<1>1. /\ ~eng'.up /\ eng'.label = eng.label /\ eng'.paused = eng.paused
      /\ eng'.weights = eng.weights /\ eng'.kv = eng.kv
  BY DEF Engines
<1>2. CallHolds'
  BY <1>1 DEF Standing, CallHolds, Sealed, Labelled, Opened
<1> QED
  BY <1>1, <1>2 DEF Standing, FailClosed

(* What an engine e may look like when the cycle raises in the state s.    *)
Excused(s, e) ==
    e.up /\ ~e.paused =>
        \/ s = "DRAINING" /\ e.label = before.version
        \/ s = "RESUMING" /\ e.label = aim.version /\ e.weights = "sent" /\ e.kv = None

(* A cycle that raises there is closed, tainted or not.                    *)
LEMMA RaisesClosed ==
  ASSUME at' = "raised", UNCHANGED <<aim, before>>, current = before, state # "READY",
         UNCHANGED vars \/ TaintWith, Excused(state, eng')
  PROVE  Standing'
<1>1. CallHolds'
  BY DEF CallHolds, Calls
<1>2. current' = before' /\ state' \notin ADMITTING_STATES
  BY DEF TaintWith, vars, ADMITTING_STATES
<1>3. ASSUME eng'.up, ~eng'.paused PROVE Struck' = state
  <2>1. state # "TAINTED"
    BY <1>3 DEF Excused
  <2> QED
    BY <2>1 DEF TaintWith, vars, Struck
<1> QED
  BY <1>1, <1>2, <1>3 DEF Standing, FailClosed, Excused

(* So is one that a call raised, whatever the call has left of its effect. *)
LEMMA EffectRaisesClosed ==
  ASSUME NEW op, NEW e, EffectRaises(op, e), UNCHANGED <<aim, before>>, current = before,
         state # "READY", Excused(state, eng), Excused(state, e)
  PROVE  Standing'
<1>1. eng' = eng \/ eng' = e
  BY DEF EffectRaises, EffectFails, Lost
<1>2. at' = "raised" /\ (UNCHANGED vars \/ TaintWith)
  BY DEF EffectRaises, EffectFails
<1>3. Excused(state, eng')
  BY <1>1
<1> QED
  BY <1>2, <1>3, RaisesClosed

LEMMA SealedExcused ==
  ASSUME NEW s, NEW e, e.up => e.paused
  PROVE  Excused(s, e)
  BY DEF Excused

LEMMA CycleStanding ==
  ASSUME EveryGeneration, Base, Standing, Cycling
  PROVE  Standing'
<1>0. /\ eng \in Engines /\ CallHolds /\ at \in Calls /\ current = before
      /\ aim \in Targets /\ aim # None
      /\ UNCHANGED <<aim, before>> /\ CycleCall
  BY CycleStaysTyped, NoneIsNoTarget DEF Base, XTypeOK, Aimed, Standing, CallHolds,
     Cycling, CycleCall
<1>1. CASE PauseReissued
  <2>1. at = "pause" /\ at' = "pause" /\ UNCHANGED <<state, current>>
        /\ eng'.up = eng.up /\ eng'.label = eng.label
    BY <1>0, <1>1 DEF PauseReissued, Lost, vars, Engines
  <2> QED
    BY <1>0, <2>1 DEF Standing, CallHolds, FailClosed
<1>2. CASE BeginCycle
  <2>1. CASE state = "READY"
    <3>1. at = "called" /\ at' = "pause" /\ state' = "DRAINING" /\ UNCHANGED current
          /\ eng'.up = eng.up /\ eng'.label = eng.label
      BY <1>0, <1>2, <2>1 DEF BeginCycle, BeginDrain, Advance, Engines
    <3> QED
      BY <1>0, <3>1 DEF Standing, CallHolds, FailClosed
  <2>2. CASE state # "READY"
    <3>1. at' = "raised" /\ UNCHANGED vars /\ UNCHANGED eng /\ ~eng.up
      BY <1>0, <1>2, <2>2 DEF BeginCycle, CallHolds
    <3>2. Excused(state, eng')
      BY <3>1, SealedExcused
    <3> QED
      BY <1>0, <2>2, <3>1, <3>2, RaisesClosed
  <2> QED
    BY <2>1, <2>2
<1>3. CASE AwaitDrain
  <2>1. at = "pause" /\ UNCHANGED eng /\ eng.paused /\ state = "DRAINING"
    BY <1>0, <1>3 DEF AwaitDrain, CallHolds
  <2>2. \/ at' = "begin" /\ UNCHANGED current
        \/ at' = "raised" /\ TaintWith
    BY <1>3, <2>1 DEF AwaitDrain, ConfirmDrained, Advance, TaintWith
  <2>3. CASE at' = "begin" /\ UNCHANGED current
    BY <1>0, <2>1, <2>3 DEF Standing, CallHolds, FailClosed, Sealed
  <2>4. CASE at' = "raised" /\ TaintWith
    <3>1. Excused(state, eng')
      BY <2>1, SealedExcused
    <3> QED
      BY <1>0, <2>1, <2>4, <3>1, RaisesClosed
  <2> QED
    BY <2>2, <2>3, <2>4
<1>4. CASE DrainGivesUp
  <2>1. at' = "raised" /\ UNCHANGED vars /\ UNCHANGED eng /\ state = "DRAINING"
        /\ (eng.up => eng.label = before.version)
    BY <1>0, <1>4 DEF DrainGivesUp, CallHolds
  <2>2. Excused(state, eng')
    BY <2>1 DEF Excused
  <2> QED
    BY <1>0, <2>1, <2>2, RaisesClosed
<1>5. CASE OpenUpdate
  BY <1>0, <1>5 DEF OpenUpdate, BeginUpdate, Advance, Standing, CallHolds, FailClosed,
                    Sealed, Opened
<1>6. CASE StartWeightUpdate
  <2> DEFINE opened == [eng EXCEPT !.session = TRUE]
  <2>1. /\ at = "start" /\ Opened("UPDATING") /\ Sealed
        /\ opened.up = eng.up /\ opened.paused = eng.paused
    BY <1>0, <1>6 DEF StartWeightUpdate, CallHolds, Engines
  <2>2. CASE at' = "transfer" /\ eng' = opened /\ UNCHANGED vars
    BY <1>0, <2>1, <2>2 DEF Standing, CallHolds, FailClosed, Sealed, Opened, vars
  <2>3. CASE Lost(opened) /\ EffectFails
    <3>1. Excused(state, eng')
      BY <2>1, <2>3, SealedExcused DEF Lost, Sealed
    <3>2. at' = "raised" /\ (UNCHANGED vars \/ TaintWith) /\ state # "READY"
      BY <2>1, <2>3 DEF EffectFails, Opened
    <3> QED
      BY <1>0, <3>1, <3>2, RaisesClosed
  <2> QED
    BY <1>6, <2>2, <2>3 DEF StartWeightUpdate
<1>7. CASE SendWeights
  <2>1. at = "transfer" /\ Opened("UPDATING") /\ Sealed
    BY <1>0, <1>7 DEF SendWeights, CallHolds
  <2>2. CASE at' = "finish" /\ eng' = [eng EXCEPT !.weights = "sent"] /\ UNCHANGED vars
    <3>1. eng'.up = eng.up /\ eng'.paused = eng.paused /\ eng'.weights = "sent"
      BY <1>0, <2>2 DEF Engines
    <3> QED
      BY <1>0, <2>1, <2>2, <3>1 DEF Standing, CallHolds, FailClosed, Sealed, Opened, vars
  <2>3. ASSUME NEW w \in Weights, EffectRaises("update_weights", [eng EXCEPT !.weights = w])
        PROVE  Standing'
    <3> DEFINE e == [eng EXCEPT !.weights = w]
    <3>1. e.up = eng.up /\ e.paused = eng.paused
      BY <1>0 DEF Engines
    <3>2. Excused(state, eng) /\ Excused(state, e)
      BY <2>1, <3>1, SealedExcused DEF Sealed
    <3>3. EffectRaises("update_weights", e) /\ state # "READY"
      BY <2>1, <2>3 DEF Opened
    <3> HIDE DEF e
    <3> QED
      BY <1>0, <3>2, <3>3, EffectRaisesClosed
  <2> QED
    BY <1>7, <2>2, <2>3 DEF SendWeights
<1>8. CASE FinishWeightUpdate
  <2> DEFINE e == [target |-> aim, weights_loaded |-> TRUE, data_plane_complete |-> TRUE,
                   finish_acknowledged |-> TRUE, observed_identity |-> aim.identity]
             finished == [eng EXCEPT !.label = aim.version, !.session = FALSE]
  <2>1. /\ at = "finish" /\ Opened("UPDATING") /\ Sealed /\ eng.weights = "sent"
        /\ finished.up = eng.up /\ finished.paused = eng.paused
        /\ finished.weights = eng.weights
    BY <1>0, <1>8 DEF FinishWeightUpdate, CallHolds, Engines
  <2>2. CASE at' = "invalidate" /\ eng' = finished /\ ConfirmUpdated(e)
    <3>1. e.target = pending /\ ~UpdateFails(e)
      BY <2>1 DEF Opened, UpdateFails
    <3>2. state' = "INVALIDATING" /\ UNCHANGED <<current, pending>>
      BY <2>2, <3>1 DEF ConfirmUpdated, Confirm, Advance
    <3> HIDE DEF finished
    <3> QED
      BY <1>0, <2>1, <2>2, <3>2 DEF Standing, CallHolds, FailClosed, Sealed, Opened
  <2>3. CASE EffectRaises("finish_weight_update", finished)
    <3>1. Excused(state, eng) /\ Excused(state, finished) /\ state # "READY"
      BY <2>1, SealedExcused DEF Sealed, Opened
    <3> HIDE DEF finished
    <3> QED
      BY <1>0, <2>3, <3>1, EffectRaisesClosed
  <2> QED
    BY <1>8, <2>2, <2>3 DEF FinishWeightUpdate
<1>9. CASE InvalidateCaches
  <2>1. at = "invalidate" /\ Opened("INVALIDATING") /\ Sealed /\ eng.weights = "sent"
    BY <1>0, <1>9 DEF InvalidateCaches, CallHolds
  <2>2. ASSUME NEW prefix \in BOOLEAN, NEW others \in BOOLEAN,
               eng' = [eng EXCEPT !.kv = IF prefix THEN None ELSE @],
               ConfirmInvalidated([prefix_cache_reset |-> prefix,
                                   encoder_cache_reset |-> others,
                                   mm_cache_reset |-> others]),
               at' = IF state' = "VALIDATING" THEN "validate" ELSE "raised"
        PROVE  Standing'
    <3>1. eng'.up = eng.up /\ eng'.paused = eng.paused /\ eng'.weights = eng.weights
      BY <1>0, <2>2 DEF Engines
    <3>2. \/ at' = "validate" /\ state' = "VALIDATING" /\ UNCHANGED <<current, pending>>
          \/ at' = "raised" /\ TaintWith
      BY <2>2 DEF ConfirmInvalidated, Confirm, Advance, TaintWith
    <3>3. CASE at' = "validate" /\ state' = "VALIDATING" /\ UNCHANGED <<current, pending>>
      BY <1>0, <2>1, <3>1, <3>3 DEF Standing, CallHolds, FailClosed, Sealed, Opened
    <3>4. CASE at' = "raised" /\ TaintWith
      <4>1. Excused(state, eng') /\ state # "READY"
        BY <2>1, <3>1, SealedExcused DEF Sealed, Opened
      <4> QED
        BY <1>0, <3>4, <4>1, RaisesClosed
    <3> QED
      BY <3>2, <3>3, <3>4
  <2>3. CASE EffectRaises("reset_prefix_cache", [eng EXCEPT !.kv = None])
    <3> DEFINE e == [eng EXCEPT !.kv = None]
    <3>1. e.up = eng.up /\ e.paused = eng.paused
      BY <1>0 DEF Engines
    <3>2. Excused(state, eng) /\ Excused(state, e) /\ state # "READY"
      BY <2>1, <3>1, SealedExcused DEF Sealed, Opened
    <3>3. EffectRaises("reset_prefix_cache", e)
      BY <2>3
    <3> HIDE DEF e
    <3> QED
      BY <1>0, <3>2, <3>3, EffectRaisesClosed
  <2> QED
    BY <1>9, <2>2, <2>3 DEF InvalidateCaches
<1>10. CASE ValidatePreResume
  <2> DEFINE clean == eng.kv = None
             e == [target |-> aim, observed_engine_label |-> eng.label,
                   is_paused |-> eng.paused, caches_still_clean |-> clean]
  <2>1. /\ at = "validate" /\ Opened("VALIDATING") /\ Sealed /\ eng.weights = "sent"
        /\ UNCHANGED eng
    BY <1>0, <1>10 DEF ValidatePreResume, CallHolds
  <2>2. Excused(state, eng') /\ state # "READY"
    BY <2>1, SealedExcused DEF Sealed, Opened
  <2>3. CASE at' = "raised" /\ UNCHANGED vars
    BY <1>0, <2>2, <2>3, RaisesClosed
  <2>4. CASE ConfirmValidated(e) /\ at' = IF state' = "RESUMING" THEN "resume" ELSE "raised"
    <3>1. \/ /\ at' = "resume" /\ state' = "RESUMING" /\ UNCHANGED <<current, pending>>
             /\ eng.label = aim.version /\ clean
          \/ at' = "raised" /\ TaintWith
      BY <2>4 DEF ConfirmValidated, ValidateFails, Confirm, Advance, TaintWith
    <3>2. CASE at' = "raised" /\ TaintWith
      BY <1>0, <2>2, <3>2, RaisesClosed
    <3>3. CASE at' = "resume"
      BY <1>0, <2>1, <3>1, <3>3 DEF Standing, CallHolds, FailClosed, Sealed, Opened
    <3> QED
      BY <3>1, <3>2, <3>3
  <2> QED
    BY <1>10, <2>3, <2>4 DEF ValidatePreResume
<1>11. CASE Resume
  <2> DEFINE resumed == [eng EXCEPT !.paused = FALSE]
  <2>1. /\ at = "resume" /\ Opened("RESUMING") /\ Sealed /\ eng.weights = "sent"
        /\ eng.label = aim.version /\ eng.kv = None
    BY <1>0, <1>11 DEF Resume, CallHolds
  <2>2. /\ resumed \in Engines /\ ~resumed.paused /\ resumed.weights = eng.weights
        /\ resumed.label = eng.label /\ resumed.kv = eng.kv /\ resumed.up = eng.up
    BY <1>0 DEF Engines
  <2>3. Excused(state, eng) /\ Excused(state, resumed) /\ state # "READY"
    BY <2>1, <2>2 DEF Excused, Opened
  <2> HIDE DEF resumed
  <2>4. CASE at' = "commit" /\ eng' = resumed /\ UNCHANGED vars
    BY <1>0, <2>1, <2>2, <2>4 DEF Standing, CallHolds, FailClosed, Sealed, Opened, vars
  <2>5. CASE eng' \in {eng, resumed} /\ Confirmed(FALSE, eng') /\ at' = "raised"
    <3>1. TaintWith
      BY <2>5 DEF Confirmed, ConfirmResumed, ResumeFails
    <3>2. Excused(state, eng')
      BY <2>3, <2>5
    <3> QED
      BY <1>0, <2>3, <2>5, <3>1, <3>2, RaisesClosed
  <2>6. CASE EffectRaises("resume", resumed)
    BY <1>0, <2>3, <2>6, EffectRaisesClosed
  <2> QED
    BY <1>11, <2>4, <2>5, <2>6 DEF Resume, resumed
<1>12. CASE Commit
  <2>1. /\ at = "commit" /\ Opened("RESUMING") /\ eng.weights = "sent" /\ UNCHANGED eng
        /\ eng.label = aim.version /\ eng.kv = None
    BY <1>0, <1>12 DEF Commit, CallHolds
  <2>2. Excused(state, eng') /\ state # "READY"
    BY <2>1 DEF Excused, Opened
  <2>3. CASE EffectFails
    <3>1. at' = "raised" /\ (UNCHANGED vars \/ TaintWith)
      BY <2>3 DEF EffectFails
    <3> QED
      BY <1>0, <2>2, <3>1, RaisesClosed
  <2>4. CASE Confirmed(TRUE, eng) /\ at' = IF state' = "READY" THEN "returned" ELSE "raised"
    <3>1. \/ at' = "returned" /\ state' = "READY" /\ current' = pending
          \/ at' = "raised" /\ TaintWith
      BY <2>4 DEF Confirmed, ConfirmResumed, Advance, TaintWith
    <3>2. CASE at' = "raised" /\ TaintWith
      BY <1>0, <2>2, <3>2, RaisesClosed
    <3>3. CASE at' = "returned" /\ state' = "READY" /\ current' = pending
      BY <2>1, <3>3 DEF Standing, CallHolds, FailClosed, Calls, Labelled, Opened
    <3> QED
      BY <3>1, <3>2, <3>3
  <2> QED
    BY <1>12, <2>3, <2>4 DEF Commit
<1> QED
  BY <1>0, <1>1, <1>2, <1>3, <1>4, <1>5, <1>6, <1>7, <1>8, <1>9, <1>10, <1>11, <1>12
     DEF CycleCall

(* A cycle is called where it can fail closed: by a controller that serves *)
(* or on a dead engine, and by hand on a drained one.                      *)
LEMMA CallStanding ==
  ASSUME EveryGeneration, Base, Closed, CallCycle
  PROVE  Standing'
<1>0. /\ script \in Scripts /\ XTypeOK /\ Prepared /\ before' = current
      /\ UNCHANGED <<state, current, pending, eng>>
  BY CallTargets DEF Base, Closed, vars
<1>1. CASE Now("by hand")
  <2>1. script = "failures"
    BY <1>0, <1>1, StepBelongs DEF Belongs
  <2>2. at' = "begin" /\ AtStep(ByHand)
    BY <1>1 DEF CallCycle, Call, Now, AtStep, ByHand
  <2>3. Sealed
    BY <1>0, <2>1, <2>2 DEF Prepared, Drained
  <2> QED
    BY <1>0, <2>2, <2>3 DEF Standing, CallHolds, FailClosed, Sealed, Calls
<1>2. CASE Now("cycle") \/ Now("try") \/ Now("spawn")
  <2>1. PICK a \in Called : Now(a)
    BY <1>2 DEF Called
  <2>2. at' = "called" /\ stage = "run" /\ AtStep({a})
    BY <1>2, <2>1 DEF CallCycle, Call, Now, AtStep
  <2>3. eng.up => state = "READY" /\ Labelled
    <3>1. /\ Belongs(script, a) /\ script # "smoke"
          /\ a \in {"cycle", "try"} => script # "benchmark"
          /\ a = "spawn" => script \in {"updatekill", "benchmark"}
      BY <1>0, <2>1, StepBelongs DEF Belongs, Killers
    <3>2. at = "idle" \/ a = "spawn"
      BY <1>2, <2>1 DEF CallCycle, Now
    <3>3. at = "idle"
      <4>1. CASE a = "spawn"
        BY <1>0, <2>1, <4>1, Idle DEF Closed, Carry, Clear
      <4> QED
        BY <3>2, <4>1
    <3>4. CASE script = "failures"
      <4>1. a = "try"
        <5>1. a # "cycle"
          BY <1>0, <2>2, <3>3, <3>4 DEF Prepared, InCycle, AtStep
        <5> QED
          BY <2>1, <3>1, <3>4, <5>1 DEF Called
      <4>2. Scenario["failures"] = Failures
        BY DEF Scenario
      <4>3. pc \in 1..Len(Failures) /\ Failures[pc] = "try"
        BY <1>0, <2>2, <3>4, <4>1, <4>2, Position DEF AtStep, XTypeOK
      <4>4. pc \in 24..29
        BY <4>3, FailuresTries
      <4> QED
        BY <1>0, <2>2, <3>4, <4>4 DEF Prepared, Deathbed
    <3>5. CASE script = "benchmark"
      <4>1. a = "spawn" /\ AtStep(Warm)
        BY <2>1, <2>2, <3>1, <3>5 DEF Called, AtStep, Warm
      <4>2. Scenario["benchmark"] = Benchmark
        BY DEF Scenario
      <4>3. pc \in 1..Len(Benchmark) /\ Benchmark[pc] = "spawn"
        BY <1>0, <2>2, <3>5, <4>1, <4>2, Position DEF AtStep, XTypeOK
      <4>4. pc = 4 \/ pc = 14
        BY <4>3, BenchmarkSpawns
      <4>5. pc > 1
        BY <4>4
      <4> QED
        BY <1>0, <2>2, <3>5, <4>1, <4>4, <4>5 DEF Prepared, Measured
    <3>6. CASE script \in Plain
      <4>1. state = "READY" /\ (Unspoiled => Labelled)
        BY <1>0, <2>1, <2>2, <3>3, <3>6 DEF Prepared, Serving, AtStep
      <4>2. ASSUME script = "cache" PROVE pc <= 10
        <5>1. Scenario["cache"] = Cache
          BY DEF Scenario
        <5>2. pc \in 1..Len(Cache) /\ Cache[pc] \in Called
          BY <1>0, <2>1, <2>2, <4>2, <5>1, Position DEF AtStep, XTypeOK
        <5> QED
          BY <5>2, CacheCycles
      <4> QED
        BY <4>1, <4>2 DEF Unspoiled
    <3> QED
      BY <1>0, <3>1, <3>4, <3>5, <3>6, ScriptNames DEF Plain
  <2> QED
    BY <1>0, <2>2, <2>3 DEF Standing, CallHolds, FailClosed, Calls, Labelled
<1> QED
  BY <1>1, <1>2 DEF CallCycle

LEMMA StandingStep ==
  ASSUME EveryGeneration, Base, Closed, XNext
  PROVE  Standing'
<1>0. /\ script \in Scripts /\ XTypeOK /\ Undisturbed /\ Hosted /\ Standing
      /\ eng \in Engines
  BY DEF Base, Closed, XTypeOK, Standing
<1>1. CASE Cycling
  BY <1>0, <1>1, CycleStanding
<1>2. CASE CallCycle
  BY <1>2, CallStanding
<1>3. CASE Launch \/ NewController \/ Seed
  BY <1>3, NoCycle DEF Launch, NewController, Seed, Afresh
<1>4. CASE Ready
  <2>1. at' = "idle"
    BY <1>0, <1>4 DEF Ready, Hosted
  <2> QED
    BY <2>1, NoCycle
<1>5. ASSUME NEW a, Now(a), a \notin Carry \cup Clear, UNCHANGED at
      PROVE  Standing'
  BY <1>0, <1>5, Idle, NoCycle
<1>6. CASE Inject \/ Bootstrap \/ Touch
  BY <1>5, <1>6 DEF Inject, Bootstrap, Touch, Directly, SameCycle, Carry, Clear
<1>7. CASE Generate \/ DrainByHand \/ Quiesce \/ Mismatch \/ Abandon
  BY <1>5, <1>7 DEF Generate, DrainByHand, Pause, Quiesce, Mismatch, Abandon, SameCycle,
                    stackVars, Carry, Clear
<1>8. CASE UNCHANGED <<state, current, pending, taintedIn, eng, at, aim, before>>
  BY <1>0, <1>8, SameStack
<1>9. CASE RefusedAdoption \/ JoinRequest \/ Look \/ Join \/ Check \/ Verdict \/ Hang
  BY <1>8, <1>9 DEF RefusedAdoption, JoinRequest, Look, Join, Check, Verdict, Hang, vars,
                    stackVars
<1>10. CASE \/ Return \/ Interrupt \/ CallFails \/ WriteReport
            \/ \E c \in {1, Interrupted} : NotReady(c)
  BY <1>8, <1>10 DEF Return, Interrupt, CallFails, WriteReport, NotReady, vars, stackVars
<1>11. CASE Stream \/ RequestEnds
  BY <1>8, <1>11 DEF Stream, RequestEnds, SameCycle, vars
<1>12. CASE ThreadReleases \/ Admit \/ Finish
  BY <1>8, <1>12 DEF ThreadReleases, Admit, Finish, AdmitRollout, ReleaseRollout,
     SameCycle,
                     vars, stackVars
<1>13. CASE Kill \/ Crash
  BY <1>0, <1>13, EngineEnds DEF Kill, Crash, Dies, vars
<1>14. CASE Stop \/ StopServer
  BY <1>0, <1>14, EngineEnds DEF Stop, StopServer, Terminate, SameCycle, vars
<1>15. CASE JoinHot
  BY <1>0, <1>8, <1>15, EngineEnds, NoCycle DEF JoinHot, Terminate, vars
<1>16. CASE CycleEnds
  BY <1>8, <1>16, NoCycle DEF CycleEnds, vars
<1> QED
  BY <1>1, <1>2, <1>3, <1>4, <1>6, <1>7, <1>9, <1>10, <1>11, <1>12, <1>13, <1>14, <1>15,
     <1>16
     DEF XNext, Main, Around

-----------------------------------------------------------------------------
(* The second layer.                                                       *)

LEMMA ClosedInit == XInit => Closed
<1> SUFFICES ASSUME XInit PROVE Closed
  OBVIOUS
<1>1. script \in Scripts /\ pc = 1 /\ at = "idle" /\ ~eng.up
  BY DEF XInit, SInit, FreshEngine
<1>2. Undisturbed /\ Standing
  BY <1>1 DEF Undisturbed, Standing, CallHolds, FailClosed, Calls
<1>3. Drained /\ Deathbed
  BY <1>1 DEF Drained, Deathbed, Sealed
<1>4. ~AtStep({"cycle"}) /\ ~AtStep(Called \cup Between)
  BY <1>1, StepOpens DEF Opens, Called, Between
<1> QED
  BY <1>1, <1>2, <1>3, <1>4 DEF Closed, Prepared, InCycle, Serving, Measured, Standing

LEMMA ClosedStep ==
  ASSUME EveryGeneration, Base, Closed, [XNext]_xvars
  PROVE  Closed'
<1>1. CASE XNext
  BY <1>1, UndisturbedStep, DrainedStep, InCycleStep, DeathbedStep, ServingStep,
     MeasuredStep,
     StandingStep DEF Closed, Prepared, Standing
<1>2. CASE UNCHANGED xvars
  <2>1. /\ UNCHANGED <<state, current, pending, taintedIn, eng, at, aim, before>>
        /\ UNCHANGED <<script, pc, stage>>
    BY <1>2 DEF xvars, vars, stackVars, runVars
  <2>2. Standing'
    BY <2>1, SameStack DEF Closed, Standing
  <2>3. Undisturbed'
    BY <2>1 DEF Closed, Undisturbed, AtEnd, AtStep
  <2>4. Prepared'
    BY <2>1 DEF Closed, Prepared, Drained, InCycle, Deathbed, Serving, Measured, Sealed,
       Labelled, Unspoiled, AtStep
  <2> QED
    BY <2>2, <2>3, <2>4 DEF Closed, Standing
<1> QED
  BY <1>1, <1>2

(* Both layers together are inductive.                                     *)
THEOREM ClosedInductive ==
  ASSUME EveryGeneration
  PROVE  XSpec => [](Base /\ Closed)
<1>1. Base /\ Closed /\ [XNext]_xvars => (Base /\ Closed)'
  BY BaseStep, ClosedStep
<1> QED
  BY BaseInit, ClosedInit, <1>1, PTL DEF XSpec

(* run_cycle ("every step is fail-closed"), as the demo, the fault tests   *)
(* and the diagnostics rely on it: a cycle that raised, from whatever      *)
(* fault, refusal, lost answer or death, has published nothing and admits  *)
(* nothing, and its engine serves nothing but the generation it served     *)
(* before, when the pause never arrived, or the validated target, when the *)
(* resume did and its answer or the read-back of it was lost.              *)
THEOREM ScriptsFailClosed ==
  ASSUME EveryGeneration
  PROVE  XSpec => []FailClosed
  BY ClosedInductive, PTL DEF Closed

=============================================================================
