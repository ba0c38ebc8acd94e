------------------------- MODULE StressSuite_proofs -------------------------
(***************************************************************************)
(* Proofs about StressSuite, for every number of workers, informers,       *)
(* scenarios, requests and faults.                                         *)
(*                                                                         *)
(* The driver judges a scenario by its metrics, so the heart of the proof  *)
(* is that they hold the scenario's own calls and no others, but for those *)
(* whose errors it drops (OwnCalls): a round adds to both by the same      *)
(* effect, seeds and helpers drop what fails, and a new scenario starts    *)
(* anew after every worker of the last one has ended.  Drained says        *)
(* when a worker may have ended (only then is the join of the pool the end *)
(* of its work), Reported relates the results to Run's verdict, Heard that *)
(* no received watch error is dropped, and UpdatersGone that what a        *)
(* scenario started ends with it.  What is assumed of the scenarios        *)
(* (RunnerOK) is proved of each of the runner's scenarios (TableOK).       *)
(***************************************************************************)
EXTENDS StressSuite, TLAPS

-----------------------------------------------------------------------------
(* The scenarios *)

\* What a round may leave behind, for a worker whose next mode is in N.
Effects(N) == [ok : Nat, fail : Nat, bad : Nat, done : Nat, werr : Nat, next : N]

\* The modes of a worker that is in its loop.
Modes == {"loop", "update", "lead", "grant", "renew"}

\* What the driver relies on in a scenario: its rate is a percentage, a worker
\* begins in one of its modes and stays in them; only a scenario that runs to
\* a deadline has workers that leave by themselves.
RunnerOK(x) ==
  /\ x.rate \in 1..100
  /\ DOMAIN x.rounds \subseteq Modes
  /\ x.starts \subseteq DOMAIN x.rounds
  /\ \A m \in DOMAIN x.rounds :
       x.rounds[m] \subseteq
         Effects(DOMAIN x.rounds \cup (IF x.feed = "generator" THEN {} ELSE {"ended"}))

LEMMA Share ==
    ASSUME NEW rate \in 1..100, NEW ok \in Nat, NEW fail \in Nat, NEW bad \in Int,
           bad <= fail, ok + fail > 0, 100 * ok >= rate * (ok + fail)
    PROVE  ok > 0 /\ 100 * ok >= rate * (ok + bad)
OBVIOUS

LEMMA BasicEffects ==
    /\ Nothing \in Effects({"loop"}) /\ Success \in Effects({"loop"})
    /\ Failure \in Effects({"loop"}) /\ Unrecorded \in Effects({"loop"})
BY DEF Nothing, Success, Failure, Unrecorded, Effects

LEMMA EffectsGrow ==
    ASSUME NEW N, NEW M, N \subseteq M
    PROVE  Effects(N) \subseteq Effects(M)
BY DEF Effects

LEMMA DerivedEffects ==
    ASSUME NEW N, NEW e \in Effects(N)
    PROVE  /\ Counted(e) \in Effects(N)
           /\ \A m : Enter(e, m) \in Effects({m})
           /\ [e EXCEPT !.werr = 1, !.bad = 1] \in Effects(N)
           /\ Revoked(e) \subseteq Effects(N)
           /\ \A b \in Effects(N) : Both(b, e) \in Effects(N)
<1>1. Counted(e) \in Effects(N)
  BY DEF Effects, Counted
<1>2. \A m : Enter(e, m) \in Effects({m})
  BY DEF Effects, Enter
<1>3. [e EXCEPT !.werr = 1, !.bad = 1] \in Effects(N)
  BY DEF Effects
<1>4. [e EXCEPT !.bad = @ + 1] \in Effects(N)
  BY DEF Effects
<1>5. \A b \in Effects(N) : Both(b, e) \in Effects(N)
  BY DEF Effects, Both
<1> QED BY <1>1, <1>2, <1>3, <1>4, <1>5 DEF Revoked

\* The scenarios with one mode.
LEMMA Looping ==
    ASSUME NEW x, x.rate \in 1..100, x.starts = {"loop"}, NEW L, x.rounds = [loop |-> L],
           L \subseteq Effects({"loop"})
    PROVE  RunnerOK(x)
<1>1. DOMAIN x.rounds = {"loop"} /\ x.rounds["loop"] = L
  OBVIOUS
<1>2. Effects({"loop"}) \subseteq
        Effects({"loop"} \cup (IF x.feed = "generator" THEN {} ELSE {"ended"}))
  BY EffectsGrow
<1> QED BY <1>1, <1>2 DEF RunnerOK, Modes

\* The scenarios whose workers put or get in a loop.
LEMMA PlainScenarios ==
    ASSUME NEW x \in {RunConcurrentPuts, RunSustainedLoad, RunSequentialWrites,
                      RunBurstWrites, RunRampUpLoad, RunLargeValues, RunManyKeys,
                      RunHighContention, RunMixedWorkload,
                      RunNamespaceIsolationHeavy, RunWatchManyPrefixes,
                      RunWatchBookmarkHeavy, RunWatchProgressNotify}
    PROVE  RunnerOK(x)
<1>1. /\ {Success, Failure} \subseteq Effects({"loop"})
      /\ {Success, Failure} \cup {Success, Failure} \subseteq Effects({"loop"})
      /\ {Success, Failure} \cup {Success, Failure} \cup {Success, Failure}
           \subseteq Effects({"loop"})
  BY BasicEffects
<1>2. CASE x = RunConcurrentPuts
  <2>1. /\ x.rate \in 1..100 /\ x.starts = {"loop"}
        /\ x.rounds = [loop |-> {Success, Failure}]
    BY <1>2 DEF RunConcurrentPuts, Scenario, Puts, performPutWithMetrics
  <2> QED BY <1>1, <2>1, Looping
<1>3. CASE x = RunSustainedLoad
  <2>1. /\ x.rate \in 1..100 /\ x.starts = {"loop"}
        /\ x.rounds = [loop |-> {Success, Failure}]
    BY <1>3 DEF RunSustainedLoad, Scenario, Puts, performPutWithMetrics
  <2> QED BY <1>1, <2>1, Looping
<1>4. CASE x = RunSequentialWrites
  <2>1. /\ x.rate \in 1..100 /\ x.starts = {"loop"}
        /\ x.rounds = [loop |-> {Success, Failure}]
    BY <1>4 DEF RunSequentialWrites, Scenario, Puts, performPutWithMetrics
  <2> QED BY <1>1, <2>1, Looping
<1>5. CASE x = RunBurstWrites
  <2>1. /\ x.rate \in 1..100 /\ x.starts = {"loop"}
        /\ x.rounds = [loop |-> {Success, Failure}]
    BY <1>5 DEF RunBurstWrites, Scenario, Puts, performPutWithMetrics
  <2> QED BY <1>1, <2>1, Looping
<1>6. CASE x = RunRampUpLoad
  <2>1. /\ x.rate \in 1..100 /\ x.starts = {"loop"}
        /\ x.rounds = [loop |-> {Success, Failure}]
    BY <1>6 DEF RunRampUpLoad, Scenario, Puts, performPutWithMetrics
  <2> QED BY <1>1, <2>1, Looping
<1>7. CASE x = RunLargeValues
  <2>1. /\ x.rate \in 1..100 /\ x.starts = {"loop"}
        /\ x.rounds = [loop |-> {Success, Failure}]
    BY <1>7 DEF RunLargeValues, Scenario, Puts, performPutWithMetrics
  <2> QED BY <1>1, <2>1, Looping
<1>8. CASE x = RunManyKeys
  <2>1. /\ x.rate \in 1..100 /\ x.starts = {"loop"}
        /\ x.rounds = [loop |-> {Success, Failure}]
    BY <1>8 DEF RunManyKeys, Scenario, Puts, performPutWithMetrics
  <2> QED BY <1>1, <2>1, Looping
<1>9. CASE x = RunHighContention
  <2>1. /\ x.rate \in 1..100 /\ x.starts = {"loop"}
        /\ x.rounds = [loop |-> {Success, Failure}]
    BY <1>9 DEF RunHighContention, Scenario, Recorded
  <2> QED BY <1>1, <2>1, Looping
<1>10. CASE x = RunMixedWorkload
  <2>1. /\ x.rate \in 1..100 /\ x.starts = {"loop"}
        /\ x.rounds = [loop |-> {Success, Failure} \cup {Success, Failure}]
    BY <1>10 DEF RunMixedWorkload, Scenario, performGetWithMetrics, performPutWithMetrics
  <2> QED BY <1>1, <2>1, Looping
<1>11. CASE x = RunNamespaceIsolationHeavy
  <2>1. /\ x.rate \in 1..100 /\ x.starts = {"loop"}
        /\ x.rounds = [loop |-> {Success, Failure} \cup {Success, Failure} \cup {Success, Failure}]
    BY <1>11 DEF RunNamespaceIsolationHeavy, Scenario, performGetWithMetrics, performPutWithMetrics, Recorded
  <2> QED BY <1>1, <2>1, Looping
<1>12. CASE x = RunWatchManyPrefixes
  <2>1. /\ x.rate \in 1..100 /\ x.starts = {"loop"}
        /\ x.rounds = [loop |-> {Success, Failure}]
    BY <1>12 DEF RunWatchManyPrefixes, Scenario, Watched, Puts, performPutWithMetrics
  <2> QED BY <1>1, <2>1, Looping
<1>13. CASE x = RunWatchBookmarkHeavy
  <2>1. /\ x.rate \in 1..100 /\ x.starts = {"loop"}
        /\ x.rounds = [loop |-> {Success, Failure}]
    BY <1>13 DEF RunWatchBookmarkHeavy, Scenario, Watched, Puts, performPutWithMetrics
  <2> QED BY <1>1, <2>1, Looping
<1>14. CASE x = RunWatchProgressNotify
  <2>1. /\ x.rate \in 1..100 /\ x.starts = {"loop"}
        /\ x.rounds = [loop |-> {Success, Failure}]
    BY <1>14 DEF RunWatchProgressNotify, Scenario, Watched, Puts, performPutWithMetrics
  <2> QED BY <1>1, <2>1, Looping
<1> QED BY <1>2, <1>3, <1>4, <1>5, <1>6, <1>7, <1>8, <1>9, <1>10, <1>11, <1>12,
            <1>13, <1>14

\* The other scenarios with one mode.
LEMMA LoopScenarios ==
    ASSUME NEW x \in {RunRandomReads, RunCompactDuringLoad, RunOptimisticConcurrencyTxn,
                      RunTxnMultiKeyUpdate, RunLeaseIntensiveWorkload, RunWatchWithChurn}
    PROVE  RunnerOK(x)
<1> DEFINE exhausted == [Nothing EXCEPT !.fail = 1]
           unlucky == [Counted(Success) EXCEPT !.werr = 1, !.bad = 1]
<1>1. /\ exhausted \in Effects({"loop"}) /\ Both(Failure, exhausted) \in Effects({"loop"})
      /\ Counted(Success) \in Effects({"loop"}) /\ unlucky \in Effects({"loop"})
  <2>1. exhausted \in Effects({"loop"})
    BY BasicEffects DEF Effects
  <2> HIDE DEF exhausted
  <2> QED BY <2>1, BasicEffects, DerivedEffects
<1>2. CASE x = RunRandomReads
  <2> DEFINE L == performGetWithMetrics \cup performPutWithMetrics \cup {Nothing}
  <2>1. /\ x.rate \in 1..100 /\ x.starts = {"loop"} /\ x.rounds = [loop |-> L]
    BY <1>2 DEF RunRandomReads, Scenario
  <2>2. L \subseteq Effects({"loop"})
    <3> HIDE DEF exhausted, unlucky
    <3> QED BY <1>1, BasicEffects DEF performGetWithMetrics, performPutWithMetrics
  <2> HIDE DEF L
  <2> QED BY <2>1, <2>2, Looping
<1>3. CASE x = RunCompactDuringLoad
  <2> DEFINE L == performPutWithMetrics \cup Recorded \cup {Failure, Nothing}
  <2>1. /\ x.rate \in 1..100 /\ x.starts = {"loop"} /\ x.rounds = [loop |-> L]
    BY <1>3 DEF RunCompactDuringLoad, Scenario
  <2>2. L \subseteq Effects({"loop"})
    <3> HIDE DEF exhausted, unlucky
    <3> QED BY <1>1, BasicEffects DEF performPutWithMetrics, Recorded
  <2> HIDE DEF L
  <2> QED BY <2>1, <2>2, Looping
<1>4. CASE x = RunOptimisticConcurrencyTxn
  <2> DEFINE L == {Counted(Success), Both(Failure, exhausted), exhausted}
  <2>1. /\ x.rate \in 1..100 /\ x.starts = {"loop"} /\ x.rounds = [loop |-> L]
    BY <1>4 DEF RunOptimisticConcurrencyTxn, Scenario
  <2>2. L \subseteq Effects({"loop"})
    <3> HIDE DEF exhausted, unlucky
    <3> QED BY <1>1, BasicEffects
  <2> HIDE DEF L
  <2> QED BY <2>1, <2>2, Looping
<1>5. CASE x = RunTxnMultiKeyUpdate
  <2> DEFINE L == {Failure, Counted(Success), Success, Unrecorded, Nothing}
  <2>1. /\ x.rate \in 1..100 /\ x.starts = {"loop"} /\ x.rounds = [loop |-> L]
    BY <1>5 DEF RunTxnMultiKeyUpdate, Scenario
  <2>2. L \subseteq Effects({"loop"})
    <3> HIDE DEF exhausted, unlucky
    <3> QED BY <1>1, BasicEffects
  <2> HIDE DEF L
  <2> QED BY <2>1, <2>2, Looping
<1>6. CASE x = RunLeaseIntensiveWorkload
  <2> DEFINE L == {Failure, Counted(Success)}
  <2>1. /\ x.rate \in 1..100 /\ x.starts = {"loop"} /\ x.rounds = [loop |-> L]
    BY <1>6 DEF RunLeaseIntensiveWorkload, Scenario
  <2>2. L \subseteq Effects({"loop"})
    <3> HIDE DEF exhausted, unlucky
    <3> QED BY <1>1, BasicEffects
  <2> HIDE DEF L
  <2> QED BY <2>1, <2>2, Looping
<1>7. CASE x = RunWatchWithChurn
  <2> DEFINE L == {Counted(Success), unlucky}
  <2>1. /\ x.rate \in 1..100 /\ x.starts = {"loop"} /\ x.rounds = [loop |-> L]
    BY <1>7 DEF RunWatchWithChurn, Scenario
  <2>2. L \subseteq Effects({"loop"})
    <3> HIDE DEF exhausted, unlucky
    <3> QED BY <1>1, BasicEffects
  <2> HIDE DEF L
  <2> QED BY <2>1, <2>2, Looping
<1> QED BY <1>2, <1>3, <1>4, <1>5, <1>6, <1>7

\* The pod cycles: a create that fails, or a create and what follows it.
LEMMA SequelEffects ==
    ASSUME NEW N, NEW A \in SUBSET Effects(N), NEW B \in SUBSET Effects(N)
    PROVE  A ** B \in SUBSET Effects(N)
<1>1. A ** B = {Both(a, b) : a \in A, b \in B}
  BY DEF **
<1>2. \A a \in A, b \in B : Both(a, b) \in Effects(N)
  BY DerivedEffects
<1> QED BY <1>1, <1>2

LEMMA PodScenarios ==
    ASSUME NEW x \in {RunK8sJobStorm, RunK8sPodLifecycleChurn, RunK8sCRDHeavyChurn}
    PROVE  RunnerOK(x)
<1>1. ASSUME NEW n PROVE PodCycle(n) \in SUBSET Effects({"loop"})
  <2>1. /\ {Success} \in SUBSET Effects({"loop"}) /\ {Nothing} \in SUBSET Effects({"loop"})
        /\ Recorded \in SUBSET Effects({"loop"}) /\ {Failure} \in SUBSET Effects({"loop"})
    BY BasicEffects DEF Recorded
  <2>2. ({Success} ** Recorded) \in SUBSET Effects({"loop"})
    BY <2>1, SequelEffects
  <2>3. ({Success} ** Recorded ** Recorded) \in SUBSET Effects({"loop"})
    BY <2>1, <2>2, SequelEffects
  <2>4. (IF n = 2 THEN Recorded ELSE {Nothing}) \in SUBSET Effects({"loop"})
    BY <2>1
  <2>5. ({Success} ** Recorded ** Recorded ** IF n = 2 THEN Recorded ELSE {Nothing})
          \in SUBSET Effects({"loop"})
    BY <2>3, <2>4, SequelEffects
  <2> QED BY <2>1, <2>5 DEF PodCycle
<1>2. PICK n : x.rate \in 1..100 /\ x.starts = {"loop"} /\ x.rounds = [loop |-> PodCycle(n)]
  <2>1. CASE x = RunK8sJobStorm
    BY <2>1 DEF RunK8sJobStorm, Informed, Scenario
  <2>2. CASE x = RunK8sPodLifecycleChurn
    BY <2>2 DEF RunK8sPodLifecycleChurn, Informed, Scenario
  <2>3. CASE x = RunK8sCRDHeavyChurn
    BY <2>3 DEF RunK8sCRDHeavyChurn, Informed, Scenario
  <2> QED BY <2>1, <2>2, <2>3
<1> QED BY <1>1, <1>2, Looping

\* The scenarios whose workers have several modes.
LEMMA HeartbeatEffects ==
    /\ {Enter(Unrecorded, "ended"), Enter(Nothing, "renew")} \subseteq Effects({"ended", "renew"})
    /\ {Enter(e, "renew") : e \in Recorded} \subseteq Effects({"renew"})
<1>1. \A e \in {Unrecorded, Nothing, Success, Failure} : \A m : Enter(e, m) \in Effects({m})
  BY BasicEffects, DerivedEffects
<1>2. /\ Effects({"ended"}) \subseteq Effects({"ended", "renew"})
      /\ Effects({"renew"}) \subseteq Effects({"ended", "renew"})
  BY EffectsGrow
<1> QED BY <1>1, <1>2 DEF Recorded

LEMMA ModeScenarios ==
    ASSUME NEW x \in {RunListPaginationHeavy, RunLeaderElectionContention,
                      RunK8sNodeHeartbeatLeases, RunK8sMixedApiserver}
    PROVE  RunnerOK(x)
<1>1. CASE x = RunListPaginationHeavy
  <2> DEFINE L == {Failure, Counted(Success)} \cup {Counted(Both(Failure, Success))}
             U == {Enter(e, "update") : e \in performPutWithMetrics}
             D == {"loop", "update"}
  <2>1. /\ x.rate = 80 /\ x.starts = D /\ x.rounds = [loop |-> L, update |-> U]
        /\ x.feed = "deadline"
    BY <1>1 DEF RunListPaginationHeavy, Scenario
  <2>2. L \subseteq Effects({"loop"}) /\ U \subseteq Effects({"update"})
    <3>1. Both(Failure, Success) \in Effects({"loop"})
      BY BasicEffects, DerivedEffects
    <3>2. Counted(Success) \in Effects({"loop"}) /\ Counted(Both(Failure, Success)) \in Effects({"loop"})
      BY <3>1, BasicEffects, DerivedEffects
    <3>3. Enter(Success, "update") \in Effects({"update"}) /\ Enter(Failure, "update") \in Effects({"update"})
      BY BasicEffects, DerivedEffects
    <3> QED BY <3>2, <3>3, BasicEffects DEF performPutWithMetrics
  <2>3. /\ Effects({"loop"}) \subseteq Effects(D \cup {"ended"})
        /\ Effects({"update"}) \subseteq Effects(D \cup {"ended"})
    BY EffectsGrow
  <2> HIDE DEF L, U
  <2>4. DOMAIN x.rounds = D /\ x.rounds["loop"] = L /\ x.rounds["update"] = U
    BY <2>1
  <2> QED BY <2>1, <2>2, <2>3, <2>4 DEF RunnerOK, Modes
<1>2. CASE x = RunLeaderElectionContention
  <2> DEFINE L == Revoked(Failure) \cup Revoked(Success) \cup {Enter(Counted(Success), "lead")}
             U == {Enter(Success, "lead"), Failure, Unrecorded, Nothing}
             D == {"loop", "lead"}
  <2>1. /\ x.rate = 80 /\ x.starts = {"loop"} /\ x.rounds = [loop |-> L, lead |-> U]
        /\ x.feed = "deadline"
    BY <1>2 DEF RunLeaderElectionContention, Scenario
  <2>2. /\ Effects({"loop"}) \subseteq Effects(D \cup {"ended"})
        /\ Effects({"lead"}) \subseteq Effects(D \cup {"ended"})
    BY EffectsGrow
  <2>3. /\ Enter(Counted(Success), "lead") \in Effects({"lead"})
        /\ Enter(Success, "lead") \in Effects({"lead"})
    BY BasicEffects, DerivedEffects
  <2>4. L \subseteq Effects(D \cup {"ended"}) /\ U \subseteq Effects(D \cup {"ended"})
    BY <2>2, <2>3, BasicEffects, DerivedEffects
  <2> HIDE DEF L, U
  <2>5. DOMAIN x.rounds = D /\ x.rounds["loop"] = L /\ x.rounds["lead"] = U
    BY <2>1
  <2> QED BY <2>1, <2>4, <2>5 DEF RunnerOK, Modes
<1>3. CASE x = RunK8sNodeHeartbeatLeases
  <2> DEFINE G == {Enter(Unrecorded, "ended"), Enter(Nothing, "renew")}
             U == {Enter(e, "renew") : e \in Recorded}
             D == {"grant", "renew"}
  <2>1. /\ x.rate = 99 /\ x.starts = {"grant"} /\ x.rounds = [grant |-> G, renew |-> U]
        /\ x.feed = "deadline"
    BY <1>3 DEF RunK8sNodeHeartbeatLeases, HeartbeatRounds, Scenario
  <2>2. /\ Effects({"ended", "renew"}) \subseteq Effects(D \cup {"ended"})
        /\ Effects({"renew"}) \subseteq Effects(D \cup {"ended"})
    BY EffectsGrow
  <2>3. G \subseteq Effects(D \cup {"ended"}) /\ U \subseteq Effects(D \cup {"ended"})
    BY <2>2, HeartbeatEffects
  <2> HIDE DEF G, U
  <2>4. DOMAIN x.rounds = D /\ x.rounds["grant"] = G /\ x.rounds["renew"] = U
    BY <2>1
  <2> QED BY <2>1, <2>3, <2>4 DEF RunnerOK, Modes
<1>4. CASE x = RunK8sMixedApiserver
  <2> DEFINE G == {Enter(Unrecorded, "ended"), Enter(Nothing, "renew")}
             U == {Enter(e, "renew") : e \in Recorded}
             D == {"loop", "grant", "renew"}
  <2>1. /\ x.rate = 90 /\ x.starts = {"loop", "grant"} /\ x.feed = "deadline"
        /\ x.rounds = [loop |-> Recorded, grant |-> G, renew |-> U]
    BY <1>4 DEF RunK8sMixedApiserver, Informed, HeartbeatRounds, Scenario
  <2>2. /\ Effects({"ended", "renew"}) \subseteq Effects(D \cup {"ended"})
        /\ Effects({"renew"}) \subseteq Effects(D \cup {"ended"})
        /\ Effects({"loop"}) \subseteq Effects(D \cup {"ended"})
    BY EffectsGrow
  <2>3. /\ G \subseteq Effects(D \cup {"ended"}) /\ U \subseteq Effects(D \cup {"ended"})
        /\ Recorded \subseteq Effects(D \cup {"ended"})
    <3>1. Recorded \subseteq Effects({"loop"})
      BY BasicEffects DEF Recorded
    <3> QED BY <2>2, <3>1, HeartbeatEffects
  <2> HIDE DEF G, U
  <2>4. /\ DOMAIN x.rounds = D /\ x.rounds["grant"] = G /\ x.rounds["renew"] = U
        /\ x.rounds["loop"] = Recorded
    BY <2>1
  <2> QED BY <2>1, <2>3, <2>4 DEF RunnerOK, Modes
<1> QED BY <1>1, <1>2, <1>3, <1>4

\* Every scenario of the suite is one the driver can run.
LEMMA TableOK ==
    ASSUME NEW s \in AllStressScenarios
    PROVE  RunnerOK(StressIDStringToRunnerFunc[s])
BY PlainScenarios, LoopScenarios, PodScenarios, ModeScenarios
   DEF AllStressScenarios, StressIDStringToRunnerFunc

-----------------------------------------------------------------------------
(* The inductive invariant *)

Running == pc \in {"load", "join"}

Truths == [ok : Nat, bad : Nat, dropped : Nat]
Tallies == [done : Nat, werrs : Nat, events : BOOLEAN, bookmarks : BOOLEAN]
WorkerStates == [mode : Modes \cup {"ended", "panicked"}, rounds : Nat]
Generators == [at : {"off", "run", "ended"}, queue : Nat, sent : Nat, stop : BOOLEAN]

Typed ==
  /\ pc \in {"next", "load", "join", "exit"}
  /\ Running => scenario \in Scenarios
  /\ metrics \in [ok : Nat, fail : Nat] /\ truth \in Truths
  /\ panics \in Nat
  /\ worker \in [Workers -> WorkerStates]
  /\ gen \in Generators
  /\ informer \in [Informers -> {"off", "watching", "ended"} \cup Sent]
  /\ tally \in Tallies
  /\ watchErr \in BOOLEAN

\* Results are kept for every scenario gone through, and Run's verdict is theirs.
Reported ==
  /\ results \in Seq({"pass", "fail"}) /\ Len(results) = count
  /\ pc # "exit" => exit = "none"
  /\ exit = "ok" => \A k \in DOMAIN results : results[k] # "fail"

\* The metrics hold the scenario's own calls and no others, and all of them but the failed ones it
\* drops; a scenario that has no helper is not given one.
OwnCalls ==
  Running => /\ metrics.ok = truth.ok
             /\ truth.bad - truth.dropped <= metrics.fail
             /\ RecordsAll => truth.dropped = 0
             /\ S.helper = "none" => helper # "run"

\* A worker that has ended had nothing more to take from the generator; one
\* that has not is in a mode of its scenario, or has panicked.
Drained ==
  Running =>
    /\ \A w \in Workers : worker[w].mode \in DOMAIN S.rounds \cup {"ended", "panicked"}
    /\ S.feed # "generator" => gen.at = "off" /\ gen.queue = 0
    /\ \A w \in Workers : worker[w].mode = "ended" => gen.at # "run" /\ gen.queue = 0
    /\ \A w \in Workers : worker[w].mode = "panicked" => panics > 0
    /\ pc = "join" => \A w \in Workers : ~Active(w)

\* A watch error that was received is counted, or about to be.
Heard == watchErr => tally.werrs > 0 \/ \E i \in Informers : informer[i] = "error"

\* No updater outlives its scenario.
UpdatersGone == ~Running => ~(helper = "run" /\ S.helper = "updaters")

Inv == Typed /\ Reported /\ OwnCalls /\ Drained /\ Heard /\ UpdatersGone

-----------------------------------------------------------------------------
(* A round *)

LEMMA RunnerFacts ==
    ASSUME Typed, Running
    PROVE  RunnerOK(S)
BY TableOK, StressAssumption DEF Typed, Running, S

\* What a round leaves behind is counted in naturals, and its worker goes on
\* in a mode of the scenario or leaves a scenario that has no generator.
LEMMA RoundFacts ==
    ASSUME Typed, Drained, NEW w \in Workers, pc = "load", MayRound(w),
           NEW e \in S.rounds[worker[w].mode]
    PROVE  /\ worker[w].mode \in DOMAIN S.rounds
           /\ e \in Effects(DOMAIN S.rounds \cup {"ended"})
           /\ e.next = "ended" => S.feed # "generator"
           /\ e.next \in Modes \cup {"ended"}
<1> DEFINE D == DOMAIN S.rounds
           N == D \cup (IF S.feed = "generator" THEN {} ELSE {"ended"})
<1>1. RunnerOK(S)
  BY RunnerFacts DEF Running
<1>2. worker[w].mode \in D
  BY DEF Drained, Running, MayRound, Active
<1>3. e \in Effects(N) /\ D \subseteq Modes
  BY <1>1, <1>2 DEF RunnerOK
<1>4. e.next \in N
  BY <1>3 DEF Effects
<1>5. Effects(N) \subseteq Effects(D \cup {"ended"})
  BY EffectsGrow
<1>6. "ended" \notin D
  BY <1>3 DEF Modes
<1> QED BY <1>2, <1>3, <1>4, <1>5, <1>6

-----------------------------------------------------------------------------
(* Types *)

LEMMA TypedRound ==
    ASSUME Typed, Drained, NEW w \in Workers, WorkerRound(w)
    PROVE  Typed'
<1>1. pc = "load" /\ MayRound(w)
  BY DEF WorkerRound
<1>2. PICK e \in S.rounds[worker[w].mode] :
          /\ metrics' = [ok |-> metrics.ok + e.ok, fail |-> metrics.fail + e.fail]
          /\ truth' = [ok |-> truth.ok + e.ok, bad |-> truth.bad + e.bad,
                       dropped |-> truth.dropped + Unreported(e)]
          /\ worker' = [worker EXCEPT ![w] = [mode |-> e.next, rounds |-> @.rounds + 1]]
          /\ tally' = [tally EXCEPT !.done = @ + e.done, !.werrs = @ + e.werr]
  BY DEF WorkerRound
<1>3. e \in Effects(DOMAIN S.rounds \cup {"ended"}) /\ e.next \in Modes \cup {"ended"}
  BY <1>1, <1>2, RoundFacts
<1>4. e.ok \in Nat /\ e.fail \in Nat /\ e.bad \in Nat /\ e.done \in Nat /\ e.werr \in Nat
  BY <1>3 DEF Effects
<1>5. metrics' \in [ok : Nat, fail : Nat] /\ truth' \in Truths
  BY <1>2, <1>4 DEF Typed, Truths, Unreported
<1>6. worker' \in [Workers -> WorkerStates]
  <2> DEFINE v == [mode |-> e.next, rounds |-> worker[w].rounds + 1]
  <2>1. v \in WorkerStates
    BY <1>3 DEF Typed, WorkerStates
  <2>2. worker' = [worker EXCEPT ![w] = v]
    BY <1>2
  <2> HIDE DEF v
  <2> QED BY <2>1, <2>2 DEF Typed
<1>7. tally' \in Tallies
  <2> DEFINE a == tally.done + e.done
             b == tally.werrs + e.werr
  <2>1. tally' = [tally EXCEPT !.done = a, !.werrs = b]
    BY <1>2
  <2>2. a \in Nat /\ b \in Nat
    BY <1>4 DEF Typed, Tallies
  <2> HIDE DEF a, b
  <2> QED BY <2>1, <2>2 DEF Typed, Tallies
<1>8. gen' \in Generators
  <2>1. gen' = gen \/ (gen.queue > 0 /\ gen' = [gen EXCEPT !.queue = @ - 1])
    BY DEF WorkerRound, MayRound
  <2> QED BY <2>1 DEF Typed, Generators
<1>9. UNCHANGED <<pc, scenario, panics, informer, watchErr>>
  BY DEF WorkerRound
<1> QED BY <1>5, <1>6, <1>7, <1>8, <1>9 DEF Typed, Running

LEMMA NoTallyType == NoTally \in Tallies /\ NoCalls \in Truths
BY DEF NoTally, Tallies, NoCalls, Truths

\* Dropping the error of a call is counted in naturals too.
LEMMA DroppingFacts ==
    ASSUME truth \in Truths, NEW n \in {0, 1}
    PROVE  /\ Dropping(n) \in Truths
           /\ Dropping(n).ok = truth.ok
           /\ Dropping(n).bad = truth.bad + n /\ Dropping(n).dropped = truth.dropped + n
<1>1. PICK a \in Nat, b \in Nat, d \in Nat : truth = [ok |-> a, bad |-> b, dropped |-> d]
  BY DEF Truths
<1>2. Dropping(n) = [ok |-> a, bad |-> b + n, dropped |-> d + n]
  BY <1>1 DEF Dropping
<1>3. n \in Nat
  OBVIOUS
<1>4. truth.ok = a /\ truth.bad = b /\ truth.dropped = d
  BY <1>1
<1>5. Dropping(n) \in Truths
  BY <1>2, <1>3 DEF Truths
<1>6. Dropping(n).ok = a /\ Dropping(n).bad = b + n /\ Dropping(n).dropped = d + n
  BY <1>2
<1> QED BY <1>4, <1>5, <1>6

\* What the seeds leave behind.
LEMMA SeedFacts ==
    ASSUME NEW x, Seed(x)
    PROVE  /\ truth' \in Truths /\ truth'.ok = 0 /\ truth'.bad = truth'.dropped
           /\ ~x.seeds => truth'.dropped = 0
<1>1. PICK n \in {0, 1} : /\ truth' = [NoCalls EXCEPT !.bad = n, !.dropped = n]
                          /\ ~x.seeds => n = 0
  BY DEF Seed
<1>2. truth' = [ok |-> 0, bad |-> n, dropped |-> n]
  BY <1>1 DEF NoCalls
<1>3. n \in Nat
  OBVIOUS
<1>4. truth'.ok = 0 /\ truth'.bad = n /\ truth'.dropped = n
  BY <1>2
<1>5. truth' \in Truths
  BY <1>2, <1>3 DEF Truths
<1> QED BY <1>1, <1>4, <1>5

LEMMA TypedStart ==
    ASSUME Typed, StartScenario
    PROVE  Typed'
<1>1. PICK s \in Scenarios : LET runner == StressIDStringToRunnerFunc[s] IN
        /\ scenario' = s
        /\ \E start \in [Workers -> runner.starts] :
              worker' = [w \in Workers |-> [mode |-> start[w], rounds |-> 0]]
        /\ gen' = [at |-> IF runner.feed = "generator" THEN "run" ELSE "off",
                   queue |-> 0, sent |-> 0, stop |-> FALSE]
        /\ informer' = [i \in Informers |-> IF runner.informer = "none" THEN "off" ELSE "watching"]
  BY DEF StartScenario
<1> DEFINE runner == StressIDStringToRunnerFunc[s]
<1>2. runner.starts \subseteq Modes
  BY TableOK, StressAssumption DEF RunnerOK
<1> HIDE DEF runner
<1>3. PICK start \in [Workers -> runner.starts] :
        worker' = [w \in Workers |-> [mode |-> start[w], rounds |-> 0]]
  BY <1>1 DEF runner
<1>4. worker' \in [Workers -> WorkerStates]
  BY <1>2, <1>3 DEF WorkerStates
<1>5. gen' \in Generators
  BY <1>1 DEF runner, Generators
<1>6. informer' \in [Informers -> {"off", "watching", "ended"} \cup Sent]
  BY <1>1 DEF runner
<1>7. /\ pc' = "load" /\ metrics' = [ok |-> 0, fail |-> 0]
      /\ panics' = 0 /\ tally' = NoTally /\ watchErr' = FALSE
  BY DEF StartScenario, Reset
<1>8. truth' \in Truths
  <2>1. \E x : Seed(x)
    BY DEF StartScenario
  <2> QED BY <2>1, SeedFacts
<1> QED BY <1>1, <1>4, <1>5, <1>6, <1>7, <1>8, NoTallyType DEF Typed, Running

\* The steps of the generator, and of the scenario's goroutine that stops it.
LEMMA TypedGenerator ==
    ASSUME Typed, GeneratorSends \/ GeneratorEnds \/ WorkersJoined
    PROVE  Typed'
<1>1. gen \in Generators /\ gen.queue \in Nat /\ gen.sent \in Nat
  BY DEF Typed, Generators
<1>2. gen' \in Generators
  <2>1. CASE GeneratorSends
    <3> DEFINE a == gen.queue + 1
               b == gen.sent + 1
    <3>1. gen' = [gen EXCEPT !.queue = a, !.sent = b] /\ a \in Nat /\ b \in Nat
      BY <1>1, <2>1 DEF GeneratorSends
    <3> HIDE DEF a, b
    <3> QED BY <1>1, <3>1 DEF Generators
  <2>2. CASE GeneratorEnds
    BY <1>1, <2>2 DEF GeneratorEnds, Generators
  <2>3. CASE WorkersJoined
    BY <1>1, <2>3 DEF WorkersJoined, Generators
  <2> QED BY <2>1, <2>2, <2>3
<1>3. /\ UNCHANGED <<scenario, metrics, truth, worker, panics, informer, tally, watchErr>>
      /\ pc' = pc \/ (pc = "load" /\ pc' = "join")
  BY DEF GeneratorSends, GeneratorEnds, WorkersJoined, watchVars
<1> QED BY <1>2, <1>3 DEF Typed, Running

LEMMA TypedWorkers ==
    ASSUME Typed, NEW w \in Workers, WorkerEnds(w) \/ WorkerPanics(w)
    PROVE  Typed'
<1>1. PICK m \in {"ended", "panicked"} : worker' = [worker EXCEPT ![w].mode = m]
  BY DEF WorkerEnds, WorkerPanics
<1>2. worker' \in [Workers -> WorkerStates]
  BY <1>1 DEF Typed, WorkerStates
<1>3. /\ UNCHANGED <<pc, scenario, metrics, gen, informer, tally, watchErr>>
      /\ panics' = panics \/ panics' = panics + 1
  BY DEF WorkerEnds, WorkerPanics, watchVars
<1>4. truth' = truth \/ \E n \in {0, 1} : truth' = Dropping(n)
  BY DEF WorkerEnds, WorkerPanics
<1>5. truth' \in Truths
  BY <1>4, DroppingFacts DEF Typed
<1> QED BY <1>2, <1>3, <1>5 DEF Typed, Running

LEMMA TypedHelper ==
    ASSUME Typed, HelperCallFails
    PROVE  Typed'
<1>1. truth' \in Truths
  BY DroppingFacts DEF HelperCallFails, Typed
<1> QED BY <1>1 DEF HelperCallFails, Typed, Running, watchVars

LEMMA TypedInformers ==
    ASSUME Typed, NEW i \in Informers,
           InformerReceives(i) \/ InformerCounts(i) \/ InformerEnds(i)
    PROVE  Typed'
<1>1. UNCHANGED <<pc, scenario, metrics, truth, worker, panics, gen>>
  BY DEF InformerReceives, InformerCounts, InformerEnds, poolVars
<1>2. CASE InformerReceives(i)
  <2>1. PICK got \in Sent : /\ informer' = [informer EXCEPT ![i] = got]
                            /\ watchErr' = (watchErr \/ got = "error")
    BY <1>2 DEF InformerReceives
  <2>2. informer' \in [Informers -> {"off", "watching", "ended"} \cup Sent] /\ watchErr' \in BOOLEAN
    BY <2>1 DEF Typed
  <2> QED BY <1>1, <1>2, <2>2 DEF Typed, Running, InformerReceives
<1>3. CASE InformerCounts(i)
  <2> DEFINE a == tally.events \/ informer[i] = "event"
             b == tally.bookmarks \/ informer[i] = "bookmark"
             n == IF informer[i] = "error" THEN tally.werrs + 1 ELSE tally.werrs
  <2>1. tally' = [tally EXCEPT !.events = a, !.bookmarks = b, !.werrs = n]
    BY <1>3 DEF InformerCounts
  <2>2. n \in Nat
    BY DEF Typed, Tallies
  <2>3. a \in BOOLEAN /\ b \in BOOLEAN
    BY DEF Typed, Tallies
  <2> HIDE DEF a, b, n
  <2>4. tally' \in Tallies
    BY <2>1, <2>2, <2>3 DEF Typed, Tallies
  <2>5. informer' \in [Informers -> {"off", "watching", "ended"} \cup Sent]
    BY <1>3 DEF InformerCounts, Typed
  <2> QED BY <1>1, <1>3, <2>4, <2>5 DEF Typed, Running, InformerCounts
<1>4. CASE InformerEnds(i)
  BY <1>1, <1>4 DEF Typed, Running, InformerEnds
<1> QED BY <1>2, <1>3, <1>4

LEMMA TypedJudge ==
    ASSUME Typed, Judge
    PROVE  Typed'
<1>1. worker' \in [Workers -> WorkerStates]
  BY DEF Judge, OutOfScope, WorkerStates
<1>2. informer' \in [Informers -> {"off", "watching", "ended"} \cup Sent]
  BY DEF Judge, OutOfScope
<1>3. /\ pc' = "next" /\ truth' = NoCalls /\ tally' = NoTally
      /\ watchErr' = FALSE /\ panics' = 0 /\ UNCHANGED <<metrics, gen>>
  BY DEF Judge, OutOfScope
<1> QED BY <1>1, <1>2, <1>3, NoTallyType DEF Typed, Running

\* The steps that only move the driver, the helper, the deadline or the keys.
Bystander ==
  UnknownScenario \/ NewClientFails \/ DeadlinePasses \/ HelperPuts \/ HelperEnds
  \/ LateCallArrives \/ Cleanup \/ UNCHANGED vars

LEMMA BystanderFacts ==
    ASSUME Bystander
    PROVE  /\ UNCHANGED <<scenario, metrics, truth, worker, panics, gen, informer, tally, watchErr>>
           /\ pc' = pc \/ (pc = "next" /\ pc' = "exit")
BY DEF Bystander, UnknownScenario, NewClientFails, DeadlinePasses, HelperPuts, HelperEnds,
       LateCallArrives, Cleanup, vars, poolVars, watchVars, keyVars

LEMMA NextCases ==
    ASSUME [Next]_vars
    PROVE  \/ StartScenario \/ GeneratorSends \/ GeneratorEnds \/ WorkersJoined \/ Judge \/ Bystander
           \/ HelperCallFails
           \/ \E w \in Workers : WorkerRound(w) \/ WorkerEnds(w) \/ WorkerPanics(w)
           \/ \E i \in Informers : InformerReceives(i) \/ InformerCounts(i) \/ InformerEnds(i)
BY DEF Next, Bystander, Finished

LEMMA TypedStep ==
    ASSUME Typed, Drained, [Next]_vars
    PROVE  Typed'
<1>1. CASE Bystander
  BY <1>1, BystanderFacts DEF Typed, Running
<1> QED BY <1>1, NextCases, TypedRound, TypedStart, TypedGenerator, TypedWorkers,
           TypedInformers, TypedJudge, TypedHelper

-----------------------------------------------------------------------------
(* Reported *)

LEMMA AppendFacts ==
    ASSUME NEW q \in Seq({"pass", "fail"}), NEW x \in {"pass", "fail"}
    PROVE  /\ Append(q, x) \in Seq({"pass", "fail"}) /\ Len(Append(q, x)) = Len(q) + 1
           /\ Append(q, x)[Len(q) + 1] = x
OBVIOUS

\* A scenario is gone through when it is judged or gets no client.
LEMMA ResultSteps ==
    ASSUME [Next]_vars
    PROVE  \/ NewClientFails \/ Judge
           \/ UNCHANGED <<results, count>>
BY NextCases DEF StartScenario, GeneratorSends, GeneratorEnds, WorkersJoined, WorkerRound, WorkerEnds,
      WorkerPanics, InformerReceives, InformerCounts, InformerEnds, Bystander, UnknownScenario,
      DeadlinePasses, HelperPuts, HelperCallFails, HelperEnds, LateCallArrives, Cleanup, vars

LEMMA ExitSteps ==
    ASSUME [Next]_vars
    PROVE  \/ UnknownScenario \/ Cleanup
           \/ exit' = exit /\ (pc' = "exit" <=> pc = "exit")
BY NextCases DEF StartScenario, GeneratorSends, GeneratorEnds, WorkersJoined, WorkerRound, WorkerEnds,
      WorkerPanics, InformerReceives, InformerCounts, InformerEnds, Bystander, NewClientFails,
      DeadlinePasses, HelperPuts, HelperCallFails, HelperEnds, LateCallArrives, Judge, vars

LEMMA ReportedStep ==
    ASSUME Reported, [Next]_vars
    PROVE  Reported'
<1>1. CASE NewClientFails \/ Judge
  <2>1. PICK x \in {"pass", "fail"} : results' = Append(results, x)
    BY <1>1 DEF NewClientFails, Judge
  <2>2. results' \in Seq({"pass", "fail"}) /\ Len(results') = count + 1
    BY <2>1, AppendFacts DEF Reported
  <2>3. count' = count + 1 /\ exit' = exit /\ pc # "exit" /\ pc' # "exit"
    BY <1>1 DEF NewClientFails, Judge
  <2> QED BY <2>2, <2>3 DEF Reported
<1>2. CASE UNCHANGED <<results, count>>
  <2>1. CASE UnknownScenario
    BY <1>2, <2>1 DEF UnknownScenario, Reported
  <2>2. CASE Cleanup
    BY <1>2, <2>2 DEF Cleanup, Reported
  <2>3. CASE exit' = exit /\ (pc' = "exit" <=> pc = "exit")
    BY <1>2, <2>3 DEF Reported
  <2> QED BY <2>1, <2>2, <2>3, ExitSteps
<1> QED BY <1>1, <1>2, ResultSteps

-----------------------------------------------------------------------------
(* OwnCalls *)

LEMMA OwnCallsStep ==
    ASSUME Typed, Drained, OwnCalls, [Next]_vars
    PROVE  OwnCalls'
<1> USE DEF Truths
<1>1. ASSUME NEW w \in Workers, WorkerRound(w) PROVE OwnCalls'
  <2>1. pc = "load" /\ MayRound(w) /\ UNCHANGED <<pc, scenario, helper>>
    BY <1>1 DEF WorkerRound
  <2>2. PICK e \in S.rounds[worker[w].mode] :
          /\ metrics' = [ok |-> metrics.ok + e.ok, fail |-> metrics.fail + e.fail]
          /\ truth' = [ok |-> truth.ok + e.ok, bad |-> truth.bad + e.bad,
                       dropped |-> truth.dropped + Unreported(e)]
    BY <1>1 DEF WorkerRound
  <2>3. worker[w].mode \in DOMAIN S.rounds /\ e \in Effects(DOMAIN S.rounds \cup {"ended"})
    BY <2>1, <2>2, RoundFacts
  <2>4. e.ok \in Nat /\ e.fail \in Nat /\ e.bad \in Nat
    BY <2>3 DEF Effects
  <2>5. Unreported(e) \in Nat /\ e.bad - Unreported(e) <= e.fail
    BY <2>4 DEF Unreported
  <2>6. RecordsAll => Unreported(e) = 0
    BY <2>3 DEF RecordsAll
  <2>7. /\ metrics.ok \in Nat /\ metrics.fail \in Nat
        /\ truth.ok \in Nat /\ truth.bad \in Nat /\ truth.dropped \in Nat
    BY DEF Typed
  <2>8. /\ metrics.ok = truth.ok /\ truth.bad - truth.dropped <= metrics.fail
        /\ RecordsAll => truth.dropped = 0
        /\ S.helper = "none" => helper # "run"
    BY <2>1 DEF OwnCalls, Running
  <2> DEFINE u == Unreported(e)
  <2>9. truth'.dropped = truth.dropped + u
    BY <2>2
  <2> HIDE DEF u
  <2>10. metrics'.ok = truth'.ok /\ truth'.bad - truth'.dropped <= metrics'.fail
    BY <2>2, <2>4, <2>5, <2>7, <2>8, <2>9 DEF u
  <2>11. RecordsAll => truth'.dropped = 0
    BY <2>6, <2>7, <2>8, <2>9 DEF u
  <2>12. (RecordsAll' <=> RecordsAll) /\ S' = S
    BY <2>1 DEF RecordsAll, S
  <2> QED BY <2>1, <2>8, <2>10, <2>11, <2>12 DEF OwnCalls
<1>2. CASE StartScenario
  <2>1. PICK s \in Scenarios : LET runner == StressIDStringToRunnerFunc[s] IN
          /\ scenario' = s /\ Seed(runner)
          /\ helper' = IF runner.helper = "none" THEN "off" ELSE "run"
    BY <1>2 DEF StartScenario
  <2>2. Seed(S') /\ helper' = IF S'.helper = "none" THEN "off" ELSE "run"
    BY <2>1 DEF S
  <2>3. metrics' = [ok |-> 0, fail |-> 0]
    BY <1>2 DEF StartScenario, Reset
  <2> DEFINE runner == S'
  <2>4. /\ truth'.ok = 0 /\ truth'.bad = truth'.dropped /\ truth'.dropped \in Nat
        /\ ~runner.seeds => truth'.dropped = 0
    <3> HIDE DEF runner
    <3>1. Seed(runner) BY <2>2 DEF runner
    <3> QED BY <3>1, SeedFacts
  <2>5. RecordsAll' => ~S'.seeds
    BY DEF RecordsAll
  <2> QED BY <2>2, <2>3, <2>4, <2>5 DEF OwnCalls
<1>3. CASE Judge
  BY <1>3 DEF Judge, OwnCalls, Running
<1>4. ASSUME UNCHANGED <<scenario, metrics, truth>>, helper' \in {helper, "ended"}, Running' => Running
      PROVE  OwnCalls'
  BY <1>4 DEF OwnCalls, RecordsAll, S
<1>5. ASSUME GeneratorSends \/ GeneratorEnds \/ WorkersJoined PROVE OwnCalls'
  BY <1>4, <1>5 DEF GeneratorSends, GeneratorEnds, WorkersJoined, Running, watchVars
<1>6. ASSUME UNCHANGED <<scenario, metrics, helper>>, Running' <=> Running,
             NEW n \in {0, 1}, truth' = Dropping(n), Running /\ RecordsAll => n = 0
      PROVE  OwnCalls'
  <2>1. /\ truth'.ok = truth.ok
        /\ truth'.bad = truth.bad + n /\ truth'.dropped = truth.dropped + n
    BY <1>6, DroppingFacts DEF Typed
  <2>2. truth.bad \in Nat /\ truth.dropped \in Nat /\ metrics.fail \in Nat
    BY DEF Typed
  <2>3. (RecordsAll' <=> RecordsAll) /\ S' = S
    BY <1>6 DEF RecordsAll, S
  <2> QED BY <1>6, <2>1, <2>2, <2>3 DEF OwnCalls
<1>7. ASSUME NEW w \in Workers, WorkerEnds(w) PROVE OwnCalls'
  <2>1. /\ pc = "load" /\ Active(w) /\ UNCHANGED <<pc, scenario, metrics, helper>>
        /\ \E n \in {0, 1} : (n = 1 => worker[w].mode \in Revoking) /\ truth' = Dropping(n)
    BY <1>7 DEF WorkerEnds, watchVars
  <2>2. worker[w].mode \in DOMAIN S.rounds
    BY <2>1 DEF Drained, Running, Active
  <2>3. RecordsAll => worker[w].mode \notin Revoking
    BY <2>2 DEF RecordsAll
  <2> QED BY <1>6, <2>1, <2>3 DEF Running
<1>8. ASSUME HelperCallFails PROVE OwnCalls'
  <2>1. /\ UNCHANGED <<pc, scenario, metrics, helper>> /\ truth' = Dropping(1)
        /\ helper = "run" /\ Running
    BY <1>8 DEF HelperCallFails, watchVars, Running
  <2>2. ~RecordsAll
    BY <2>1 DEF OwnCalls, RecordsAll
  <2> QED BY <1>6, <2>1, <2>2 DEF Running
<1>9. ASSUME NEW w \in Workers, WorkerPanics(w) PROVE OwnCalls'
  BY <1>4, <1>9 DEF WorkerPanics, Running, watchVars
<1>10. ASSUME NEW i \in Informers, InformerReceives(i) \/ InformerCounts(i) \/ InformerEnds(i)
       PROVE  OwnCalls'
  BY <1>4, <1>10 DEF InformerReceives, InformerCounts, InformerEnds, Running, poolVars
<1>11. CASE Bystander
  <2>1. helper' \in {helper, "ended"}
    BY <1>11 DEF Bystander, UnknownScenario, NewClientFails, DeadlinePasses, HelperPuts, HelperEnds,
                LateCallArrives, Cleanup, vars, watchVars
  <2> QED BY <1>4, <1>11, <2>1, BystanderFacts DEF Running
<1> QED BY <1>1, <1>2, <1>3, <1>5, <1>7, <1>8, <1>9, <1>10, <1>11, NextCases

-----------------------------------------------------------------------------
(* Drained *)

LEMMA DrainedRound ==
    ASSUME Typed, Drained, NEW w \in Workers, WorkerRound(w)
    PROVE  Drained'
<1>1. pc = "load" /\ MayRound(w) /\ Active(w) /\ UNCHANGED <<pc, scenario, panics>>
  BY DEF WorkerRound, MayRound
<1>2. PICK e \in S.rounds[worker[w].mode] :
        worker' = [worker EXCEPT ![w] = [mode |-> e.next, rounds |-> @.rounds + 1]]
  BY DEF WorkerRound
<1>3. /\ e \in Effects(DOMAIN S.rounds \cup {"ended"})
      /\ e.next = "ended" => S.feed # "generator"
      /\ e.next \in Modes \cup {"ended"}
  BY <1>1, <1>2, RoundFacts
<1>4. e.next \in DOMAIN S.rounds \cup {"ended"} /\ e.next # "panicked"
  BY <1>3 DEF Effects, Modes
<1>5. worker'[w].mode = e.next /\ \A v \in Workers \ {w} : worker'[v] = worker[v]
  BY <1>2 DEF Typed
<1>6. \A v \in Workers : worker[v].mode = "ended" => gen.at # "run" /\ gen.queue = 0
  BY <1>1 DEF Drained, Running
<1>7. S' = S
  BY <1>1 DEF S
<1>8. CASE S.feed = "generator"
  <2>1. gen.queue > 0
    BY <1>1, <1>8 DEF MayRound
  <2>2. \A v \in Workers : worker[v].mode # "ended"
    BY <1>6, <2>1 DEF Typed, Generators
  <2>3. \A v \in Workers : worker'[v].mode # "ended"
    BY <1>3, <1>5, <1>8, <2>2
  <2> QED BY <1>1, <1>4, <1>5, <1>7, <1>8, <2>3 DEF Drained, Running
<1>9. CASE S.feed # "generator"
  <2>1. gen' = gen /\ gen.at = "off" /\ gen.queue = 0
    BY <1>1, <1>9 DEF Drained, Running, WorkerRound
  <2> QED BY <1>1, <1>4, <1>5, <1>7, <2>1 DEF Drained, Running
<1> QED BY <1>8, <1>9

LEMMA DrainedStart ==
    ASSUME Typed, StartScenario
    PROVE  Drained'
<1>1. PICK s \in Scenarios : LET runner == StressIDStringToRunnerFunc[s] IN
        /\ scenario' = s
        /\ \E start \in [Workers -> runner.starts] :
              worker' = [w \in Workers |-> [mode |-> start[w], rounds |-> 0]]
        /\ gen' = [at |-> IF runner.feed = "generator" THEN "run" ELSE "off",
                   queue |-> 0, sent |-> 0, stop |-> FALSE]
  BY DEF StartScenario
<1> DEFINE runner == StressIDStringToRunnerFunc[s]
<1>2. runner.starts \subseteq DOMAIN runner.rounds /\ DOMAIN runner.rounds \subseteq Modes
  BY TableOK, StressAssumption DEF RunnerOK
<1>3. S' = runner
  BY <1>1 DEF S
<1>4. gen' = [at |-> IF runner.feed = "generator" THEN "run" ELSE "off",
              queue |-> 0, sent |-> 0, stop |-> FALSE]
  BY <1>1
<1> HIDE DEF runner
<1>5. PICK start \in [Workers -> runner.starts] :
        worker' = [w \in Workers |-> [mode |-> start[w], rounds |-> 0]]
  BY <1>1 DEF runner
<1>6. \A w \in Workers : worker'[w].mode \in DOMAIN runner.rounds
                          /\ worker'[w].mode \notin {"ended", "panicked"}
  BY <1>2, <1>5 DEF Modes
<1>7. pc' = "load"
  BY DEF StartScenario
<1> QED BY <1>3, <1>4, <1>6, <1>7 DEF Drained

LEMMA DrainedStep ==
    ASSUME Typed, Drained, [Next]_vars
    PROVE  Drained'
<1>1. ASSUME NEW w \in Workers, WorkerEnds(w) PROVE Drained'
  <2>1. pc = "load" /\ UNCHANGED <<pc, scenario, panics, gen>>
    BY <1>1 DEF WorkerEnds
  <2>2. worker'[w].mode = "ended" /\ \A v \in Workers \ {w} : worker'[v] = worker[v]
    BY <1>1 DEF WorkerEnds, Typed, WorkerStates
  <2>3. S' = S
    BY <2>1 DEF S
  <2>4. gen.at # "run" /\ gen.queue = 0
    BY <1>1, <2>1 DEF WorkerEnds, Drained, Running
  <2> QED BY <2>1, <2>2, <2>3, <2>4 DEF Drained, Running
<1>2. ASSUME NEW w \in Workers, WorkerPanics(w) PROVE Drained'
  <2>1. pc = "load" /\ UNCHANGED <<pc, scenario, gen>> /\ panics' = panics + 1
    BY <1>2 DEF WorkerPanics
  <2>2. worker'[w].mode = "panicked" /\ \A v \in Workers \ {w} : worker'[v] = worker[v]
    BY <1>2 DEF WorkerPanics, Typed, WorkerStates
  <2>3. S' = S
    BY <2>1 DEF S
  <2>4. panics' > 0
    BY <2>1 DEF Typed
  <2> QED BY <2>1, <2>2, <2>3, <2>4 DEF Drained, Running
<1>3. CASE GeneratorSends
  <2>1. gen.at = "run" /\ gen'.at = "run" /\ UNCHANGED <<pc, scenario, worker, panics>>
    BY <1>3 DEF GeneratorSends, Typed, Generators
  <2>2. S' = S
    BY <2>1 DEF S
  <2> QED BY <2>1, <2>2 DEF Drained, Running, Active
<1>4. CASE GeneratorEnds
  <2>1. /\ gen.at = "run" /\ gen'.at = "ended" /\ gen'.queue = gen.queue
        /\ UNCHANGED <<pc, scenario, worker, panics>>
    BY <1>4 DEF GeneratorEnds, Typed, Generators
  <2>2. S' = S
    BY <2>1 DEF S
  <2> QED BY <2>1, <2>2 DEF Drained, Running, Active
<1>5. CASE WorkersJoined
  <2>1. /\ pc = "load" /\ gen'.at = gen.at /\ gen'.queue = gen.queue
        /\ UNCHANGED <<scenario, worker, panics>> /\ \A w \in Workers : ~Active(w)
    BY <1>5 DEF WorkersJoined, Typed, Generators
  <2>2. S' = S
    BY <2>1 DEF S
  <2> QED BY <2>1, <2>2 DEF Drained, Running, Active
<1>6. CASE Judge
  BY <1>6 DEF Judge, Drained, Running
<1>7. ASSUME UNCHANGED <<scenario, worker, panics, gen>>, Running' => Running /\ pc' = pc
      PROVE  Drained'
  <2>1. S' = S
    BY <1>7 DEF S
  <2> QED BY <1>7, <2>1 DEF Drained, Active
<1>8. ASSUME NEW i \in Informers, InformerReceives(i) \/ InformerCounts(i) \/ InformerEnds(i)
      PROVE  Drained'
  BY <1>7, <1>8 DEF InformerReceives, InformerCounts, InformerEnds, Running, poolVars
<1>9. CASE Bystander
  BY <1>7, <1>9, BystanderFacts DEF Running
<1>10. CASE HelperCallFails
  BY <1>7, <1>10 DEF HelperCallFails, Running
<1> QED BY <1>1, <1>2, <1>3, <1>4, <1>5, <1>6, <1>8, <1>9, <1>10, NextCases, DrainedRound,
           DrainedStart

-----------------------------------------------------------------------------
(* Heard *)

LEMMA HeardStep ==
    ASSUME Typed, Drained, Heard, [Next]_vars
    PROVE  Heard'
<1>1. ASSUME NEW w \in Workers, WorkerRound(w) PROVE Heard'
  <2>1. pc = "load" /\ MayRound(w) /\ UNCHANGED <<informer, watchErr>>
    BY <1>1 DEF WorkerRound
  <2>2. PICK e \in S.rounds[worker[w].mode] :
          tally' = [tally EXCEPT !.done = @ + e.done, !.werrs = @ + e.werr]
    BY <1>1 DEF WorkerRound
  <2>3. e.werr \in Nat
    BY <2>1, <2>2, RoundFacts DEF Effects
  <2>4. tally.werrs \in Nat /\ tally'.werrs = tally.werrs + e.werr
    BY <2>2 DEF Typed, Tallies
  <2> QED BY <2>1, <2>3, <2>4 DEF Heard
<1>2. ASSUME NEW i \in Informers, InformerReceives(i) PROVE Heard'
  <2>1. PICK got \in Sent : /\ informer' = [informer EXCEPT ![i] = got]
                            /\ watchErr' = (watchErr \/ got = "error")
    BY <1>2 DEF InformerReceives
  <2>2. informer[i] = "watching" /\ tally' = tally
    BY <1>2 DEF InformerReceives
  <2>3. informer'[i] = got /\ \A j \in Informers \ {i} : informer'[j] = informer[j]
    BY <2>1 DEF Typed
  <2>4. CASE got = "error"
    BY <2>3, <2>4 DEF Heard
  <2>5. CASE got # "error"
    BY <2>1, <2>2, <2>3, <2>5 DEF Heard
  <2> QED BY <2>4, <2>5
<1>3. ASSUME NEW i \in Informers, InformerCounts(i) PROVE Heard'
  <2>1. watchErr' = watchErr /\ \A j \in Informers \ {i} : informer'[j] = informer[j]
    BY <1>3 DEF InformerCounts, Typed
  <2>2. /\ tally.werrs \in Nat
        /\ tally'.werrs = IF informer[i] = "error" THEN tally.werrs + 1 ELSE tally.werrs
    BY <1>3 DEF InformerCounts, Typed, Tallies
  <2> QED BY <2>1, <2>2 DEF Heard
<1>4. ASSUME NEW i \in Informers, InformerEnds(i) PROVE Heard'
  <2>1. UNCHANGED <<tally, watchErr>> /\ informer[i] = "watching"
        /\ \A j \in Informers \ {i} : informer'[j] = informer[j]
    BY <1>4 DEF InformerEnds, Typed
  <2> QED BY <2>1 DEF Heard
<1>5. CASE StartScenario \/ Judge
  BY <1>5 DEF StartScenario, Judge, OutOfScope, Heard
<1>6. ASSUME UNCHANGED <<informer, tally, watchErr>> PROVE Heard'
  BY <1>6 DEF Heard
<1>7. ASSUME NEW w \in Workers, WorkerEnds(w) \/ WorkerPanics(w) PROVE Heard'
  BY <1>6, <1>7 DEF WorkerEnds, WorkerPanics, watchVars
<1>8. CASE GeneratorSends \/ GeneratorEnds \/ WorkersJoined
  BY <1>6, <1>8 DEF GeneratorSends, GeneratorEnds, WorkersJoined, watchVars
<1>9. CASE Bystander
  BY <1>6, <1>9, BystanderFacts
<1>10. CASE HelperCallFails
  BY <1>6, <1>10 DEF HelperCallFails, watchVars
<1> QED BY <1>1, <1>2, <1>3, <1>4, <1>5, <1>7, <1>8, <1>9, <1>10, NextCases

-----------------------------------------------------------------------------
(* UpdatersGone *)

\* A scenario is left when it is judged; until the next one starts, a helper
\* only ends.
LEMMA HelperSteps ==
    ASSUME [Next]_vars
    PROVE  \/ StartScenario \/ Judge
           \/ scenario' = scenario /\ helper' \in {helper, "ended"} /\ (Running' <=> Running)
BY NextCases DEF GeneratorSends, GeneratorEnds, WorkersJoined, WorkerRound, WorkerEnds, WorkerPanics,
      InformerReceives, InformerCounts, InformerEnds, Bystander, UnknownScenario, NewClientFails,
      DeadlinePasses, HelperPuts, HelperCallFails, HelperEnds, LateCallArrives, Cleanup, vars,
      watchVars, Running

LEMMA UpdatersGoneStep ==
    ASSUME UpdatersGone, [Next]_vars
    PROVE  UpdatersGone'
<1>1. CASE StartScenario
  BY <1>1 DEF StartScenario, UpdatersGone, Running
<1>2. CASE Judge
  BY <1>2 DEF Judge, HelperJoined, UpdatersGone, S
<1>3. CASE scenario' = scenario /\ helper' \in {helper, "ended"} /\ (Running' <=> Running)
  BY <1>3 DEF UpdatersGone, S
<1> QED BY <1>1, <1>2, <1>3, HelperSteps

-----------------------------------------------------------------------------
(* The theorems *)

LEMMA InvInit == Init => Inv
<1> SUFFICES ASSUME Init PROVE Inv
  OBVIOUS
<1>1. pc = "next" /\ helper = "off"
  BY DEF Init
<1>2. worker \in [Workers -> WorkerStates]
  BY DEF Init, WorkerStates
<1>3. Typed
  BY <1>2, NoTallyType DEF Init, Typed, Running, Generators, Sent
<1>4. Reported
  BY DEF Init, Reported
<1> QED BY <1>1, <1>3, <1>4 DEF Inv, OwnCalls, Drained, Heard, UpdatersGone, Running, Init

LEMMA InvStep == Inv /\ [Next]_vars => Inv'
BY TypedStep, ReportedStep, OwnCallsStep, DrainedStep, HeardStep, UpdatersGoneStep DEF Inv

\* The inductive invariant holds of every behaviour of the stress driver.
THEOREM Invariant == Spec => []Inv
BY InvInit, InvStep, PTL DEF Spec

\* Run exits without an error only if every scenario it went through has
\* exactly one result, and that is a pass (RunScenarios and Run's verdict).
THEOREM SuiteVerdict == Spec => []SuiteSound
<1>1. Inv => SuiteSound
  <2> SUFFICES ASSUME Inv, exit = "ok", NEW k \in DOMAIN results
               PROVE  Len(results) = count /\ results[k] = "pass"
    BY DEF SuiteSound, Inv, Reported
  <2> QED BY DEF Inv, Reported
<1> QED BY <1>1, Invariant, PTL

\* What a pass tells of the state it is given in: the scenario's own calls
\* earned it, the generator's channel is empty, and no joined informer has
\* heard of an error.
LEMMA PassStep ==
    ASSUME Inv, [Next]_vars, Passes
    PROVE  /\ Earned
           /\ gen.queue = 0
           /\ S.informer = "joined" /\ S.maxErrs = "none" => ~watchErr
<1>1. Judge /\ \E slow \in BOOLEAN : finalizeScenario(slow) /\ Satisfied
  <2>1. results \in Seq({"pass", "fail"})
    BY DEF Inv, Reported
  <2>2. ASSUME NEW x \in {"pass", "fail"}, results' = Append(results, x) PROVE x = "pass"
    BY <2>1, <2>2, AppendFacts DEF Passes, Last
  <2>3. ~NewClientFails
    BY <2>2 DEF NewClientFails
  <2>4. ~UNCHANGED results
    BY <2>1 DEF Passes
  <2>5. Judge
    BY <2>3, <2>4, ResultSteps
  <2>6. PICK slow \in BOOLEAN :
          results' = Append(results, IF finalizeScenario(slow) /\ Satisfied THEN "pass" ELSE "fail")
    BY <2>5 DEF Judge
  <2> QED BY <2>2, <2>5, <2>6
<1>2. pc = "join" /\ Running /\ InformersJoined
  BY <1>1 DEF Judge, Running
<1>3. /\ panics = 0 /\ metrics.ok + metrics.fail > 0
      /\ 100 * metrics.ok >= S.rate * (metrics.ok + metrics.fail)
  BY <1>1 DEF finalizeScenario
<1>4. Earned
  <2>1. /\ metrics.ok \in Nat /\ metrics.fail \in Nat /\ truth.ok \in Nat
        /\ truth.bad \in Nat /\ truth.dropped \in Nat
    BY DEF Inv, Typed, Truths
  <2>2. S.rate \in 1..100
    BY <1>2, RunnerFacts DEF Inv, RunnerOK
  <2>3. /\ metrics.ok = truth.ok /\ truth.bad - truth.dropped <= metrics.fail
        /\ RecordsAll => truth.dropped = 0
    BY <1>2 DEF Inv, OwnCalls
  <2>4. ASSUME NEW failed \in Int, failed <= metrics.fail
        PROVE  metrics.ok > 0 /\ 100 * metrics.ok >= S.rate * (metrics.ok + failed)
    BY <1>3, <2>1, <2>2, <2>4, Share
  <2> DEFINE failed == IF RecordsAll THEN truth.bad ELSE truth.bad - truth.dropped
  <2>5. failed \in Int /\ failed <= metrics.fail
    BY <2>1, <2>3
  <2>6. Earned <=> truth.ok > 0 /\ 100 * truth.ok >= S.rate * (truth.ok + failed)
    BY DEF Earned
  <2> HIDE DEF failed
  <2> QED BY <2>3, <2>4, <2>5, <2>6
<1>5. gen.queue = 0
  <2>1. PICK w \in Workers : TRUE
    BY StressAssumption
  <2>2. worker[w].mode = "ended"
    BY <1>2, <1>3 DEF Inv, Drained, Active
  <2> QED BY <1>2, <2>2 DEF Inv, Drained
<1>6. ASSUME S.informer = "joined", S.maxErrs = "none" PROVE ~watchErr
  <2>1. \A i \in Informers : informer[i] = "ended"
    BY <1>2, <1>6 DEF InformersJoined
  <2>2. tally.werrs = 0
    BY <1>1, <1>6 DEF Satisfied
  <2> QED BY <2>1, <2>2 DEF Inv, Heard
<1> QED BY <1>4, <1>5, <1>6

\* A scenario that passes earned it by its own calls, with its generator's
\* channel drained and, where it joins its informers and tolerates no watch
\* error, without one (finalizeScenario and the checks of the scenarios).
THEOREM PassesHonest == Spec => VerdictHonest
<1>1. Inv /\ [Next]_vars =>
        [Passes => /\ Earned
                   /\ gen.queue = 0
                   /\ S.informer = "joined" /\ S.maxErrs = "none" => ~watchErr]_vars
  BY PassStep
<1> QED BY <1>1, Invariant, PTL DEF Spec, VerdictHonest

\* Once Cleanup has deleted the prefix, only a call that its client had given
\* up can bring keys back: no worker and no updater still writes.
THEOREM NothingAfterCleanup == Spec => CleanupLast
<1>1. ASSUME Inv, [Next]_vars, pc = "exit", keys', ~keys
      PROVE  late
  <2>1. \A w \in Workers : ~WorkerRound(w)
    BY <1>1 DEF WorkerRound
  <2>2. ~HelperPuts
    BY <1>1 DEF HelperPuts, Inv, UpdatersGone, Running
  <2>3. UNCHANGED keys \/ LateCallArrives
    BY <1>1, <2>1, <2>2, NextCases
    DEF StartScenario, HelperCallFails, GeneratorSends, GeneratorEnds, WorkersJoined, Judge, WorkerEnds, WorkerPanics,
        InformerReceives, InformerCounts, InformerEnds, Bystander, UnknownScenario, NewClientFails,
        DeadlinePasses, HelperEnds, Cleanup, vars, keyVars
  <2> QED BY <1>1, <2>3 DEF LateCallArrives
<1>2. Inv /\ [Next]_vars => [pc = "exit" /\ keys' /\ ~keys => late]_vars
  BY <1>1
<1> QED BY <1>2, Invariant, PTL DEF Spec, CleanupLast
=============================================================================
