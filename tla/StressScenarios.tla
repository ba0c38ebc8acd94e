--------------------------- MODULE StressScenarios ---------------------------
(***************************************************************************)
(* The closed-loop stress scenarios.  A scenario is what its workers may   *)
(* do in one round of their loop, the informers and helpers that run       *)
(* beside them and what its verdict looks at.  A round is told by what it  *)
(* leaves behind: requests recorded in the metrics, calls that failed      *)
(* (recorded, or dropped: fewer recorded than failed), the scenario's own  *)
(* counters and the worker's next mode.  The puts that seed the prefix     *)
(* before the load and the calls of a helper drop their errors.  The calls *)
(* of a round touch nothing but counters that only grow, so they need no   *)
(* interleaving with those of another.                                     *)
(***************************************************************************)
EXTENDS Integers

\* ok, fail: recorded requests.  bad: calls that failed.  done: the counter
\* the verdict wants above zero.  werr: failed watches of the round.
Nothing == [ok |-> 0, fail |-> 0, bad |-> 0, done |-> 0, werr |-> 0, next |-> "loop"]
Success == [Nothing EXCEPT !.ok = 1]
Failure == [Nothing EXCEPT !.fail = 1, !.bad = 1]
Unrecorded == [Nothing EXCEPT !.bad = 1]
Counted(e) == [e EXCEPT !.done = 1]
\* The lease of the round is revoked, and an error of that is dropped.
Revoked(e) == {e, [e EXCEPT !.bad = @ + 1]}
Enter(e, mode) == [e EXCEPT !.next = mode]

Both(a, b) == [ok |-> a.ok + b.ok, fail |-> a.fail + b.fail, bad |-> a.bad + b.bad,
               done |-> a.done + b.done, werr |-> a.werr + b.werr, next |-> b.next]

\* First one of A, then one of B.
A ** B == {Both(a, b) : a \in A, b \in B}

performPutWithMetrics == {Success, Failure}
performGetWithMetrics == {Success, Failure}
Recorded == {Success, Failure}   \* a call between two time.Now, both ends recorded

Scenario == [rate     |-> 80,             \* minSuccessRate, in percent
             seeds    |-> FALSE,          \* keys are put before the load, errors dropped
             starts   |-> {"loop"},       \* where a worker begins
             rounds   |-> [loop |-> {}],
             feed     |-> "deadline",     \* or the load generator
             recovers |-> TRUE,           \* the workers run under runWorkers
             informer |-> "none",         \* "joined", or "background": never joined
             helper   |-> "none",         \* "compactor", "updaters", "ticker", "keepalive"
             needs    |-> {},             \* counters that fail the scenario when zero
             maxErrs  |-> "any"]          \* watch errors tolerated: any, none, five percent

Puts(rate) == [Scenario EXCEPT !.rate = rate, !.rounds = [loop |-> performPutWithMetrics]]

RunConcurrentPuts == [Puts(80) EXCEPT !.feed = "generator"]
RunSustainedLoad  == [Puts(80) EXCEPT !.feed = "generator"]

RunSequentialWrites == Puts(80)
RunBurstWrites      == Puts(85)
RunRampUpLoad       == Puts(80)
RunLargeValues      == Puts(75)
RunManyKeys         == Puts(10)
RunHighContention   == [Scenario EXCEPT !.rounds = [loop |-> Recorded]]

\* A read with no key to read falls through to the put.
RunMixedWorkload ==
    [Scenario EXCEPT !.rate = 85, !.seeds = TRUE,
                     !.rounds = [loop |-> performGetWithMetrics \cup performPutWithMetrics]]

\* A read with no key to read waits and tries again.
RunRandomReads ==
    [Scenario EXCEPT !.rate = 85, !.seeds = TRUE,
        !.rounds = [loop |-> performGetWithMetrics \cup performPutWithMetrics \cup {Nothing}]]

RunNamespaceIsolationHeavy ==
    [Scenario EXCEPT !.rate = 85,
        !.rounds = [loop |-> performPutWithMetrics \cup performGetWithMetrics \cup Recorded]]

\* A read of a compacted revision counts as a success; a young store is not
\* read in the past at all.
RunCompactDuringLoad ==
    [Scenario EXCEPT !.seeds = TRUE, !.helper = "compactor",
        !.rounds = [loop |-> performPutWithMetrics \cup Recorded \cup {Failure, Nothing}]]

\* An error of the Get leaves a failure, and so does the round itself.
RunOptimisticConcurrencyTxn ==
    LET exhausted == [Nothing EXCEPT !.fail = 1]
    IN  [Scenario EXCEPT !.needs = {"done"}, !.seeds = TRUE,
            !.rounds = [loop |-> {Counted(Success), Both(Failure, exhausted), exhausted}]]

\* A page that fails is recorded, and then the list is recorded as a success.
RunListPaginationHeavy ==
    LET first == {Failure, Counted(Success)}
        cut   == {Counted(Both(Failure, Success))}
    IN  [Scenario EXCEPT !.needs = {"done"},
            !.seeds = TRUE, !.starts = {"loop", "update"},
            !.rounds = [loop   |-> first \cup cut,
                        update |-> {Enter(e, "update") : e \in performPutWithMetrics}]]

\* The error of the Get before a single-key transaction is not recorded.
RunTxnMultiKeyUpdate ==
    [Scenario EXCEPT !.needs = {"done"}, !.seeds = TRUE,
        !.rounds = [loop |-> {Failure, Counted(Success), Success, Unrecorded, Nothing}]]

\* A goroutine per lease keeps it alive for a while; nothing joins it.
RunLeaseIntensiveWorkload ==
    [Scenario EXCEPT !.rate = 85, !.needs = {"done"}, !.helper = "keepalive",
        !.rounds = [loop |-> {Failure, Counted(Success)}]]

\* The replicas have a wait group of their own and no recover.  A leader that
\* cannot read its lock steps down unrecorded; the lease of a lost election is revoked.
RunLeaderElectionContention ==
    [Scenario EXCEPT !.needs = {"done"}, !.recovers = FALSE,
        !.rounds = [loop |-> Revoked(Failure) \cup Revoked(Success)
                               \cup {Enter(Counted(Success), "lead")},
                    lead |-> {Enter(Success, "lead"), Failure, Unrecorded, Nothing}]]

\* A worker without its lease or its key leaves, and nothing records it.
HeartbeatRounds ==
    [grant |-> {Enter(Unrecorded, "ended"), Enter(Nothing, "renew")},
     renew |-> {Enter(e, "renew") : e \in Recorded}]

RunK8sNodeHeartbeatLeases ==
    [Scenario EXCEPT !.rate = 99, !.starts = {"grant"}, !.rounds = HeartbeatRounds]

\* Create, n status updates, delete; a create that fails starts over.
PodCycle(n) ==
    {Failure} \cup ({Success} ** Recorded ** Recorded ** IF n = 2 THEN Recorded ELSE {Nothing})

Informed == [Scenario EXCEPT !.informer = "background", !.needs = {"events"}, !.maxErrs = "none"]

RunK8sJobStorm          == [Informed EXCEPT !.rate = 95, !.rounds = [loop |-> PodCycle(1)]]
RunK8sPodLifecycleChurn == [Informed EXCEPT !.rate = 95, !.rounds = [loop |-> PodCycle(2)]]
RunK8sCRDHeavyChurn     == [Informed EXCEPT !.rate = 90, !.rounds = [loop |-> PodCycle(1)]]

\* Readers, writers and lease renewers.
RunK8sMixedApiserver ==
    [Informed EXCEPT !.rate = 90, !.starts = {"loop", "grant"},
        !.rounds = [loop |-> Recorded, grant |-> HeartbeatRounds.grant,
                    renew |-> HeartbeatRounds.renew]]

Watched(rate) == [Puts(rate) EXCEPT !.informer = "joined"]

\* The requests for progress, of the watchers or of a goroutine of their own, are not recorded.
RunWatchManyPrefixes  == [Watched(85) EXCEPT !.needs = {"events"}, !.maxErrs = "none"]
RunWatchBookmarkHeavy == [Watched(85) EXCEPT !.needs = {"bookmarks"}, !.helper = "ticker"]

RunWatchProgressNotify == [Watched(70) EXCEPT !.helper = "ticker", !.seeds = TRUE]

\* A round is the life of one watch and recorded as a success even if the watch failed; such
\* errors have a budget of their own.
RunWatchWithChurn ==
    [Scenario EXCEPT !.rate = 90, !.helper = "updaters", !.needs = {"done"}, !.maxErrs = "five",
        !.rounds = [loop |-> {Counted(Success), [Counted(Success) EXCEPT !.werr = 1, !.bad = 1]}]]

StressIDStringToRunnerFunc ==
    [CONCURRENT_PUTS |-> RunConcurrentPuts, BURST_WRITES |-> RunBurstWrites,
     SUSTAINED_LOAD |-> RunSustainedLoad, RAMP_UP_LOAD |-> RunRampUpLoad,
     MIXED_WORKLOAD |-> RunMixedWorkload, LARGE_VALUES |-> RunLargeValues,
     MANY_KEYS |-> RunManyKeys, HIGH_CONTENTION |-> RunHighContention,
     SEQUENTIAL_WRITES |-> RunSequentialWrites, RANDOM_READS |-> RunRandomReads,
     WATCH_PROGRESS_NOTIFY |-> RunWatchProgressNotify,
     LEASE_INTENSIVE_WORKLOAD |-> RunLeaseIntensiveWorkload,
     LIST_PAGINATION_HEAVY |-> RunListPaginationHeavy,
     OPTIMISTIC_CONCURRENCY_TXN |-> RunOptimisticConcurrencyTxn,
     WATCH_MANY_PREFIXES |-> RunWatchManyPrefixes,
     COMPACT_DURING_LOAD |-> RunCompactDuringLoad,
     WATCH_WITH_CHURN |-> RunWatchWithChurn,
     NAMESPACE_ISOLATION_HEAVY |-> RunNamespaceIsolationHeavy,
     TXN_MULTI_KEY_UPDATE |-> RunTxnMultiKeyUpdate,
     LEADER_ELECTION_CONTENTION |-> RunLeaderElectionContention,
     WATCH_BOOKMARK_HEAVY |-> RunWatchBookmarkHeavy,
     K8S_POD_LIFECYCLE_CHURN |-> RunK8sPodLifecycleChurn,
     K8S_NODE_HEARTBEAT_LEASES |-> RunK8sNodeHeartbeatLeases,
     K8S_MIXED_APISERVER |-> RunK8sMixedApiserver,
     K8S_CRD_HEAVY_CHURN |-> RunK8sCRDHeavyChurn,
     K8S_JOB_STORM |-> RunK8sJobStorm]

AllStressScenarios == DOMAIN StressIDStringToRunnerFunc
=============================================================================
