----------------------------- MODULE StressSuite -----------------------------
(***************************************************************************)
(* The stress driver: Run and RunScenarios go through the scenarios one    *)
(* after the other; a scenario resets the shared metrics, opens its        *)
(* informers, runs its worker pool to a deadline or to the end of the load *)
(* generator's requests, joins what it joins and judges what the metrics   *)
(* and its own counters say.                                               *)
(***************************************************************************)
EXTENDS StressScenarios, Sequences, FiniteSets, SequencesExt

CONSTANTS
    Scenarios,    \* the IDs the suite may be configured with
    Workers, Informers,
    QueueCap,     \* capacity of the generator's channel
    SuiteLength,  \* bound of the scenarios of one suite
    MaxRounds,    \* bound of the rounds of a worker and of the requests of a generator
    MaxFaults     \* bound of the panics, lost watches and refused connections

ASSUME StressAssumption ==
    /\ Scenarios \subseteq AllStressScenarios
    /\ Workers # {}
    /\ {QueueCap, SuiteLength, MaxRounds} \subseteq Nat \ {0} /\ MaxFaults \in Nat

VARIABLES
    pc, count, scenario, results, faults,
    metrics,   \* MetricsCollector, shared by all scenarios
    truth,     \* of this scenario alone: requests that succeeded, calls that failed, and of these
               \* the ones whose error it dropped
    worker,    \* worker -> mode and rounds
    panics,    \* errCh of runWorkers
    expired,   \* the scenario's deadline has passed
    gen,       \* the load generator and its channel
    informer,  \* informer -> where its goroutine is
    tally,     \* the scenario's own counters
    watchErr,  \* an informer received an error
    helper,    \* compactor, updaters or progress ticker
    keys,      \* the test prefix holds keys
    late,      \* a call that failed for the client may still reach the server
    exit

poolVars == <<metrics, truth, worker, panics, expired, gen>>
watchVars == <<informer, tally, watchErr, helper>>
keyVars == <<keys, late>>
vars == <<pc, count, scenario, results, faults, poolVars, watchVars, keyVars, exit>>

S == StressIDStringToRunnerFunc[scenario]
Fault == faults < MaxFaults /\ faults' = faults + 1
NoCalls == [ok |-> 0, bad |-> 0, dropped |-> 0]
\* n more calls failed, and nothing records it.
Dropping(n) == [ok |-> truth.ok, bad |-> truth.bad + n, dropped |-> truth.dropped + n]
NoTally == [done |-> 0, werrs |-> 0, events |-> FALSE, bookmarks |-> FALSE]

Init ==
    /\ pc = "next" /\ count = 0 /\ scenario = "none" /\ results = <<>> /\ faults = 0
    /\ metrics = [ok |-> 0, fail |-> 0] /\ truth = NoCalls
    /\ worker = [w \in Workers |-> [mode |-> "ended", rounds |-> 0]]
    /\ panics = 0 /\ expired = FALSE
    /\ gen = [at |-> "off", queue |-> 0, sent |-> 0, stop |-> FALSE]
    /\ informer = [i \in Informers |-> "off"] /\ tally = NoTally /\ watchErr = FALSE
    /\ helper = "off"
    /\ keys = FALSE /\ late = FALSE
    /\ exit = "none"

\* An unknown ID is found before anything runs, Cleanup included.
UnknownScenario ==
    /\ pc = "next" /\ count = 0
    /\ pc' = "exit" /\ exit' = "error"
    /\ UNCHANGED <<count, scenario, results, faults, poolVars, watchVars, keyVars>>

\* Mutant: a connection that fails returns before the deferred RecordResult
\* is in place.
NewClientFailsUnrecorded ==
    /\ pc = "next" /\ count < SuiteLength /\ Fault
    /\ count' = count + 1
    /\ UNCHANGED <<pc, scenario, results, poolVars, watchVars, keyVars, exit>>

\* An unhealthy cluster does not stop the suite; a scenario that gets no
\* client fails at once.
NewClientFails ==
    /\ pc = "next" /\ count < SuiteLength /\ Fault
    /\ count' = count + 1
    /\ results' = Append(results, "fail")
    /\ UNCHANGED <<pc, scenario, poolVars, watchVars, keyVars, exit>>

\* Mutant: the metrics of the scenario before are not cleared.
ResetNothing(m) == m
Reset(m) == [ok |-> 0, fail |-> 0]

\* The keys a scenario puts before its load: all of them, some or none; it goes on regardless.
Seed(runner) ==
    \E seeded \in IF runner.seeds THEN {"all", "some", "none"} ELSE {"unasked"} :
        /\ truth' = [NoCalls EXCEPT !.bad = IF seeded \in {"some", "none"} THEN 1 ELSE 0,
                                   !.dropped = IF seeded \in {"some", "none"} THEN 1 ELSE 0]
        /\ keys' = (keys \/ seeded \in {"all", "some"})
        /\ late' = (late \/ seeded \in {"some", "none"})

StartScenario ==
    /\ pc = "next" /\ count < SuiteLength
    /\ \E s \in Scenarios :
          LET runner == StressIDStringToRunnerFunc[s]
          IN  /\ scenario' = s
              /\ \E start \in [Workers -> runner.starts] :
                    worker' = [w \in Workers |-> [mode |-> start[w], rounds |-> 0]]
              /\ gen' = [at |-> IF runner.feed = "generator" THEN "run" ELSE "off",
                         queue |-> 0, sent |-> 0, stop |-> FALSE]
              /\ informer' = [i \in Informers |-> IF runner.informer = "none" THEN "off" ELSE "watching"]
              /\ helper' = IF runner.helper = "none" THEN "off" ELSE "run"
              /\ Seed(runner)
    /\ pc' = "load"
    /\ metrics' = Reset(metrics)
    /\ panics' = 0 /\ expired' = FALSE
    /\ tally' = NoTally /\ watchErr' = FALSE
    /\ UNCHANGED <<count, results, faults, exit>>

DeadlinePasses ==
    /\ pc = "load" /\ ~expired
    /\ expired' = TRUE
    /\ UNCHANGED <<pc, count, scenario, results, faults, metrics, truth, worker, panics, gen,
                   watchVars, keyVars, exit>>

(***************************************************************************)
(* The load generator                                                      *)
(***************************************************************************)

GeneratorSends ==
    /\ gen.at = "run" /\ ~gen.stop /\ ~expired
    /\ gen.queue < QueueCap /\ gen.sent < MaxRounds
    /\ gen' = [gen EXCEPT !.queue = @ + 1, !.sent = @ + 1]
    /\ UNCHANGED <<pc, count, scenario, results, faults, metrics, truth, worker, panics, expired,
                   watchVars, keyVars, exit>>

\* Mutant: only Stop ends the generator, not its own context.
GeneratorEndsByStop ==
    /\ gen.at = "run" /\ gen.stop
    /\ gen' = [gen EXCEPT !.at = "ended"]
    /\ UNCHANGED <<pc, count, scenario, results, faults, metrics, truth, worker, panics, expired,
                   watchVars, keyVars, exit>>

\* Both waits of run, for the limiter and for room in the channel, end with
\* the context or with Stop; the channel is closed on the way out.
GeneratorEnds ==
    /\ gen.at = "run" /\ (expired \/ gen.stop)
    /\ gen' = [gen EXCEPT !.at = "ended"]
    /\ UNCHANGED <<pc, count, scenario, results, faults, metrics, truth, worker, panics, expired,
                   watchVars, keyVars, exit>>

(***************************************************************************)
(* The workers                                                             *)
(***************************************************************************)
Active(w) == worker[w].mode \notin {"ended", "panicked"}

\* What a worker checks before a round.  A lease is granted ahead of the loop.
MayRound(w) ==
    /\ Active(w) /\ worker[w].rounds < MaxRounds
    /\ IF S.feed = "generator" THEN gen.queue > 0
       ELSE worker[w].mode = "grant" \/ ~expired

\* How many of the calls that failed in a round it did not record.
Unreported(e) == IF e.bad > e.fail THEN e.bad - e.fail ELSE 0

WorkerRound(w) ==
    /\ pc = "load" /\ MayRound(w)
    /\ \E e \in S.rounds[worker[w].mode] :
          /\ metrics' = [ok |-> metrics.ok + e.ok, fail |-> metrics.fail + e.fail]
          /\ truth' = [ok |-> truth.ok + e.ok, bad |-> truth.bad + e.bad,
                       dropped |-> truth.dropped + Unreported(e)]
          /\ worker' = [worker EXCEPT ![w] = [mode |-> e.next, rounds |-> @.rounds + 1]]
          /\ tally' = [tally EXCEPT !.done = @ + e.done, !.werrs = @ + e.werr]
          /\ keys' = (keys \/ e.ok > 0) /\ late' = (late \/ e.bad > 0)
    /\ gen' = IF S.feed = "generator" THEN [gen EXCEPT !.queue = @ - 1] ELSE gen
    /\ UNCHANGED <<pc, count, scenario, results, faults, panics, expired, informer, watchErr,
                   helper, exit>>

\* Mutant: the pool leaves at the deadline with requests still in the channel.
WorkerEndsAtDeadline(w) ==
    /\ pc = "load" /\ Active(w) /\ worker[w].mode # "grant" /\ expired
    /\ worker' = [worker EXCEPT ![w].mode = "ended"]
    /\ UNCHANGED <<pc, count, scenario, results, faults, metrics, truth, panics, expired, gen,
                   watchVars, keyVars, exit>>

\* Who holds a lease at the end of its loop.
Revoking == {"lead", "renew"}

\* The deadline, or the end of the channel once it is drained.  A leader and a node revoke their
\* lease on the way out, whatever comes of it.
WorkerEnds(w) ==
    /\ pc = "load" /\ Active(w) /\ worker[w].mode # "grant"
    /\ IF S.feed = "generator" THEN gen.at = "ended" /\ gen.queue = 0 ELSE expired
    /\ worker' = [worker EXCEPT ![w].mode = "ended"]
    /\ \E n \in {0, 1} : (n = 1 => worker[w].mode \in Revoking) /\ truth' = Dropping(n)
    /\ UNCHANGED <<pc, count, scenario, results, faults, metrics, panics, expired, gen,
                   watchVars, keyVars, exit>>

\* recoverWorker turns a panic into an error of the pool.
WorkerPanics(w) ==
    /\ pc = "load" /\ Active(w) /\ S.recovers /\ Fault
    /\ worker' = [worker EXCEPT ![w].mode = "panicked"]
    /\ panics' = panics + 1
    /\ UNCHANGED <<pc, count, scenario, results, metrics, truth, expired, gen, watchVars,
                   keyVars, exit>>

(***************************************************************************)
(* Informers and helpers                                                   *)
(***************************************************************************)
Sent == {"event", "bookmark", "error"}

\* The stream hands a response over; the goroutine counts it a step later.
InformerReceives(i) ==
    /\ informer[i] = "watching"
    /\ \E got \in Sent :
          /\ got = "event" => truth.ok > 0
          /\ IF got = "error" THEN Fault ELSE UNCHANGED faults
          /\ informer' = [informer EXCEPT ![i] = got]
          /\ watchErr' = (watchErr \/ got = "error")
    /\ UNCHANGED <<pc, count, scenario, results, poolVars, tally, helper, keyVars, exit>>

\* The stream is closed after an error, so the goroutine ends with it.
InformerCounts(i) ==
    /\ informer[i] \in Sent
    /\ tally' = [tally EXCEPT !.events = @ \/ informer[i] = "event",
                              !.bookmarks = @ \/ informer[i] = "bookmark",
                              !.werrs = IF informer[i] = "error" THEN @ + 1 ELSE @]
    /\ informer' = [informer EXCEPT ![i] = IF @ = "error" THEN "ended" ELSE "watching"]
    /\ UNCHANGED <<pc, count, scenario, results, faults, poolVars, watchErr, helper, keyVars, exit>>

\* watchCancel closes the stream.
InformerEnds(i) ==
    /\ pc # "load" /\ informer[i] = "watching"
    /\ informer' = [informer EXCEPT ![i] = "ended"]
    /\ UNCHANGED <<pc, count, scenario, results, faults, poolVars, tally, watchErr, helper,
                   keyVars, exit>>

\* The updaters put under the prefix, recorded nowhere.
HelperPuts ==
    /\ helper = "run" /\ S.helper = "updaters" /\ ~keys
    /\ keys' = TRUE
    /\ UNCHANGED <<pc, count, scenario, results, faults, poolVars, watchVars, late, exit>>

\* A call of a helper fails: a put of the updaters, a compaction, a progress request or the
\* keepalive of a lease.  At most it is counted for the log.
HelperCallFails ==
    /\ helper = "run" /\ pc \in {"load", "join"} /\ Fault
    /\ truth' = Dropping(1)
    /\ late' = (late \/ S.helper = "updaters")
    /\ UNCHANGED <<pc, count, scenario, results, metrics, worker, panics, expired, gen, watchVars,
                   keys, exit>>

HelperEnds ==
    /\ pc # "load" /\ helper = "run"
    /\ helper' = "ended"
    /\ UNCHANGED <<pc, count, scenario, results, faults, poolVars, informer, tally, watchErr,
                   keyVars, exit>>

LateCallArrives ==
    /\ late /\ ~keys
    /\ keys' = TRUE
    /\ UNCHANGED <<pc, count, scenario, results, faults, poolVars, watchVars, late, exit>>

(***************************************************************************)
(* The scenario's own goroutine                                            *)
(***************************************************************************)

\* wg.Wait, generator.Stop, then the cancel functions.
WorkersJoined ==
    /\ pc = "load" /\ \A w \in Workers : ~Active(w)
    /\ pc' = "join"
    /\ gen' = [gen EXCEPT !.stop = TRUE]
    /\ UNCHANGED <<count, scenario, results, faults, metrics, truth, worker, panics, expired,
                   watchVars, keyVars, exit>>

\* Mutant: watchWg.Wait is missing.
InformersJoinedNever == TRUE
InformersJoined ==
    S.informer = "joined" => \A i \in Informers : informer[i] = "ended"

\* Mutant: updateWg.Wait and <-compactDone are missing.
HelperJoinedNever == TRUE
HelperJoined == S.helper \in {"compactor", "updaters"} => helper = "ended"

\* finalizeScenario and the checks of the scenario after it; slow stands for
\* a p99 over the budget.
finalizeScenario(slow) ==
    LET total == metrics.ok + metrics.fail
    IN  /\ panics = 0 /\ total > 0
        /\ 100 * metrics.ok >= S.rate * total
        /\ ~slow

Satisfied ==
    /\ "done" \in S.needs => tally.done > 0
    /\ "events" \in S.needs => tally.events
    /\ "bookmarks" \in S.needs => tally.bookmarks
    /\ S.maxErrs = "none" => tally.werrs = 0
    /\ S.maxErrs = "five" => tally.werrs <= (5 * tally.done) \div 100

\* The scenario's own variables; background informers count on unread.
OutOfScope ==
    /\ truth' = NoCalls /\ tally' = NoTally /\ watchErr' = FALSE
    /\ worker' = [w \in Workers |-> [mode |-> "ended", rounds |-> 0]]
    /\ panics' = 0 /\ expired' = FALSE
    /\ informer' = [i \in Informers |-> "off"]

Judge ==
    /\ pc = "join" /\ InformersJoined /\ HelperJoined
    /\ pc' = "next" /\ count' = count + 1
    /\ \E slow \in BOOLEAN :
          results' = Append(results, IF finalizeScenario(slow) /\ Satisfied THEN "pass" ELSE "fail")
    /\ OutOfScope
    /\ UNCHANGED <<scenario, faults, metrics, gen, helper, keyVars, exit>>

\* The deferred Cleanup, whose failure is only logged, and the verdict of Run.
Cleanup ==
    /\ pc = "next" /\ count > 0
    /\ pc' = "exit"
    /\ \/ keys' = FALSE /\ UNCHANGED faults
       \/ Fault /\ UNCHANGED keys
    /\ exit' = IF \E k \in DOMAIN results : results[k] = "fail" THEN "error" ELSE "ok"
    /\ UNCHANGED <<count, scenario, results, poolVars, watchVars, late>>

Finished == pc = "exit" /\ UNCHANGED vars

Next ==
    \/ UnknownScenario \/ NewClientFails \/ StartScenario \/ DeadlinePasses
    \/ GeneratorSends \/ GeneratorEnds
    \/ \E w \in Workers : WorkerRound(w) \/ WorkerEnds(w) \/ WorkerPanics(w)
    \/ \E i \in Informers : InformerReceives(i) \/ InformerCounts(i) \/ InformerEnds(i)
    \/ HelperPuts \/ HelperCallFails \/ HelperEnds \/ LateCallArrives
    \/ WorkersJoined \/ Judge \/ Cleanup \/ Finished

Fairness ==
    /\ WF_vars(StartScenario \/ Cleanup) /\ WF_vars(DeadlinePasses) /\ WF_vars(GeneratorEnds)
    /\ \A w \in Workers : WF_vars(WorkerRound(w)) /\ WF_vars(WorkerEnds(w))
    /\ \A i \in Informers : WF_vars(InformerCounts(i)) /\ SF_vars(InformerEnds(i))
    /\ WF_vars(HelperEnds) /\ WF_vars(WorkersJoined) /\ WF_vars(Judge)

Spec == Init /\ [][Next]_vars /\ Fairness

(***************************************************************************)
(* Properties                                                              *)
(***************************************************************************)

Passes == Len(results') > Len(results) /\ Last(results') = "pass"

\* The scenario drops no error: it seeds nothing, has no helper, no worker that revokes a lease at
\* the end, and every call that fails in a round is in the metrics.
RecordsAll ==
    /\ ~S.seeds /\ S.helper = "none" /\ DOMAIN S.rounds \cap Revoking = {}
    /\ \A m \in DOMAIN S.rounds : \A e \in S.rounds[m] : Unreported(e) = 0

\* The calls the verdict must account for: all that failed, less, in a scenario that drops errors,
\* the ones it dropped.
Earned ==
    LET failed == IF RecordsAll THEN truth.bad ELSE truth.bad - truth.dropped
    IN  truth.ok > 0 /\ 100 * truth.ok >= S.rate * (truth.ok + failed)

\* A pass is earned by the scenario's own calls: of the requests it made, and
\* not of those of a scenario before it, no more than the tolerated share
\* failed, and every request its generator handed over has been performed.
\* The calls whose errors the code drops (seed puts, helpers, a worker's
\* lease, the Get before a transaction) are outside of that share, in the
\* scenarios that make such calls.
\* If it joins its informers and tolerates no watch error, none of them
\* received one, however late.
VerdictHonest ==
    [][Passes => /\ Earned
                 /\ gen.queue = 0
                 /\ S.informer = "joined" /\ S.maxErrs = "none" => ~watchErr]_vars

\* Run exits without an error only if every scenario it went through has
\* exactly one result and passed.
SuiteSound ==
    exit = "ok" => Len(results) = count /\ \A k \in DOMAIN results : results[k] = "pass"

\* No goroutine of the suite writes once Cleanup has deleted the prefix: keys
\* left behind come from a Cleanup that failed or from a call the client had
\* already given up.
CleanupLast == [][pc = "exit" /\ keys' /\ ~keys => late]_vars

\* The suite ends, whatever fails and whoever is blocked on the generator's
\* channel.
SuiteEnds == <>(pc = "exit")
=============================================================================
