--------------------------- MODULE ScenarioSuite ---------------------------
(***************************************************************************)
(* One conformance scenario against a live etcd that other clients use as  *)
(* well: the components of a Kubernetes control plane, and the goroutine   *)
(* of an earlier scenario that the runner gave up on and that still runs.  *)
(* Every call of the scenario is a step, and the other clients act between *)
(* any two of them.  A failed attempt is repeated with fresh random keys,  *)
(* as RunScenarios does (ConformanceRunner models that loop in detail).    *)
(***************************************************************************)
EXTENDS ScenariosKv, ScenariosHistory, ScenariosTxn, ScenariosWatch, ScenariosLease

CONSTANTS
    Scenarios,    \* the scenarios a run covers
    Breaches,     \* the contract breaches a run covers, "none" for a correct etcd
    scenarioRetryCount,  \* retries of a network-sensitive scenario, 2 in the program
    MaxForeign    \* calls of other clients, and lost connections, during one run

VARIABLES
    store,      \* the cluster's state
    scenario,   \* the scenario that runs
    attempt,    \* the number of this attempt, from 1
    resps,      \* the responses this attempt has received
    call,       \* the client call it makes next
    verdict,    \* "running", "pass", "fail" or "panic"
    foreign,    \* calls of other clients so far
    disturbed   \* what happened to this attempt that a correct etcd may answer for:
                \* "compacted" by another client, "lagged" when a member answered that had
                \* not applied the latest change, "reconnected" when the watch connection was
                \* lost, "slow" when a lease of a few seconds ran out between two calls

attemptVars == <<attempt, resps, call, verdict>>
vars == <<store, scenario, attemptVars, foreign, disturbed>>

\* Every scenario that is modelled.
AllScenarios ==
    KvScenarios \cup HistoryScenarios \cup TxnScenarios \cup WatchScenarios \cup LeaseScenarios

ASSUME SuiteAssumption ==
    /\ Scenarios \subseteq AllScenarios /\ Breaches \subseteq AllBreaches \cup {"none"}
    /\ scenarioRetryCount \in 0 .. 2 /\ MaxForeign \in Nat

\* Keys of other clients on either side of the test keys, as /registry/... is.
ForeignKeys == {1, 200}

\* The random keys of the i-th attempt start at FirstKey(i).
FirstKey(i) == 10 + 30 * (i - 1)

\* The names that begin with WATCH_WITH or contain WITH_PREFIX or FROM_KEY are retried, and
\* LEASE_LIST, which may ask a member that has not applied the latest grant.
shouldRetryScenario(n) ==
    n \in {"PutAndGetWithPrefix", "PutAndGetWithFromKey", "PutAndDeleteWithPrefix", "GetWithPrefix",
           "GetWithFromKey", "DeleteAllWithPrefix", "DeleteAllWithFromKey",
           "WatchWithCompactedRevision", "WatchWithCreatedNotification", "WatchWithFilter",
           "WatchWithFragmentedLargeResponse", "WatchWithMultipleWatchers", "WatchWithPrefix",
           "WatchWithPrevKv", "WatchWithProgressNotify", "WatchWithRange",
           "WatchWithRequestProgress", "WatchWithTooLargeResponse", "LeaseList"}

maxAttempts == IF shouldRetryScenario(scenario) THEN 1 + scenarioRetryCount ELSE 1

\* scenarios.IDStringToRunnerFunc: the function behind a scenario name.
IDStringToRunnerFunc(n, K, r) ==
    CASE n \in KvScenarios -> KvRunner(n, K, r)
      [] n \in HistoryScenarios -> HistoryRunner(n, K, r)
      [] n \in TxnScenarios -> TxnRunner(n, K, r)
      [] n \in WatchScenarios -> WatchRunner(n, K, r)
      [] n \in LeaseScenarios -> LeaseRunner(n, K, r)

MaxCalls == 40   \* more calls than any scenario makes, and the loop after the last of them

\* The responses as a scenario sees them.
Seen(rs) == [i \in 1 .. MaxCalls |-> IF i \in DOMAIN rs THEN rs[i] ELSE NoResp]

\* The calls of scenario n in its i-th attempt, as far as the responses decide them.
Program(n, i, rs) == IDStringToRunnerFunc(n, FirstKey(i), Seen(rs))
FirstCall(n, i) == Program(n, i, <<>>)[1].call

-----------------------------------------------------------------------------
Init ==
    /\ scenario \in Scenarios
    /\ \E b \in Breaches : store = NewStore([k \in {1} |-> Fresh(1, 1, 1)], b)
    /\ attempt = 1 /\ resps = <<>> /\ call = FirstCall(scenario, 1) /\ verdict = "running"
    /\ foreign = 0 /\ disturbed = {}

\* What the scenario makes of the answer to its latest call.
Judge(program, rs) ==
    LET st == program[Len(rs)]
        resp == Last(rs)
        refused == IF st.silent THEN "pass" ELSE "fail"
    IN  IF resp.err \notin st.errs THEN refused
        ELSE IF st.index /\ resp.kvs = <<>> /\ resp.events = <<>> THEN "panic"
        ELSE IF ~st.ok THEN refused
        ELSE IF Len(rs) < Len(program) THEN "running" ELSE "pass"

\* The answer arrives, is checked, and decides the next call.
Answered(resp) ==
    LET rs == Append(resps, resp) IN
    \E program \in {Program(scenario, attempt, rs)} :
        /\ resps' = rs
        /\ verdict' = Judge(program, rs)
        /\ call' = IF verdict' = "running" THEN program[Len(rs) + 1].call ELSE call

\* Answered by a member that has not applied everything yet.
Lagging(c, resp) ==
    \/ c.op = "get" /\ "serializable" \in c.opts /\ resp.rev < store.rev
    \/ resp.kind = "progress" /\ resp.rev < store.rev
    \/ c.op = "leases" /\ resp.leases # Live(store)

\* The scenario makes its next call and checks the answer.
Call ==
    /\ verdict = "running"
    /\ \E o \in Outcomes(store, call) :
          /\ store' = o.s
          /\ Answered(o.resp)
          /\ disturbed' = IF Lagging(call, o.resp) THEN disturbed \cup {"lagged"} ELSE disturbed
    /\ UNCHANGED <<scenario, attempt, foreign>>

\* Nothing arrives on the watch channel, and nothing is about to, before the scenario's timer fires.
CallTimesOut ==
    /\ verdict = "running"
    /\ call.op = "recv" /\ Outcomes(store, call) = {} /\ Expiring(store, MaxDelay) = {}
    /\ Answered(Failure("timeout"))
    /\ UNCHANGED <<store, scenario, attempt, foreign, disturbed>>

\* Time passes, and leases of at most MaxDelay seconds run out: while the scenario waits for an
\* event, as it expects, or because its next call takes that long.
LeaseExpires ==
    /\ verdict = "running" /\ Expiring(store, MaxDelay) # {}
    /\ store' = Elapse(store, MaxDelay)
    /\ disturbed' = IF call.op = "recv" THEN disturbed ELSE disturbed \cup {"slow"}
    /\ UNCHANGED <<scenario, attemptVars, foreign>>

\* RunScenarios repeats a failed or panicked attempt.
Retry ==
    /\ verdict \in {"fail", "panic"} /\ attempt < maxAttempts
    /\ attempt' = attempt + 1
    /\ resps' = <<>> /\ call' = FirstCall(scenario, attempt') /\ verdict' = "running"
    /\ disturbed' = {}
    /\ store' = [store EXCEPT !.watchers = <<>>]   \* the client is closed
    /\ UNCHANGED <<scenario, foreign>>

\* Another client's call: it is answered like any other, and touches no test key.  A server
\* that breaks its contract is examined on a quiet cluster.
Other(c) ==
    /\ verdict = "running" /\ foreign < MaxForeign /\ store.breach = "none"
    /\ \E o \in Outcomes(store, c) : o.resp.err = "none" /\ store' = o.s
    /\ foreign' = foreign + 1
    /\ UNCHANGED <<scenario, attemptVars>>

OtherWrites ==
    /\ Other(Put(200, 2)) \/ (1 \in DOMAIN Latest(store) /\ Other(Delete(1)))
    /\ UNCHANGED disturbed

OtherCompacts ==
    /\ store.rev > store.compacted
    /\ Other(Compact(store.rev))
    /\ disturbed' = disturbed \cup {"compacted"}

\* The connection that carries the open watches is lost; the client reconnects and resumes them.
Reconnect ==
    /\ verdict = "running" /\ foreign < MaxForeign /\ store.breach = "none"
    /\ \E i \in DOMAIN store.watchers : ~store.watchers[i].closed
    /\ store' = Resumed(store)
    /\ foreign' = foreign + 1
    /\ disturbed' = disturbed \cup {"reconnected"}
    /\ UNCHANGED <<scenario, attemptVars>>

Next == Call \/ CallTimesOut \/ Retry \/ LeaseExpires \/ OtherWrites \/ OtherCompacts \/ Reconnect

Spec == Init /\ [][Next]_vars

-----------------------------------------------------------------------------
Failed == verdict \in {"fail", "panic"}
Done == verdict = "pass" \/ (Failed /\ attempt = maxAttempts)

\* The scenarios that read, watch, hash or compact a revision of their own that is no longer the
\* current one, or do not accept that it was compacted before they did so themselves.
NeedsHistory ==
    {"Compact", "CompactRevisionRetention", "ErrorCompacted", "ErrorFutureRev",
     "GetWithContinueToken", "GetWithLimitAndCount", "GetWithRange", "ModRevisionConsistency",
     "PutAndDelete", "PutAndDeleteAndGetWithOldRevision", "PutAndGetWithOldRevision",
     "PutLinearizability", "WatchAndPutWithNamespace", "WatchAndPutWithOldRevision",
     "WatchBookmarkDelivery", "WatchCancelOverlappingContext", "WatchInitialEvents",
     "WatchResumeAfterDisconnect", "WatchWithCompactedRevision", "WatchWithFragmentedLargeResponse",
     "WatchWithTooLargeResponse", "MirrorSyncBase", "MirrorSyncUpdates", "MaintenanceHashKv"}

\* The scenarios that await the answer to a progress request, which a lost connection takes with
\* it, or count responses, which a resumed watch merges.
NeedsConnection ==
    {"WatchBookmarkDelivery", "WatchWithMultipleWatchers", "WatchWithProgressNotify",
     "WatchWithRequestProgress"}

\* The scenarios that ask a single member for something they have just changed.
NeedsFreshMember ==
    {"GetWithRange", "LeaseList", "PutWithLeaseTimeToLive", "WatchWithProgressNotify",
     "WatchWithRequestProgress"}

\* The scenarios that use a lease of at most ten seconds they do not keep alive.
ShortLeases ==
    {"PutWithIgnoreLease", "PutWithLeaseKeepalive", "PutWithLeaseKeepaliveFullResponseQueue",
     "PutWithLeaseKeepaliveOnce", "PutWithLeaseKeepaliveOneSecond", "WatchEventType"}

\* The tolerance of live clusters the scenarios claim in their comments ("other writes may
\* occur between our put and delete", scenario_put_and_delete.go:88; "RACE CONDITION FIX",
\* scenario_put_and_get_with_sort.go:83): writes of other clients never fail a scenario on an
\* etcd that keeps its contract.  What can is another client's compaction, for a scenario that
\* needs history or whose watch is resumed; a lost connection, a member that lags behind or a
\* slow call, each for the scenarios named above only.  And a scenario that fails does so by a
\* check: only the two that index Events[0] of the response that ends a watch
\* (scenario_mirror_sync_updates.go:135, scenario_watch_with_range.go:90) can panic.
FailureHasCause ==
    store.breach = "none" /\ Failed =>
        /\ \/ "compacted" \in disturbed /\ scenario \in NeedsHistory
           \/ {"compacted", "reconnected"} \subseteq disturbed /\ store.watchers # <<>>
           \/ "reconnected" \in disturbed /\ scenario \in NeedsConnection
           \/ "lagged" \in disturbed /\ scenario \in NeedsFreshMember
           \/ "slow" \in disturbed /\ scenario \in ShortLeases
        /\ verdict = "panic" => /\ "compacted" \in disturbed
                                /\ scenario \in {"MirrorSyncUpdates", "WatchWithRange"}

\* Which scenarios are there to find out about a breach of the contract.
Catches(b) ==
    CASE b = "staleRead" -> {"PutAndGetWithLatestRevision", "PutAndGetWithOp", "PutAndDelete",
                             "PutAndGetWithPrefix", "GetWithPrefix", "TxnPutOne", "TxnKeyExists",
                             "PutWithLeaseAttach"}
      [] b = "revIgnored" -> {"PutAndGetWithOldRevision", "PutAndDeleteAndGetWithOldRevision",
                              "GetWithContinueToken", "ModRevisionConsistency", "GetWithRange"}
      [] b = "compactIgnored" -> {"Compact", "CompactRevisionRetention", "ErrorCompacted",
                                  "WatchWithCompactedRevision", "WatchResumeAfterDisconnect"}
      [] b = "futureServed" -> {"ErrorFutureRev"}
      [] b = "endInclusive" -> {"GetWithRange", "DeleteWithRange",
                                "WatchWithRange"}
      [] b \in {"limitIgnored", "countTruncated"} -> {"GetWithLimitAndCount", "GetWithContinueToken"}
      [] b = "sortIgnored" -> {"PutAndGetWithSort", "GetWithRange"}
      [] b = "filterIgnored" -> {"GetWithRevisionFilters"}
      [] b = "valuesKept" -> {"GetWithKeysOnly", "GetWithLimitAndCount"}
      [] b = "versionStuck" -> {"ModRevisionConsistency", "TxnCompareVersion", "PutWithPrevKv",
                                "PutWithIgnoreValue", "DeleteWithPrevKv",
                                "WatchAndPutWithIgnoreValue", "WatchWithPrevKv"}
      [] b = "createReset" -> {"ModRevisionConsistency", "TxnCompareCreaterevision", "DeleteWithPrevKv",
                               "WatchAndPutWithIgnoreValue", "WatchEventType"}
      [] b = "prevDropped" -> {"PutWithPrevKv", "DeleteWithPrevKv", "GetWithRequireLeader",
                               "WatchWithPrevKv"}
      [] b = "deleteLost" -> {"PutAndDelete", "PutAndDeleteWithPrefix", "DeleteAllWithPrefix",
                              "DeleteAllWithFromKey", "DeleteWithRange", "DeleteWithPrecondition",
                              "WatchEventType", "WatchOrderingGuarantee"}
      [] b = "headerLags" -> {"PutAndGetWithLatestRevision", "PutLinearizability", "TxnPutMultiple"}
      [] b = "wrongBranch" -> {"TxnPutOne", "TxnKeyExists", "TxnKeyMissing", "TxnNested",
                               "TxnCompareVersion", "TxnCompareValue", "TxnCompareModrevision",
                               "TxnCompareCreaterevision", "TxnCompareLease"}
      [] b = "splitTxn" -> {"TxnPutMultiple"}
      [] b = "eventsLost" -> {"GetWithRequireLeader", "ErrorFutureRev", "ModRevisionConsistency",
                              "WatchAndPut", "WatchInitialEvents", "WatchResumeAfterDisconnect",
                              "WatchWithPrefix", "WatchWithFilter", "WatchWithMultipleWatchers",
                              "WatchCancelOverlappingContext", "MirrorSyncUpdates"}
      [] b = "eventsMerged" -> {"WatchOrderingGuarantee", "WatchAndPutWithOldRevision",
                                "WatchEventType", "WatchResumeAfterDisconnect"}
      [] b = "eventFilterIgnored" -> {"WatchWithFilter"}
      [] b = "leasesLeak" -> {"LeaseExpirationAutoDelete", "PutWithLeaseAndRevoke",
                              "PutWithLeaseTimeToLive", "PutWithLeaseKeepaliveOnce", "WatchEventType"}
      [] OTHER -> {}

\* "The test either PASSES with correct etcd behavior verified, or FAILS" (suite_workflow.go:344):
\* a server that breaks a clause of its contract throughout does not pass a scenario written
\* for that clause, and no retry makes it pass.
\* WatchWithMultipleWatchers is not among those for "eventsMerged": its watchers see the mistake,
\* and the function returns without Success = false.
BreachDetected == verdict = "pass" => scenario \notin Catches(store.breach)

\* "Using "\x00" with WithFromKey() would delete ALL keys in etcd, including Kubernetes data"
\* (scenario_delete_all_with_from_key.go:80): no call of a scenario writes or deletes a key
\* outside its own random prefixes.
ForeignKeysUntouched ==
    [][foreign' = foreign =>
         LET now == Latest(store)
             new == Latest(store)'
         IN  \A k \in ForeignKeys : /\ k \in DOMAIN now <=> k \in DOMAIN new
                                    /\ k \in DOMAIN now => new[k] = now[k]]_vars
=============================================================================
