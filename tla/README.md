# A TLA+ model of etcd-infra

`etcd-infra` creates etcd clusters (local containers, EC2 instances), replaces
their machines, tears them down again, and runs two test suites against them:
conformance scenarios and stress workloads. Paths below are relative to the
repository.

The modules here are translated from the Go code. A runtime such as docker,
EC2 or etcd itself is modelled only from how the code uses it and is marked
external in `PROJECT.json`.

## 1. The system

### 1.1 Parts

| Part | Source | State it keeps | Operations |
|---|---|---|---|
| conformance driver | `internal/etcd/conformance/suite_workflow.go` | the shared result list, the keys under the test prefix | run each scenario under a timer, retry, drop, record, clean up |
| conformance scenarios | `internal/etcd/conformance/scenarios` | none; keys and leases in etcd | about 130 functions that call etcd and assert its contract |
| stress suite | `internal/etcd/stress` | request channel, worker pool, latency samples | run each scenario to its verdict, generate load, compact, defragment, clean up |
| local provider | `pkg/providers/local` | none; containers and volumes of the runtime | Create, Delete, Start, Stop, ReplaceMachine |
| local cluster commands | `cmd/etcd-infra/local*.go` | none; labels of containers and volumes | up, down, replace, status |
| AWS cluster commands | `cmd/etcd-infra/aws.go`, `aws_replace.go` | the JSON state file | up, down, replace |
| EC2 provider | `pkg/providers/aws/manager*.go` | none; instances and volumes in EC2 | Create, Delete, ReplaceMachine, waits, DeleteDataVolume |
| AWS dev groups | `aws_dev*.go`, `pkg/providers/aws/launch_group.go` | state file, owner token in tags | dev up, scale, run, etcd, down |
| AWS IAM | `aws_iam.go`, `pkg/providers/aws/iam.go` | IAM entities | ensure, delete |
| installer | `internal/etcd/installer`, `pkg/{archive,file,install,httputil}` | files | download, verify, extract, install |
| compute | `pkg/providers/compute` | none | interfaces, option structs, polling adapter |

### 1.2 How they interact

* The driver starts one goroutine per attempt. The goroutine and the driver
  share the result list (`resultsMu`) and one channel. The driver can stop
  waiting for a goroutine; it cannot stop it.
* The commands call a provider; the provider issues one runtime or EC2 call at
  a time. Nothing is transactional across two calls, and two processes are
  not excluded from each other.
* Two machines share an AWS account and a dev group name but no file; two
  shells share a container runtime and a cluster name but nothing else. The only
  locks are names: a launch template, a container network.
* A stress scenario shares one `MetricsCollector` with the scenarios before and
  after it, and joins some of the goroutines it starts, not all.
* SIGINT cancels the command's context. Every later call that takes the
  context fails; file writes do not take it.

### 1.3 What is hard, and what correctness means

* Driver: stragglers of timed-out attempts write into a list that is being
  truncated by index. Correct: a suite that reports no failure passed every
  scenario; nobody who failed is left out; the driver always returns.
* Local provider: after `rm --force` the member does not exist until the
  recovery loop has put it back, by NAME, with every command allowed to fail
  or to take effect late. Correct: nil means replaced, a caller's cancellation
  does not leave the member down, foreign containers are left alone.
* Scenarios: they run against a cluster that others use. Correct: nothing that
  other clients may do makes a correct etcd fail (or the exceptions are known),
  a broken etcd does not pass, and no key of anyone else is touched.
* AWS: the state file is the only memory of what exists. Correct: every running
  instance can be found again, a successful down left nothing of what it
  recorded, a member never loses its volume, a repeated down finishes.

* Local clusters: labels are the only memory. Correct: a down, and an up that
  failed, leave nothing labelled behind; two ups do not take each other's
  members; nothing foreign is removed.
* Dev groups: the name is public, the owner token is not. Correct: whatever
  exists is on its owner's file, down deletes only what its own machine created,
  and a repeated down finishes.
* Stress: a verdict is computed from shared counters, after some joins. Correct:
  a pass was earned by this scenario's calls, every offered arrival is accounted
  for, a lease outlives the put it is used for, compaction does not overtake the
  scenario's own informers, and the suite ends.

The full list of hazards, each at its line, is in `PROJECT.json`.

## 2. Modules

### 2.1 `ConformanceRunner`

The driver `Config.RunScenarios` with `runScenarioWithTimeout`, the retry loop,
`lastRecordedFailure`, `DropResultsFrom`, `Results` and `Cleanup`.

| Variable | Code |
|---|---|
| `pc`, `idx`, `attempt`, `before`, `err` | the driver's locals (`resultsBefore`, `attemptErr`) |
| `results`, `returned` | `runner.results`; the copy that `RunScenarios` returns |
| `gor`, `outcome` | the goroutine of each attempt and how its body ended |
| `keys`, `cleaned` | keys under the test prefix; whether the prefix delete worked |
| `left` | attempts that returned with puts of theirs under way |
| `timedOut`, `ended` | history: given-up attempts, the verdict on each scenario |

Every section between two acquisitions of `resultsMu` is one action, because
that is where a straggler can come in. A scenario body is abstracted to its end:
pass, a transient failure, a bug of etcd, or a panic (which records success,
since the deferred `RecordResult` runs with the flag still true).

A scenario of `Hasty` may return before its own puts are over (`left`), as
`RunPutLinearizability` does when its ten seconds end: nothing joins its 500 put
goroutines, and a put that its context gave up may already be on its way. Such a
put, like one of a goroutine that still runs, may reach the server at any later
time, also after `Cleanup` and after the program has ended.

### 2.2 `LocalProvider`

`Delete`, `Start`, `Stop` and `ReplaceMachine` with `restoreContainer`, for any
number of concurrent callers on one member. The container runtime resolves the
NAME for each command; a container is its runtime ID, its label, its identity
(IP, volume, port and environment as one value) and its status. A run whose
client is killed by the attempt timeout may still complete (`LateRun`); a run
whose start fails leaves a partial creation.

| Action | Code |
|---|---|
| `OwnedContainer` | `ownedContainer`, and `replacementSpecFromInspect` for a replacement |
| `Terminate`, `Downtime` | the removal under `context.WithoutCancel`, the wait |
| `RestoreInspect`, `RemoveStopped`, `RemoveMismatch`, `Run`, `Tick` | one round of `restoreContainer` |
| `BudgetExpires` | its 120 seconds are over |
| `CallerCancels` | the caller's context is done |

### 2.3 `AwsCluster`

`aws up`, `aws replace` and `aws down` with the provider operations they call,
over EC2 instances and volumes. `file` is the state file (a write is a rename:
whole or not at all), `mem` each process's copy of it. `nid` is the instance
that has been launched and not recorded yet: the window in which a crash
loses it. `told`, `lost`, `abandoned` and `unheard` are history variables that keep
the four ways of losing an instance apart: the error named it, the process was
killed, the compensating termination failed, or `RunInstances` returned an error
although it launched (a lost answer, an interrupt while the command waited;
`manager_lifecycle.go:48` and `:320`).

| Action | Code |
|---|---|
| `UpCreate`, `LaunchUnheard`, `UpSave`, `UpReady`, `Bootstrap` | `aws up`: create, the launch nobody heard of, the write after each instance, the waits |
| `DownDelete`, `DownSaveRemaining`, `DownWait`, `DownVolume`, `DownRemove` | `aws down` |
| `ReplaceTerminate`, `ReplaceWait`, `ReplaceLaunch`, `ReplaceAttach`, `ReplaceRecord` | `aws replace` with `replaceStandalone` |
| `TerminateUnheard` | a failing `TerminateInstances`, which may have terminated all the same |

A `DeleteVolume` that fails may also have taken effect. A call made after the
interrupt is not sent.

### 2.4 The scenarios: `EtcdKV`, `ScenarioSteps`, `Scenarios*`, `ScenarioSuite`

`EtcdKV` is the external part: an etcd store with its revisions, compaction,
leases, transactions (one level of nesting), watch streams and the connection of
the client, and for each request the set of answers it may give. More than one
answer exists for a request that a lagging member may answer, for a watch, which
may batch or fragment the events of several revisions, and after a lost
connection. A store has a `breach`: `"none"`, or the one clause of its contract
this server does not keep.

A scenario function is written as the sequence of its client calls, each with
what it requires of the answer: `Step` (no error and a check), `Do` (no error),
`Fails` (exactly this error), `Tolerates` (none or this error) and `Unguarded` (a
check that indexes `Kvs[0]`, so an empty answer panics). A step that is `Unreported`
ends the function by a bare `return`: the flag stays true, and the attempt is recorded
as passed. The code has these in `RunWatchWithMultipleWatchers` (every error of a
watcher), in `RunPutWithLeaseTimeToLive` (its puts) and in the two scenarios with large
responses (their puts). `ScenariosKv`,
`ScenariosHistory`, `ScenariosTxn`, `ScenariosWatch` and `ScenariosLease` hold 93 of
them under their Go names. Keys and values are numbers in the byte order of the
strings: the first random key of an attempt is `K`, `K + i` is a key under it,
`K + 10` the next random key.

| `ScenarioSuite` | Code |
|---|---|
| `Call`, `Judge` | one client call of the scenario, and its `if` after it |
| `CallTimesOut` | the `time.After` branch of a watch scenario |
| `LeaseExpires` | a call so slow that a short lease is over |
| `Reconnect` | the client's connection is lost; its watches are resumed |
| `Retry` | the next attempt of `RunScenarios`, with a new client and new keys |
| `OtherWrites`, `OtherCompacts` | another client, between any two calls |

The driver's own races are in `ConformanceRunner`, so an attempt here ends before
the next begins. A straggler is one of the other clients: it has keys of its
own, and if it is `RunCompact` it compacts.

### 2.5 `LocalCluster`

`local up`, `local replace` and `local down` on one cluster name, run by concurrent
processes over the runtimes that answer their probe, with the provider's `Create`
and its volume adoption.

| Variable | Code |
|---|---|
| `net`, `ctr`, `vol` | per runtime: the network, containers and volumes of the cluster's names, each labelled, plain (made by `run -v`, without a label) or foreign |
| `proc` | a process's command and where it is: `asked` the runtimes that answered its probe, `rts` those it has still to do, `k` the member in hand |
| `disturbed` | history: ups whose network another process removed |

Of the runtimes still to do a command takes the first in the order of the probe
(`First`).

Looking and removing are two commands everywhere, and between the two anybody may act. A
removal goes by what it was given: `rm` after `ps --quiet` by container IDs (`listed`:
a container that takes the name later has another ID), every other one by the name,
whoever has it by then.

| Action | Code |
|---|---|
| `CreateNetwork` | `network create`, which refuses an existing name and so keeps ups apart |
| `CreateCheck`, `CreateVolume`, `CreateRun` | `Manager.Create`: name check, volume adoption, `run` |
| `CreateUndo`, `UndoContainer`, `UndoLook`, `UndoVolume` | its deferred cleanup: inspect and `rm` of the container, inspect and `volume rm` of the volume |
| `Health` | the wait for the cluster, and the cleanup of a failed up |
| `ListContainers`, `RemoveContainers`, `ListVolumes`, `RemoveVolumes`, `RemoveNetwork` | down, also as the cleanup of up |
| `Terminate`, `RemoveOld`, `Relaunch`, `RemoveExited`, `RelaunchGivesUp` | `ReplaceMachine`, whose loop `LocalProvider` takes apart |
| `UpFails`, `UndoFails`, `CheckFails`, `RunFailsLate`, `RemoveFails`, `Killed`, `Exits` | failing commands, a killed process, an exiting container |

### 2.6 `AwsDevGroup`

`aws dev up`, `scale`, `run` (and `etcd`, which reaches the boxes the same way) and
`down` over launch templates and Auto Scaling groups. `file` is each machine's
state file, `template` and `group` what an account holds under the name, `boxes`
the instances per owner token. A token is drawn by every up and stands for that up
everywhere. `unsure` are tokens whose create call succeeded although the code took
the name for someone else's (a lost answer, then a failed lookup); `intruded` are
tokens whose boxes another machine used.

| Action | Code |
|---|---|
| `StartUp` | checks, and the state file before the first create call |
| `CreateTemplate`, `TemplateLookup`, `TemplateLookupFails` | `CreateLaunchTemplate` and its ownership lookup after AlreadyExists |
| `CreateGroup`, `GroupLookup`, `GroupLookupFails`, `GroupTaken` | `CreateAutoScalingGroup`, the same, and the deletion of the template when the name is taken |
| `Scale`, `Run` | the commands that address the group by its name |
| `StartDown` .. `DownRemove` | `dev down`: account check, owner check, delete by name, wait, sweep by token, template, file |
| `CallFails` | an error, interrupt or kill: the command ends, the file stays |
| `LaunchStarts` .. `GroupGoes` | external: what Auto Scaling and EC2 do by themselves |

### 2.7 Stress: `StressScenarios`, `StressSuite`, `OpenLoop`, `StressMixed`

`StressScenarios` has the 26 closed-loop scenarios as records: what a worker may do
in one round of its loop (requests recorded, calls that failed, the scenario's own
counters, the next mode), the informers and helpers beside the workers, and what
the verdict looks at. `StressSuite` runs them: `Run`/`RunScenarios`, the shared
`MetricsCollector` and its `Reset`, `runWorkers` with its panic recovery, the load
generator with its bounded channel, informers that are joined or only cancelled,
`finalizeScenario` and `Cleanup`. `truth` counts the requests and failures of this
scenario alone, so that what the metrics say can be compared with what happened; of the
failures it counts apart those whose error the code drops:

* seed and warm-up puts (`Seed`): random reads, mixed workload, compaction during load,
  optimistic concurrency, paginated lists, multi-key transactions, progress notification;
* helpers (`HelperCallFails`): the compactor, the updaters of watch churn, the requests for
  progress, the keepalives of the lease workload;
* the revocation of a lease, and the calls a round makes and does not record (a failed
  grant of a node, the read before a transaction, a failed watch of the churn).

`VerdictHonest` lets a verdict leave out these calls, in these scenarios only. In all
others (`RecordsAll`) every failed call must be in the success rate. That a read of a
compacted revision or a lost transaction conflict counts as a success is the code's
definition of a success, and the model's.

`StressMixed` is `RunK8sMixedSizeMaintenance`, the one open-loop scenario.

| Action | Code |
|---|---|
| `PreloadK8sClasses`, `PreloadFails` | the objects written before the load |
| `Offer` | a scheduler's next arrival: a slot, or missed |
| `LeaseCurrent`, `GrantApplied`, `GrantReturns` | `ttlLeasePool.current`, the grant under its mutex |
| `PutCommits`, `Acknowledge`, `WriteFails` | the write, its effect apart from its answer |
| `MaintTick`, `MaintCompacts`, `MaintCompactRefused`, `MaintCompactFails`, `MaintDefrag`, `MaintStops` | the maintenance goroutine and `compactTarget` |
| `ConnectionLost`, `InformerResumes` | an informer's watch |
| `LoadJoined`, `MaintJoined`, `Judge` | the joins and `judgeK8sMixed` |

`OpenLoop` is the abstract specification: arrivals are offered whether or not
earlier ones are finished, each ends exactly once, and the verdict is given when
none is outstanding and is positive only if all were served. `StressMixed` is
proved to implement it: the classes and their counters are the same in both, and
everything else a step of `StressMixed` changes is invisible in `OpenLoop`.

The `MC*` modules are the ones TLC is run on where a configuration needs a
symmetry set or a constant that is not a model value; `AwsDevGroup` is run
directly. The theorems about a module `M` are in `M_proofs`: there is one for each of
`ConformanceRunner`, `ScenarioSuite`, `LocalProvider`, `LocalCluster`, `AwsCluster`,
`AwsDevGroup`, `StressMixed` and `StressSuite`.

## 3. Runs

| Run | Checks | Bounds |
|---|---|---|
| `conformance_verdict` | `VerdictSound`, `FailureReported`, `VerdictsKept`, `KeysLeftOnlyByStragglers`, `Terminates` | two scenarios, the second retried once, the first `Hasty` |
| `local_provider` | `ReplacedMeansReplaced`, `NoSilentLoss`, `CancelNeverStrands`, `OnlyOwnedTouched`, `CallsReturn` | two callers, all four operations, two faults, one foreign container, seven container IDs |
| `local_cluster` | `RemovalComplete`, `UpsDontFight`, `ForeignKept`, `UnlabelledNeedsRace`, `CleanedUp` | two processes, two runtimes, two members, two creating commands, and one fault or one foreign name |
| `aws_lifecycle` | `InstancesAccounted`, `DownComplete`, `MemberKeepsVolume`, `TeardownFinishes` | one process at a time, two members and a client, three up/replace commands, any number of downs, three faults, interrupts or crashes, five instances |
| `aws_concurrent_replace` | `OneMachinePerMember` | two processes, one member, three commands, EC2 purges |
| `aws_dev` | `ResourcesCovered`, `NameLocked`, `OnlyOwnDeleted`, `FileCleaned` | two machines, two accounts, two ups, one box per up, one fault, one user of the older release |
| `scenario_suite` | `FailureHasCause`, `BreachDetected`, `ForeignKeysUntouched` | 93 scenarios, a correct server and 21 broken ones, two foreign events, one retry, loops of three keys |
| `stress_mixed` | `PassMeansWritten`, `LeaseOutlivesPut`, `MaintenanceErrorHasCause`, `InformersKeptForAnInterval`, `ImplementsOpenLoop`, `ScenarioEnds` | two classes, one of them under a lease, four ticks of 10 s, compaction every two, three members, one slot, one fault |
| `stress_suite` | `SuiteSound`, `VerdictHonest`, `CleanupLast`, `SuiteEnds` | any two of 26 scenarios in a row, two workers, one informer, two rounds, a channel of one, one fault |
| `aws_partial_down` | violates `RecordedVolumesKept` | two members, one failing call |
| `aws_interrupted_replace` | violates `ReplacementNeverLeaks` | one member, one interrupt |
| `aws_dev_scale` | violates `OthersUntouched` | two machines, one account, no user of the older release |

Why the bounds are enough. Two scenarios and one retry are the least at which a
straggler of an earlier scenario and one of an earlier attempt of the current
scenario are alive together and append on both sides of the index that is about
to be dropped; the first may also leave puts behind, the second waits for its own. The theorems of section 5 remove that bound. Two local callers
with two faults reach a late run that collides with the other caller's
relaunch, and seven IDs let every such behaviour end (with six the bound itself
stops a relaunch and `CallsReturn` fails). On AWS two members are the least
where one deletion of a teardown fails and another succeeds; three commands are
an up, a replacement and either a replacement of the replacement or a new up
after a down; three faults are a failing write with a failing compensation, and
one more.

For local clusters two processes and two creating commands are two racing ups, an
up racing a replacement, and a down racing either. Two runtimes let one of them be
silent for an up and answer the down; two members let the second fail after the
first has been created; one fault is enough for each of the error paths alone. A foreign name uses up the same
bound: what a failure and a foreign name do together is left to `ForeignSafe`. For
dev groups two ups on two machines are one name with two tokens; the second
account lets a down meet the wrong one. A create whose answer is lost and resent
costs no fault, so that the one fault can be the ownership lookup after it.

For the scenarios two foreign events are needed: `GET_WITH_LIMIT_AND_COUNT` and
`ERROR_FUTURE_REV` fail only after a foreign write and then a foreign compaction.
`MaxLag` is 7 because the keys of the suite's one serializable read are followed
by six more revisions before it (`scenario_get_with_range.go:166`); with 6 the
lagging member already has them. `MaxDelay` is 10, the longest lease of
`ShortLeases`. Three keys (`Many`) give every loop a first, an inner and a last
element, two progress requests (three in the code) are a retried one and the last, and
`MaxTxnOps = 4` one write less than, and one more than, the limit. A broken server is examined without foreign events: the question there is what a
scenario looks at. What the run shows of a correct server is which causes each
scenario can be failed by: somebody else's compaction (`NeedsHistory`, 24
scenarios), a lost connection (`NeedsConnection`, 4), a lagging member
(`NeedsFreshMember`, 5) and slow calls under a lease that is not kept alive
(`ShortLeases`, 6). No other scenario fails, and foreign writes alone fail none.

For the open-loop scenario four ticks with compaction every two reach a second
compaction, whose target was sampled after the first; with one slot and two
classes an arrival is missed while another is in flight; the lease (three ticks
instead of the code's six) is at the limit that `LeaseAssumption` allows, so a
window one tick longer would be seen. In `stress_suite` two scenarios in a row are
what is needed for stale metrics, a background informer or a late call of the first
to reach the second; with a channel of one the generator blocks on its second
request.

`MaxInst` doubles as the account's instance limit: at the bound RunInstances
fails as it does at the real limit, so the bound ends no behaviour early.

## 4. Fairness

* `ConformanceRunner`: weak fairness of the driver's own steps, its timer among
  them. The Go runtime schedules the driver, and `time.After` fires. Nothing is
  assumed of scenario goroutines, so every scenario may hang for ever.
* `LocalProvider`: weak fairness of each caller's commands (each has an attempt
  timeout, so it returns) and of a created container coming up. Nothing is
  assumed of the recovery budget: calls return without it, except when somebody
  else holds the name or a partial creation does.
* `AwsCluster`: weak fairness of each process's steps (EC2 calls have
  deadlines), of EC2 finishing a termination, and of the user running
  `aws down` again while the state file is there. Faults, interrupts and crashes
  are finitely many, by `MaxFaults`.
* `LocalCluster` and `AwsDevGroup`: weak fairness of a running command's steps,
  every one of which has a timeout, and of what AWS finishes by itself. Strong
  fairness of `StartDown`: the user goes on running down, although other commands
  interrupt the moments in which it can start. `RelaunchGivesUp` is weakly fair on
  its own because `restoreContainer` has a budget of 120 seconds, whatever else the
  replacement could do. `MaxFaults` bounds the faults.
* `StressMixed`: weak fairness of every goroutine, of the joins and of time.
  Strong fairness of `MaintStops`: Go's `select` chooses uniformly between a tick
  and the closed channel, so a loop that is ready for both stops with probability
  one.
* `StressSuite`: the same for workers, generator, helpers, joins and the deadline,
  and strong fairness of `InformerEnds`, whose `select` competes with arriving
  events.

## 5. Proofs

Every theorem holds for all values of the constants that satisfy the named
assumptions, and for the hypotheses it states itself. Each proof has the same
shape: an inductive invariant, one lemma per action that the step keeps it, and a
last step that combines them. An action property follows from the invariant by the
same cases.

| Module | Theorem | Property of a run |
|---|---|---|
| `ConformanceRunner_proofs` | `FailuresReported`, `VerdictsStay`, `CleanupComplete` | `FailureReported`, `VerdictsKept`, `KeysLeftOnlyByStragglers` |
| `ScenarioSuite_proofs` | `OwnKeysOnly` | `ForeignKeysUntouched` |
| `LocalProvider_proofs` | `CancelSafe`, `OnlyOwned`, `NothingLost`, `NilMeansReplaced` | `CancelNeverStrands`, `OnlyOwnedTouched`, `NoSilentLoss`, `ReplacedMeansReplaced` |
| `LocalCluster_proofs` | `NothingRemains`, `UpsKeptApart`, `ForeignSafe`, `RaceForUnlabelled` | `RemovalComplete`, `UpsDontFight`, `ForeignKept`, `UnlabelledNeedsRace` |
| `AwsCluster_proofs` | `DownFinished`, `VolumeKept`, `InstancesKept`, `OneMachine` | `DownComplete`, `MemberKeepsVolume`, `InstancesAccounted`, `OneMachinePerMember` |
| `AwsDevGroup_proofs` | `NothingForgotten`, `NameStaysLocked`, `DownDeletesOwn` | `ResourcesCovered`, `NameLocked`, `OnlyOwnDeleted` |
| `StressMixed_proofs` | `LeasesOutlivePuts`, `MaintenanceErrorsExplained`, `InformersKept`, `PassesWritten`, `Implements` | `LeaseOutlivesPut`, `MaintenanceErrorHasCause`, `InformersKeptForAnInterval`, `PassMeansWritten`, `ImplementsOpenLoop` |
| `StressSuite_proofs` | `SuiteVerdict`, `PassesHonest`, `NothingAfterCleanup` | `SuiteSound`, `VerdictHonest`, `CleanupLast` |

### 5.1 `ConformanceRunner_proofs`

From `NAssumption`, `RetryableAssumption`, `RetryCountAssumption`,
`FailuresAssumption`:

* `TypeCorrect`: `Spec => []TypeOK`;
* `VerdictCorrect`: `Spec => [](VerdictSound /\ FailureReported)`, and
  `FailuresReported` for the second part alone;
* `VerdictsStay`: `Spec => VerdictsKept`;
* `CleanupComplete`: `Spec => []KeysLeftOnlyByStragglers`.

`VerdictSound` speaks only of the returned list and is not inductive. The
invariant `IInv` says where the evidence for each verdict is: the record that
supports a verdict already given lies at or below `before` while an attempt is
in progress (`EndedEvidence`, with `Kept`), which is exactly the part of the list
that `DropResultsFrom` keeps, and the current attempt's own record lies above it
(`OwnRecord`), where `lastRecordedFailure` finds it. `RecordsTrue` connects
records with outcomes, `EndedOrder` and `NotYetRun` say that scenarios are left
in order and that attempts yet to come have not written anything. `IInvVerdict`
derives the two verdict properties when the driver returns. `KeysInv` adds that a
goroutine still running is a straggler or the one being waited for, and that every
key of another attempt is of one that left puts under way; `Cleanup` deletes the rest.

### 5.2 `LocalProvider_proofs`

From `OpsAssumption` and `BoundAssumption`, for any set of callers: `TypeCorrect`,
`CancelSafe` (`CancelNeverStrands`), `OnlyOwned` (`OnlyOwnedTouched`), `NothingLost`
(`NoSilentLoss`) and `NilMeansReplaced` (`ReplacedMeansReplaced`). The heart is
`IdInv`: the container a caller removed has an ID below `nextId`, and whatever is
under the name while it recovers has a larger one, since IDs are never reused. That
is what makes "running, labelled and of the same identity" mean "replaced".
`LossInv` says that as long as nobody else uses the name, everything that can still
appear under it (the container, a late run, a remembered specification) has the
member's identity, and that a missing container is some caller's business.
`SeenInv` connects a removal with the inspect before it.

### 5.3 `AwsDevGroup_proofs`

From `DevAssumption` and `NoneAssumption`, for any machines, accounts and faults:
`NothingForgotten` (`ResourcesCovered`), `NameStaysLocked` (`NameLocked`) and
`DownDeletesOwn` (`OnlyOwnDeleted`). That down deletes its own group although check
and deletion are two calls by name rests on `NameLocked`: while a group exists its
template does, so nobody else gets as far as creating a group. `NameLocked` in turn
needs to know at which stage of which command each template may disappear
(`StageOK`, `ProcOK`), and that a token's group, template and boxes are held by the
file of the machine that drew it (`TokenOK`, `FilesOwned`), except for `unsure`
tokens.

### 5.4 `StressMixed_proofs`

From `MixedAssumption` and `LeaseAssumption` (`LeaseWindow + 2 * RequestTimeout <=
EventTTL`; 10 s, 10 s and 60 s in the code): `TypeCorrect`, `LeasesOutlivePuts`
(`LeaseOutlivesPut`), `MaintenanceErrorsExplained` (`MaintenanceErrorHasCause`) and
`InformersKept` (`InformersKeptForAnInterval`). `LeaseInv` relates the pool's clock to
the server's: a grant is received at most one timeout after it was applied, is
handed out for a window, and the put it is handed out for ends within a timeout.
`MaintInv` says that the goroutine's idea of what is compacted is the server's
unless a call failed. `LogInv` orders commits, samples and time, so that the
target of a compaction is at least one interval old.

`PassesWritten` (`PassMeansWritten`) and `Implements` (`ImplementsOpenLoop`) rest on a
second invariant, `AInv`, which needs none of these clocks. An arrival is its class
and its turn, and the scheduler takes no turn twice (`TurnInv`), so the arrivals in
flight form a set that loses exactly one element when one ends. With that, of each
class, what was offered is acknowledged, failed, missed or in flight (`CountInv`), and
the log has what was acknowledged or is committed, and nothing that was not attempted
(`WriteInv`). Arrivals are in flight only during the load and the verdict comes last
(`PhaseInv`), which is where the joins of the code enter. A step that ends an arrival
then maps to `Succeed` or `Fail` of `OpenLoop`, one that takes a turn to `Offer` or
`OfferMissed`, the verdict to `Judge`, and all others stutter.

### 5.5 `LocalCluster_proofs`

From `LocalAssumption` (at least one member and one runtime), for any processes,
commands, failures and foreign names. The invariant `Inv` has seven parts. `Typed` also
says which positions a command of each kind can be in, and that an up is at one
runtime. `Backed`: a labelled container has a data volume, because `run -v` creates
what is missing. `Mine`: a running up owns the network of its runtime or is among the
`disturbed`; this gives `UpsKeptApart`. `Lonely` and `Prepared`: a command that nothing
ran beside is the only one, and finds the volume of the container it is about to run;
this gives `RaceForUnlabelled`. `Swept`: what an undisturbed removal has behind it is
clean, runtime by runtime and kind by kind; at its end this is `NothingRemains`. It
needs `Lonely`, since anybody else could create again what was removed, and the fact
that a removal ends only at a runtime after which none is left to do.
`FirstIsMember` is the one use of induction, by the library's theorem that `<` on the
naturals is well-founded. `ForeignSafe` cannot say that nothing foreign is ever removed:
the code looks for the label in one command and removes by name in the next. It says
what this takes. A command that nothing ran beside finds, when it removes, what it saw
when it looked, since nobody else removes the cluster's own (`Looked`), so it spares
what is foreign; and a removal by ID spares it whatever runs beside, since the container
that is on a list is the cluster's own (`Backed`).

### 5.6 `AwsCluster_proofs`

From `CountAssumption` and `SwitchAssumption`. `Inv` connects EC2, every copy of the
state (the file and each process's memory) and the position of each command.

* `CloudOK`: instance IDs are given out in order and never again; a volume is attached
  to an instance EC2 knows, and at most one volume to an instance.
* `StateOK` of the file and of every `mem` and `kept`: while the recorded machine of a
  member lives, the recorded volume is attached to it. It holds of stale copies
  also, and that is why it is inductive: a volume leaves an instance only when that
  has terminated, and a terminated instance does not come back. `Progress` states this
  of every step, and `Undisturbed` concludes that no process can invalidate what
  another one has read. `VolumeKept` is `StateOK(file)`.
* `UpOK`, `DownOK` and `ReplaceOK`: what a command has established at each point. A
  down that has come to record `k` has terminated those before it or keeps them for the
  next down; after the waits nothing recorded runs; after the deletions no recorded
  volume is left. `DownFinished` is `DownOK` at the end.

`DownFinished` and `VolumeKept` therefore hold for concurrent commands, failures,
interrupts and kills. The other two have a hypothesis of their own:

* `InstancesKept` assumes `Alone`: one process. The state file has no lock, and each
  command writes back its whole copy, so of two commands the second write forgets what
  the first recorded. Of the four exceptions the last, a `RunInstances` that launched and
  returned an error, is as wide as the code makes it: nothing searches for such an
  instance afterwards. The proof adds `Sole`: what the running command has read covers
  the file. It does not restrict commands one after the other, crashes or faults.
* `OneMachine` assumes `ReplacingOnly`: no up, and no down that can fail on some of
  several members. The reason is the address. What keeps two replacements of a member
  apart is that EC2 refuses the member's address while a machine has it (`Apart`), so
  the recorded machine of member `j` must have address `j` (`Placed`). A partial down
  writes the records that are left, which then have other positions; and the members
  of an up do not ask for an address, so that the model, which numbers them anew,
  cannot tell theirs from one that a replacement still holds. The run has no up
  either, and one member.

### 5.7 `StressSuite_proofs`

From `StressAssumption`, for any number of workers, informers, scenarios, requests and
faults. The driver relies on four things in a scenario (`RunnerOK`: its rate is a
percentage, its workers begin and stay in its modes, and only one with a deadline has
workers that leave by themselves); `TableOK` proves them of each of the 26 scenarios,
one lemma for each kind. `OwnCalls` is the heart: while a scenario runs, the shared
metrics count its own calls and no others, but for those the scenario drops, because a
round adds its effect to both and a scenario starts both from zero after all workers of
the one before have ended; what is dropped is counted by the seeds, the helper and the
rounds of the scenarios that have them, and zero in the others (`RecordsAll`).
`Drained` says when a worker may have ended: with a generator only after the generator
has closed the channel and the queue is empty, so that the join of the pool means that
every request was performed. `Heard`: a received watch error is counted or its
informer is about to count it, and a joined informer is not about to. With these
`PassesHonest` is arithmetic on the rate. `UpdatersGone` gives `NothingAfterCleanup`, and
`Reported`, which relates the results to Run's verdict, gives `SuiteVerdict`.

### 5.8 `ScenarioSuite_proofs`

From `KVAssumption` and `SuiteAssumption`, for every set of scenarios, every breach of
the server, every `MaxTxnOps` up to 128 (`embed.DefaultMaxTxnOps`, which a transaction of
the suite exceeds by one key), and any number of foreign writes, compactions and lost
connections: `OwnKeysOnly`, no step of the suite creates, changes or deletes a key that is
not the scenario's. The run shows it for two foreign events and `MaxTxnOps = 4`; the number of
responses a loop of a scenario waits for, and the answers themselves, are what the run
had to enumerate and the proof does not.

The property is about one step, and two things must be known before the step for it to
hold. A lease that ends deletes the keys attached to it, so no foreign key may ever be
attached to one (`Unleased`, part of `StoreOK`); and the call that the next step performs was
chosen after the previous answer, so it must already be one that names only the
scenario's keys (`SafeCall(call)`). `IInv` is these two, with the shape of the store that
the definitions of `EtcdKV` need. Two results carry it:

* `OutcomesQuiet`: in a store that is `StoreOK`, no outcome of a `SafeCall` changes a foreign
  key or attaches one to a lease. One lemma per kind of request; the transactions
  and the expiry of several leases are computed by a recursive function, so their
  lemmas (`BranchQuiet`, `NestedBranchQuiet`, `ElapseQuiet`) show that the function exists
  up to every length and that every prefix of it is quiet, by `SetInduction`, which is
  induction over a set of numbers and so within the provers' reach. The breaches are
  in it: a server that splits a transaction, forgets a lease or ignores a compaction
  still writes only what it was asked to.
* `ProgramsSafe`: for all 93 scenarios, from every first key and under every sequence of
  answers, each call is a `SafeCall`. A scenario's program depends on the answers: its
  loops end when they have received enough, and revisions and leases of earlier answers
  are arguments of later calls. `SafeStep` looks only at the call of a step, so the
  checks drop out, and what remains is that each key a scenario names lies in its range
  (`Keys`), that its loops are bounded (`Receiving`, `Progressing`, by the least element of a
  set) and that every deletion has an upper end: a deletion "from key" to the end of the key
  space would reach the foreign key behind the scenario's.

The steps of other clients are not quiet, of course: of them (`OtherStepOK`) only that
`StoreOK` survives is shown.

### 5.9 Only model-checked

* Liveness (`Terminates`, `CallsReturn`, `CleanedUp`, `TeardownFinishes`, `FileCleaned`,
  `ScenarioEnds`, `SuiteEnds`): fairness and `ENABLED` are out of the prover's reach.
* `FailureHasCause` and `BreachDetected` of `ScenarioSuite`. They are about what the checks
  of a scenario make of the answers, which depends on the concrete keys, revisions
  and the store's history, scenario by scenario: an invariant would have to say, for
  each of 93 programs and after each of its calls, what the store holds and what the
  watchers have yet to deliver, and there is none shorter than the table of the
  programs. `BreachDetected` says moreover that a check does fail, so it is no consequence
  of an abstraction of the answers. TLC runs every scenario to its end.
* `InstancesAccounted` for concurrent commands and `OneMachinePerMember` with an up
  beside a replacement: the code does not establish them (5.6).
* The three violated properties (section 6) are TLC's counterexamples.

## 6. Where the code and its documents disagree

With a run (`PROJECT.json`, findings): a partial `aws down` forgets the volumes of
the members it did delete; an interrupted `aws replace` leaks its new instance;
`aws dev scale`, `run` and `etcd` reach a group by its name alone, also when it is
another machine's.

Found with the same models, without a run of their own.

Conformance:

* A straggler's record can survive in the tally: `suite_workflow.go:602` drops by
  index, while the comment at line 600 says that the tally reflects only the final
  attempt.
* A retry can drop a correctness failure (`suite_workflow.go:569`); the comment at
  line 350 says that retries cannot mask actual etcd bugs.
* The scenario about atomic transactions counts responses and compares no
  revisions (`scenario_txn_multi_op_atomicity.go:190`, comment at 189), so it passes
  on a server that splits a transaction. `TXN_PUT_MULTIPLE` does find that server
  out.
* `Events[0]` is read of a response that a progress notification or a cancelled
  watch leaves empty (`scenario_mirror_sync_updates.go:135`,
  `scenario_watch_with_range.go:90`): a panic instead of a failure.
* A lease that a lagging member does not list yet fails
  `scenario_put_with_lease_time_to_live.go:149`; the other scenario that lists
  leases is exposed in the same way.
* Each watcher of `scenario_watch_with_multiple_watchers.go` sends its error to a channel, on
  which the function returns with `Success` still true (line 170): the attempt is recorded
  as passed, although `suite_workflow.go:344` says that a test passes with correct
  behaviour verified or fails. On a server that merges the events of a key the scenario
  passes, in the model as in the code, and `Catches` does not list it for that breach.
* A failing put ends `scenario_put_with_lease_time_to_live.go:105` with its `Output` set and
  `Success` still true, and `scenario_watch_with_fragmented_large_response.go:90` and
  `scenario_watch_with_too_large_response.go:84` with a bare return: a pass each time.
* `RunPutLinearizability` returns after ten seconds without joining its puts
  (`scenario_put_linearizability.go:69`), so keys may appear after `Cleanup` although no
  scenario timed out.
* `scenario_concurrency_election_resume.go:120` puts a key `"foo"` outside the test
  prefix, which Cleanup does not delete. It belongs to a scenario family that is
  not modelled.

Local:

* A partial creation in status `created` or `configured` is waited for until the
  budget ends (`manager_lifecycle.go:201`), while the comment at line 207 counts
  partial creations among what is removed.
* `restoreContainer` removes a mismatched container by name after a label check
  in an earlier command (`manager_lifecycle.go:240`); the name can change hands
  in between. `OnlyOwnedTouched` speaks of containers that were already there at
  the inspect; `ForeignKept` of `LocalCluster` names the commands that can hit one that
  was not.
* The cleanup of a failed up looks for the label and removes by name in two commands
  (`manager_lifecycle.go:74` to `79`), so it can remove what somebody else put there in
  between; the comment at line 71 says that it removes only what carries the label.
* `volume ls` and `volume rm --force` are two commands (`local.go:304` to `312`), so a down
  racing another down, or an up's cleanup, can remove a volume that somebody else has
  made under a name it listed.
* A down that removes a volume between an up's `volume create` and its `run -v`
  leaves the runtime to create it again without a label: no later down finds it.
  `UnlabelledNeedsRace` shows that this takes such a race.

AWS:

* A `RunInstances` that launches and returns an error (`aws.go:193` to `208`,
  `manager_lifecycle.go:48` and `:320`) leaves a running instance that no file and no
  message names. The tag `etcd-infra.cluster` is on it, but no command looks for it. After
  a replacement it holds the member's address, so that the next replacement fails.
* An `aws up` that fails before every member is ready has not written any volume
  ID (`aws.go:241`), so the next `aws down` leaves those volumes behind, although
  the repository's README says at line 340 that it deletes the tagged data
  volumes.
* Once EC2 has purged terminated instances, `aws down` gets NotFound from
  `Delete`, keeps the records and fails for ever (`aws.go:421`); the comment at
  `aws.go:813` wants the next down to finish the job. `TeardownFinishes` is
  therefore checked with `Purges = FALSE`.
* A create whose answer was lost and whose ownership lookup then fails is taken for
  someone else's (`launch_group.go:194`, 311), and up removes its state file: the
  template, or the group, stays without a record. `aws_dev.go:33` promises that down
  can finish any partial up. `ResourcesCovered` excepts exactly these tokens.

Stress:

* A lease whose renewal goroutine stops because a newer lease took its worker's
  place in `activeLeases` is not cancelled (`scenario_lease_intensive_workload.go:147`)
  and goes on being renewed by the client, while the comment at 145 lets it expire.
* A node whose grant or first put fails returns without recording anything
  (`scenario_k8s_node_heartbeat_leases.go:71`), so the success rate does not see it.
* `scenario_optimistic_concurrency_txn.go:175` records a second failure for a round
  whose transaction error was recorded already.
* `scenario_watch_with_churn.go` counts rounds whose watch failed as successes of
  the round.
* The background informers of `scenario_k8s_job_storm.go:125` and its kin are
  cancelled, not joined: an error received late is in no verdict.

## 7. Plan

What is left, in this order:

1. Proofs: the abstract register of point 5, once it is written, and, on the way to
   `FailureHasCause`, the lemmas on `EtcdKV` that several scenarios use (revisions grow, a
   compaction removes no live key, a watcher's pending events are those since its
   revision).
2. The metrics comparison as pure operators against a reference definition.
3. `AwsIam` (idempotent creation and deletion) and `Installer` (atomic install).
4. Leasing clients and the concurrency recipes (sessions, locks, elections, STM),
   for which the client library's protocols have to be modelled as external.
5. A member as a register that is either present with its identity or being
   replaced, implemented by `LocalProvider` and by the replace part of `AwsCluster`.

## 8. Not modelled

Flag parsing, plan printing, logging, shell quoting, bootstrap scripts, SSM
transport, S3 transfer and instance metadata: no state that a property could be
about. Auto Scaling replacements of a cluster's members, data volume helpers
outside replace and down, IAM, the installer and the metrics comparison are not
modelled yet (section 7).

Of the modelled parts: latency percentiles are a free choice in a stress verdict;
leader elections that extend leases, automatic progress notifications and lagging
members at the opening of a watch without a revision are left out of `EtcdKV`; AWS is
taken to be consistent once a call has returned; a create call of a killed process
does not arrive later; an `AttachVolume` that fails has not taken effect; one machine
does not run two commands on one dev group at once. In `LocalCluster` a `rm` or `volume
rm` of several names is one step, and so is a relaunch together with the inspect that
finds it missing or in the way.
