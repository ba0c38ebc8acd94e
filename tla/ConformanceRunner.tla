------------------------- MODULE ConformanceRunner -------------------------
(***************************************************************************)
(* The conformance suite's driver: Config.RunScenarios with its timeout    *)
(* wrapper, its retry loop and the runner's shared result list             *)
(* (internal/etcd/conformance/suite_workflow.go).                          *)
(*                                                                         *)
(* The driver runs the scenarios one after the other.  Each attempt is a   *)
(* goroutine of its own, which the driver stops WAITING for when the       *)
(* attempt's timer fires but never stops: a timed-out attempt goes on      *)
(* writing test keys and, whenever it returns, appends its result to the   *)
(* list that the driver is then using for another attempt or another       *)
(* scenario.  Every point where the driver takes or releases resultsMu is  *)
(* a step of its own, so that the stragglers interleave as they can in Go. *)
(*                                                                         *)
(* A scenario may also return before its own writes are over: it does not  *)
(* join every goroutine it started, and a put that its context gave up may *)
(* still be on its way.                                                    *)
(*                                                                         *)
(* A scenario's body is abstracted to how it ends: "pass"; "transient", a  *)
(* failure caused by the network; "bug", a failure caused by etcd breaking *)
(* its contract; "panic".  Both failures look the same to the driver.  A   *)
(* panicking scenario records Success = true, because its deferred         *)
(* RecordResult runs before anything set the flag to false.                *)
(***************************************************************************)
EXTENDS Integers, Sequences

CONSTANTS
  N,           \* number of selected scenarios (their IDs are distinct)
  Retryable,   \* the scenarios shouldRetryScenario names
  RetryCount,  \* scenarioRetryCount
  Hasty,       \* scenarios that may return before their own puts are over
  Failures     \* the causes of failure that can occur: "transient", "bug"

ASSUME NAssumption == N \in Nat \ {0}
ASSUME RetryableAssumption == Retryable \subseteq 1..N
ASSUME RetryCountAssumption == RetryCount \in Nat
ASSUME HastyAssumption == Hasty \subseteq 1..N
ASSUME FailuresAssumption == Failures \subseteq {"transient", "bug"}

VARIABLES
  pc,        \* where the driver is in its loop
  idx,       \* the scenario being run
  attempt,   \* the attempt number of that scenario
  before,    \* resultsBefore of the current attempt
  err,       \* the current attempt's error, as the driver classified it
  results,   \* runner.results
  gor,       \* every attempt's goroutine
  outcome,   \* how each attempt that returned ended
  keys,      \* attempts with keys left under the test prefix
  left,      \* attempts that returned with puts still under way
  cleaned,   \* Cleanup's prefix delete succeeded
  timedOut,  \* attempts the driver stopped waiting for
  ended,     \* how the driver left each scenario
  returned   \* what RunScenarios returned

vars == <<pc, idx, attempt, before, err, results, gor, outcome,
          keys, left, cleaned, timedOut, ended, returned>>

Scenarios == 1..N
Attempts == Scenarios \X (1..(1 + RetryCount))
Outcomes == {"pass", "panic"} \cup Failures

\* by is the attempt that appended the record, or the driver itself.
Driver == <<0, 0>>
Records == [scenario : Scenarios, success : BOOLEAN, by : Attempts \cup {Driver}]

maxAttempts(s) == IF s \in Retryable THEN 1 + RetryCount ELSE 1

Current == <<idx, attempt>>

Init ==
  /\ pc = "start" /\ idx = 1 /\ attempt = 1 /\ before = 0 /\ err = "nil"
  /\ results = <<>>
  /\ gor = [a \in Attempts |-> "none"]
  /\ outcome = [a \in Attempts |-> "none"]
  /\ keys = {} /\ left = {} /\ cleaned = FALSE /\ timedOut = {}
  /\ ended = [s \in Scenarios |-> [how |-> "no", attempt |-> 0]]
  /\ returned = <<>>

-----------------------------------------------------------------------------
(* The scenario goroutines. *)

\* A put of the attempt reaches the server: from its own goroutine, or one
\* that was under way when the attempt returned.
WriteKey(a) ==
  /\ gor[a] = "running" \/ a \in left
  /\ keys' = keys \cup {a}
  /\ UNCHANGED <<pc, idx, attempt, before, err, results, gor, outcome,
                 cleaned, timedOut, ended, returned, left>>

RecordOf(a, o) == [scenario |-> a[1], success |-> o \in {"pass", "panic"}, by |-> a]

\* The scenario function returns or panics: its deferred RecordResult appends.
\* Closing its client does not call back the puts that are under way.
RecordResult(a, o) ==
  /\ gor[a] = "running"
  /\ gor' = [gor EXCEPT ![a] = "recorded"]
  /\ outcome' = [outcome EXCEPT ![a] = o]
  /\ results' = Append(results, RecordOf(a, o))
  /\ left' \in IF a[1] \in Hasty THEN {left, left \cup {a}} ELSE {left}
  /\ UNCHANGED <<pc, idx, attempt, before, err, keys, cleaned, timedOut,
                 ended, returned>>

\* The wrapper's deferred recover and close(done).
CloseDone(a) ==
  /\ gor[a] = "recorded"
  /\ gor' = [gor EXCEPT ![a] = "closed"]
  /\ UNCHANGED <<pc, idx, attempt, before, err, results, outcome, keys,
                 cleaned, timedOut, ended, returned, left>>

-----------------------------------------------------------------------------
(* The driver. *)

StartAttempt ==
  /\ pc = "start"
  /\ before' = Len(results)
  /\ gor' = [gor EXCEPT ![Current] = "running"]
  /\ pc' = "waiting"
  /\ UNCHANGED <<idx, attempt, err, results, outcome, keys, cleaned, timedOut,
                 ended, returned, left>>

\* Mutant: the recovered panic is not turned into an error.
ScenarioDoneIgnoresPanic ==
  /\ pc = "waiting" /\ gor[Current] = "closed"
  /\ err' = "nil"
  /\ pc' = "inspect"
  /\ UNCHANGED <<idx, attempt, before, results, gor, outcome, keys, cleaned, timedOut,
                 ended, returned, left>>

\* The select takes the closed done channel.
ScenarioDone ==
  /\ pc = "waiting" /\ gor[Current] = "closed"
  /\ err' = IF outcome[Current] = "panic" THEN "panicked" ELSE "nil"
  /\ pc' = "inspect"
  /\ UNCHANGED <<idx, attempt, before, results, gor, outcome, keys, cleaned,
                 timedOut, ended, returned, left>>

\* Mutant: the wrapper waits for done without a timer.
ScenarioTimeoutNever ==
  /\ FALSE
  /\ UNCHANGED vars

\* The select takes the timer, which may be ready together with done.
ScenarioTimeout ==
  /\ pc = "waiting"
  /\ err' = "timedout"
  /\ timedOut' = timedOut \cup {Current}
  /\ pc' = "inspect"
  /\ UNCHANGED <<idx, attempt, before, results, gor, outcome, keys, cleaned,
                 ended, returned, left>>

\* The scan of lastRecordedFailure: the LAST record of this scenario at or
\* after index b decides.
lastRecordedFailure(rs, b, s) ==
  \E i \in (b + 1)..Len(rs) :
    /\ rs[i].scenario = s /\ ~rs[i].success
    /\ \A j \in (i + 1)..Len(rs) : rs[j].scenario # s

\* Leaving scenario idx: continue with the next one, or leave the loop.
Advance(how) ==
  /\ ended' = [ended EXCEPT ![idx] = [how |-> how, attempt |-> attempt]]
  /\ attempt' = 1
  /\ IF idx < N THEN idx' = idx + 1 /\ pc' = "start"
                ELSE idx' = idx /\ pc' = "return"

AttemptError ==
  IF err = "nil" /\ lastRecordedFailure(results, before, idx) THEN "recorded" ELSE err

\* err == nil after inspecting the records of this attempt: the scenario passed.
InspectPass ==
  /\ pc = "inspect" /\ AttemptError = "nil"
  /\ Advance("passed")
  /\ err' = "nil"
  /\ UNCHANGED <<before, results, gor, outcome, keys, cleaned, timedOut,
                 returned, left>>

\* The attempt failed and another one is allowed.
InspectRetry ==
  /\ pc = "inspect" /\ AttemptError # "nil" /\ attempt < maxAttempts(idx)
  /\ err' = AttemptError
  /\ pc' = "drop"
  /\ UNCHANGED <<idx, attempt, before, results, gor, outcome, keys, cleaned,
                 timedOut, ended, returned, left>>

\* Mutant: every failure is taken to be recorded already.
InspectFinalNotRecorded ==
  /\ pc = "inspect" /\ AttemptError # "nil" /\ attempt >= maxAttempts(idx)
  /\ Advance("failed") /\ err' = "nil"
  /\ UNCHANGED <<before, results, gor, outcome, keys, cleaned, timedOut,
                 returned, left>>

\* The last attempt failed: finalErr is set, with finalRecorded or without.
InspectFinal ==
  /\ pc = "inspect" /\ AttemptError # "nil" /\ attempt >= maxAttempts(idx)
  /\ IF AttemptError = "recorded"
       THEN Advance("failed") /\ err' = "nil"
       ELSE /\ pc' = "record" /\ err' = AttemptError
            /\ UNCHANGED <<idx, attempt, ended>>
  /\ UNCHANGED <<before, results, gor, outcome, keys, cleaned, timedOut,
                 returned, left>>

\* Mutant: one record too many is dropped.
DropResultsFromOneTooMany ==
  /\ pc = "drop"
  /\ results' = SubSeq(results, 1, before - 1)
  /\ attempt' = attempt + 1
  /\ err' = "nil"
  /\ pc' = "start"
  /\ UNCHANGED <<idx, before, gor, outcome, keys, cleaned, timedOut, ended,
                 returned, left>>

\* DropResultsFrom(resultsBefore) before the next attempt.
DropResultsFrom ==
  /\ pc = "drop"
  /\ results' = IF before < Len(results) THEN SubSeq(results, 1, before) ELSE results
  /\ attempt' = attempt + 1
  /\ err' = "nil"
  /\ pc' = "start"
  /\ UNCHANGED <<idx, before, gor, outcome, keys, cleaned, timedOut, ended,
                 returned, left>>

\* The driver's own record of a timeout or a panic.
RecordFinal ==
  /\ pc = "record"
  /\ results' = Append(results, [scenario |-> idx, success |-> FALSE, by |-> Driver])
  /\ Advance("failed")
  /\ err' = "nil"
  /\ UNCHANGED <<before, gor, outcome, keys, cleaned, timedOut, returned, left>>

\* return conformanceRunner.Results(), nil: evaluated before the deferred Cleanup.
Return ==
  /\ pc = "return"
  /\ returned' = results
  /\ pc' = "cleanup"
  /\ UNCHANGED <<idx, attempt, before, err, results, gor, outcome, keys,
                 cleaned, timedOut, ended, left>>

\* Mutant: Cleanup reports success without deleting anything.
CleanupDeleteNothing ==
  /\ pc = "cleanup"
  /\ keys' = keys /\ cleaned' = TRUE /\ pc' = "compact"
  /\ UNCHANGED <<idx, attempt, before, err, results, gor, outcome, timedOut,
                 ended, returned, left>>

\* Cleanup deletes the test prefix; an error is only logged, whether or not
\* the delete took effect.
CleanupDelete ==
  /\ pc = "cleanup"
  /\ \/ keys' = {} /\ cleaned' = TRUE /\ pc' = "compact"
     \/ keys' \in {keys, {}} /\ UNCHANGED cleaned /\ pc' = "done"
  /\ UNCHANGED <<idx, attempt, before, err, results, gor, outcome, timedOut,
                 ended, returned, left>>

\* The compaction that ends Cleanup, another round trip to etcd.
CleanupCompact ==
  /\ pc = "compact"
  /\ pc' = "done"
  /\ UNCHANGED <<idx, attempt, before, err, results, gor, outcome, keys,
                 cleaned, timedOut, ended, returned, left>>

DriverStep ==
  \/ StartAttempt \/ ScenarioDone \/ ScenarioTimeout
  \/ InspectPass \/ InspectRetry \/ InspectFinal
  \/ DropResultsFrom \/ RecordFinal \/ Return
  \/ CleanupDelete \/ CleanupCompact

\* The goroutines die with the process, once RunScenarios has returned; the
\* puts under way do not.
GoroutineStep ==
  \E a \in Attempts :
    \/ WriteKey(a)
    \/ /\ pc # "done"
       /\ CloseDone(a) \/ \E o \in Outcomes : RecordResult(a, o)

Finished == pc = "done" /\ UNCHANGED vars

Next == DriverStep \/ GoroutineStep \/ Finished

Spec == Init /\ [][Next]_vars

\* The driver's own steps and its timer go on; a scenario may hang for ever.
FairSpec == Spec /\ WF_vars(DriverStep)

-----------------------------------------------------------------------------
(* Properties. *)

\* Every variable of the driver, the goroutines and the result list keeps its type.
TypeOK ==
  /\ pc \in {"start", "waiting", "inspect", "drop", "record", "return",
             "cleanup", "compact", "done"}
  /\ idx \in Scenarios
  /\ attempt \in 1..(1 + RetryCount)
  /\ before \in Nat /\ before <= Len(results)
  /\ err \in {"nil", "panicked", "timedout", "recorded"}
  /\ results \in Seq(Records) /\ returned \in Seq(Records)
  /\ gor \in [Attempts -> {"none", "running", "recorded", "closed"}]
  /\ outcome \in [Attempts -> Outcomes \cup {"none"}]
  /\ keys \subseteq Attempts /\ left \subseteq Attempts /\ cleaned \in BOOLEAN /\ timedOut \subseteq Attempts
  /\ ended \in [Scenarios -> [how : {"no", "passed", "failed"}, attempt : 0..(1 + RetryCount)]]

HasReturned == pc \in {"cleanup", "compact", "done"}

Failed(rs) == \E i \in 1..Len(rs) : ~rs[i].success

\* A suite that reports no failure ran every scenario to a last attempt that
\* itself returned, recorded success and did not panic: neither a straggler's
\* record nor a dropped one can make Run (countResults) report a pass.
VerdictSound ==
  HasReturned /\ ~Failed(returned) =>
    \A s \in Scenarios : \E k \in 1..maxAttempts(s) :
      ended[s] = [how |-> "passed", attempt |-> k] /\ outcome[<<s, k>>] = "pass"

\* A scenario the driver gave up on (timeouts and panics included) has a
\* failure among the returned results, whatever was dropped in between.
FailureReported ==
  HasReturned => \A s \in Scenarios :
    ended[s].how = "failed" =>
      \E i \in 1..Len(returned) : returned[i].scenario = s /\ ~returned[i].success

\* A retry never drops the verdict of a scenario the driver has already left:
\* its last attempt's record, or the driver's own, stays in the list.
VerdictRecord(rs, s) ==
  \E i \in 1..Len(rs) :
    /\ rs[i].scenario = s
    /\ IF ended[s].how = "passed" THEN rs[i].by = <<s, ended[s].attempt>> ELSE ~rs[i].success

VerdictsKept == [][\A s \in Scenarios : ended[s].how # "no" => VerdictRecord(results', s)]_vars

\* Run-time leftovers: after a successful Cleanup a test key is there only
\* because an attempt was given up by the driver and went on behind its back,
\* or because it returned before its own puts were over (RunPutLinearizability
\* leaves up to 500 of them when its ten seconds end).  An attempt that was
\* waited for, and waited for its own puts, leaves nothing.
KeysLeftOnlyByStragglers == pc = "done" /\ cleaned => keys \subseteq timedOut \cup left

\* RunScenarios returns even when every scenario hangs.
Terminates == <>(pc = "done")
=============================================================================
