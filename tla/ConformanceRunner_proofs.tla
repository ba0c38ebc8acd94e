---------------------- MODULE ConformanceRunner_proofs ----------------------
(***************************************************************************)
(* The verdict of the conformance driver is sound for any number of        *)
(* scenarios, any set of retried ones and any number of retries.           *)
(*                                                                         *)
(* VerdictSound is not inductive: it speaks of the returned list only.     *)
(* The strengthening says where the evidence for each verdict is kept.     *)
(* While an attempt runs, everything that a verdict already given rests on *)
(* lies at or below index `before', which is exactly the part of the list  *)
(* that DropResultsFrom keeps; and the current attempt's own record, once  *)
(* written, lies above it.                                                 *)
(***************************************************************************)
EXTENDS ConformanceRunner, TLAPS

InAttempt == pc \in {"waiting", "inspect", "drop", "record"}

\* How far the driver may rely on the list: what lies above `before' can
\* still be dropped while an attempt is in progress.
Kept == IF InAttempt THEN before ELSE Len(results)

\* The record that a scenario's verdict rests on, within the first n of rs.
Evidence(rs, n, s) ==
  \E i \in 1..n :
    /\ rs[i].scenario = s
    /\ ended[s].how = "passed" => rs[i].by = <<s, ended[s].attempt>>
    /\ ended[s].how = "failed" => ~rs[i].success

\* A record written by an attempt says how that attempt ended.
RecordsTrue(rs) ==
  \A i \in 1..Len(rs) : rs[i].by # Driver =>
    /\ outcome[rs[i].by] # "none"
    /\ rs[i].success = (outcome[rs[i].by] \in {"pass", "panic"})

EndedEvidence ==
  \A s \in Scenarios : ended[s].how # "no" => Evidence(results, Kept, s)

\* Scenarios are left in order, each at most once.
EndedOrder ==
  \A s \in Scenarios :
    ended[s].how # "no" <=> (s < idx \/ pc \in {"return", "cleanup", "compact", "done"})

EndedPassed ==
  \A s \in Scenarios : ended[s].how = "passed" =>
    /\ ended[s].attempt \in 1..maxAttempts(s)
    /\ outcome[<<s, ended[s].attempt>>] \in Outcomes \ {"panic"}

\* The current attempt's record lies in the attempt's own window.
OwnRecord ==
  pc \in {"waiting", "inspect"} /\ gor[Current] \in {"recorded", "closed"} =>
    \E i \in (before + 1)..Len(results) :
      results[i].by = Current /\ results[i].scenario = idx

InspectNil ==
  pc = "inspect" /\ err = "nil" => gor[Current] = "closed" /\ outcome[Current] # "panic"

OutcomeKnown ==
  \A a \in Attempts : gor[a] \in {"none", "running"} <=> outcome[a] = "none"

\* The attempt about to be started and all later ones have not run.
NotYetRun ==
  /\ \A s \in Scenarios, k \in 1..(1 + RetryCount) :
       \/ s > idx
       \/ s = idx /\ k > attempt /\ pc \in {"start", "waiting", "inspect", "drop", "record"}
       \/ s = idx /\ k = attempt /\ pc = "start"
       => gor[<<s, k>>] = "none"
  /\ attempt <= maxAttempts(idx)
  /\ pc = "drop" => attempt < maxAttempts(idx)
  /\ pc \in {"start", "waiting", "inspect"} => err # "recorded"

ReturnedEvidence ==
  HasReturned =>
    /\ RecordsTrue(returned)
    /\ \A s \in Scenarios : Evidence(returned, Len(returned), s)

IInv ==
  /\ TypeOK /\ EndedEvidence /\ EndedOrder /\ EndedPassed /\ OwnRecord
  /\ InspectNil /\ OutcomeKnown /\ NotYetRun /\ RecordsTrue(results) /\ ReturnedEvidence

USE NAssumption, RetryableAssumption, RetryCountAssumption, HastyAssumption, FailuresAssumption

LEMMA InitIInv == Init => IInv
<1> SUFFICES ASSUME Init PROVE IInv
  OBVIOUS
<1> USE DEF Init, Scenarios, Attempts, Records
<1>1. TypeOK
  <2>1. 1 \in 1..N /\ 1 \in 1..(1 + RetryCount) /\ 0 \in 0..(1 + RetryCount)
    OBVIOUS
  <2>2. ended \in [Scenarios -> [how : {"no", "passed", "failed"}, attempt : 0..(1 + RetryCount)]]
    BY <2>1
  <2>3. <<>> \in Seq(Records) /\ Len(<<>>) = 0
    OBVIOUS
  <2>4. /\ gor \in [Attempts -> {"none", "running", "recorded", "closed"}]
        /\ outcome \in [Attempts -> Outcomes \cup {"none"}]
    OBVIOUS
  <2> HIDE DEF Attempts, Records
  <2>5. before \in Nat /\ before <= Len(results) /\ results \in Seq(Records)
    BY <2>3
  <2> QED BY <2>1, <2>2, <2>3, <2>4, <2>5 DEF TypeOK
<1>2. EndedEvidence /\ EndedOrder /\ EndedPassed
  BY DEF EndedEvidence, EndedOrder, EndedPassed
<1>3. OwnRecord /\ InspectNil /\ OutcomeKnown
  BY DEF OwnRecord, InspectNil, OutcomeKnown
<1>4. NotYetRun
  BY DEF NotYetRun, maxAttempts
<1>5. RecordsTrue(results) /\ ReturnedEvidence
  BY DEF RecordsTrue, ReturnedEvidence, HasReturned
<1> QED BY <1>1, <1>2, <1>3, <1>4, <1>5 DEF IInv

\* Current is an attempt; the driver's mark is not.
LEMMA CurrentAttempt ==
  TypeOK => Current \in Attempts /\ Driver \notin Attempts
BY DEF TypeOK, Current, Attempts, Scenarios, Driver

\* The goroutine steps: WriteKey, RecordResult, CloseDone.
LEMMA WriteKeyIInv == ASSUME IInv, NEW a \in Attempts, WriteKey(a) PROVE IInv'
<1>1. TypeOK' BY DEF IInv, TypeOK, WriteKey
<1>2. EndedEvidence' /\ EndedOrder' /\ EndedPassed'
  BY DEF IInv, WriteKey, EndedEvidence, EndedOrder, EndedPassed, Evidence, Kept, InAttempt
<1>3. OwnRecord' /\ InspectNil' /\ OutcomeKnown' /\ NotYetRun'
  BY DEF IInv, WriteKey, OwnRecord, InspectNil, OutcomeKnown, NotYetRun, Current
<1>4. RecordsTrue(results)' /\ ReturnedEvidence'
  BY DEF IInv, WriteKey, RecordsTrue, ReturnedEvidence, Evidence, HasReturned
<1> QED BY <1>1, <1>2, <1>3, <1>4 DEF IInv

\* What appending a record does to the list.
LEMMA AppendFacts ==
  ASSUME NEW S, NEW q \in Seq(S), NEW r \in S
  PROVE  /\ Append(q, r) \in Seq(S) /\ Len(Append(q, r)) = Len(q) + 1
         /\ Len(q) \in Nat
         /\ \A i \in 1..Len(q) : Append(q, r)[i] = q[i]
         /\ Append(q, r)[Len(q) + 1] = r
OBVIOUS

LEMMA RecordResultIInv ==
  ASSUME IInv, NEW a \in Attempts, NEW o \in Outcomes, RecordResult(a, o), pc # "done"
  PROVE  IInv'
<1> DEFINE r == RecordOf(a, o)
<1>r. r \in Records /\ r.by = a /\ r.scenario = a[1] /\ r.success = (o \in {"pass", "panic"})
  BY DEF RecordOf, Records, Attempts
<1>t. TypeOK BY DEF IInv
<1>a. /\ results' = Append(results, r) /\ results' \in Seq(Records)
      /\ Len(results') = Len(results) + 1 /\ Len(results) \in Nat
      /\ \A i \in 1..Len(results) : results'[i] = results[i]
      /\ results'[Len(results) + 1] = r
  <2>1. results \in Seq(Records) BY <1>t DEF TypeOK
  <2> HIDE DEF r
  <2> QED BY <1>r, <2>1, AppendFacts DEF RecordResult, r
<1>o. o # "none" /\ gor[a] = "running" /\ outcome[a] = "none"
  BY DEF Outcomes, RecordResult, IInv, OutcomeKnown
<1> HIDE DEF r
<1>1. TypeOK'
  BY <1>t, <1>a DEF TypeOK, RecordResult
<1>2. EndedEvidence'
  <2>1. ended' = ended /\ Kept \in 0..Len(results) /\ Kept' \in Kept..Len(results')
    BY <1>t, <1>a DEF RecordResult, Kept, InAttempt, TypeOK
  <2> SUFFICES ASSUME NEW s \in Scenarios, ended[s].how # "no"
               PROVE  Evidence(results', Kept', s)
    BY <2>1 DEF EndedEvidence, Evidence
  <2>2. PICK i \in 1..Kept : /\ results[i].scenario = s
                             /\ ended[s].how = "passed" => results[i].by = <<s, ended[s].attempt>>
                             /\ ended[s].how = "failed" => ~results[i].success
    BY DEF IInv, EndedEvidence, Evidence
  <2>3. i \in 1..Kept' /\ results'[i] = results[i]
    BY <2>1, <1>a
  <2> QED BY <2>2, <2>3 DEF Evidence
<1>3. EndedOrder' /\ EndedPassed'
  <2>1. EndedOrder' BY DEF IInv, EndedOrder, RecordResult
  <2>2. ASSUME NEW s \in Scenarios, ended[s].how = "passed"
        PROVE  outcome'[<<s, ended[s].attempt>>] = outcome[<<s, ended[s].attempt>>]
    BY <2>2, <1>o, <1>t DEF IInv, EndedPassed, RecordResult, Outcomes, TypeOK
  <2> QED BY <2>1, <2>2 DEF IInv, EndedPassed, RecordResult
<1>4. OwnRecord'
  <2>1. Current' = Current /\ before' = before /\ pc' = pc /\ idx' = idx
    BY DEF RecordResult, Current
  <2> SUFFICES ASSUME pc \in {"waiting", "inspect"}, gor'[Current] \in {"recorded", "closed"}
               PROVE  \E i \in (before + 1)..Len(results') :
                        results'[i].by = Current /\ results'[i].scenario = idx
    BY <2>1 DEF OwnRecord
  <2>2. CASE a = Current
    <3>1. Len(results) + 1 \in (before + 1)..Len(results')
      BY <1>t, <1>a DEF TypeOK
    <3>2. a[1] = idx
      BY <2>2 DEF Current
    <3> QED BY <2>2, <3>1, <3>2, <1>a, <1>r
  <2>3. CASE a # Current
    <3>1. gor'[Current] = gor[Current]
      BY <2>3, <1>t, CurrentAttempt DEF RecordResult, TypeOK
    <3>2. PICK i \in (before + 1)..Len(results) :
                 results[i].by = Current /\ results[i].scenario = idx
      BY <3>1 DEF IInv, OwnRecord
    <3>3. i \in (before + 1)..Len(results') /\ i \in 1..Len(results)
      BY <1>a, <1>t DEF TypeOK
    <3> QED BY <3>2, <3>3, <1>a
  <2> QED BY <2>2, <2>3
<1>5. InspectNil'
  BY <1>t, <1>o, CurrentAttempt DEF IInv, InspectNil, RecordResult, TypeOK, Current
<1>6. OutcomeKnown'
  BY <1>t, <1>o DEF IInv, OutcomeKnown, RecordResult, TypeOK
<1>7. NotYetRun'
  <2>1. ASSUME NEW x \in Attempts, gor[x] = "none" PROVE gor'[x] = "none"
    BY <2>1, <1>o, <1>t DEF RecordResult, TypeOK
  <2> QED BY <2>1 DEF IInv, NotYetRun, RecordResult, Attempts
<1>8. ASSUME NEW rs \in Seq(Records), RecordsTrue(rs)
      PROVE  \A i \in 1..Len(rs) : rs[i].by # Driver => outcome'[rs[i].by] = outcome[rs[i].by]
  BY <1>8, <1>o, <1>t DEF RecordsTrue, RecordResult, TypeOK
<1>9. RecordsTrue(results)'
  <2> SUFFICES ASSUME NEW i \in 1..Len(results'), results'[i].by # Driver
               PROVE  /\ outcome'[results'[i].by] # "none"
                      /\ results'[i].success = (outcome'[results'[i].by] \in {"pass", "panic"})
    BY DEF RecordsTrue
  <2>1. CASE i = Len(results) + 1
    <3>1. results'[i] = r BY <2>1, <1>a
    <3>2. outcome'[a] = o BY <1>t DEF RecordResult, TypeOK
    <3> QED BY <3>1, <3>2, <1>r, <1>o
  <2>2. CASE i \in 1..Len(results)
    <3>1. results'[i] = results[i] BY <2>2, <1>a
    <3>2. outcome'[results[i].by] = outcome[results[i].by]
      BY <2>2, <3>1, <1>8, <1>t DEF IInv, TypeOK
    <3>3. /\ outcome[results[i].by] # "none"
          /\ results[i].success = (outcome[results[i].by] \in {"pass", "panic"})
      BY <2>2, <3>1 DEF IInv, RecordsTrue
    <3> QED BY <3>1, <3>2, <3>3
  <2> QED BY <2>1, <2>2, <1>a
<1>10. ReturnedEvidence'
  <2> SUFFICES ASSUME HasReturned' PROVE ReturnedEvidence!2'
    BY DEF ReturnedEvidence
  <2>1. returned \in Seq(Records) /\ RecordsTrue(returned) /\ returned' = returned /\ ended' = ended
        /\ \A s \in Scenarios : Evidence(returned, Len(returned), s)
    BY <1>t DEF IInv, ReturnedEvidence, HasReturned, RecordResult, TypeOK
  <2>2. RecordsTrue(returned)' BY <2>1, <1>8 DEF RecordsTrue
  <2> QED BY <2>1, <2>2 DEF Evidence
<1> QED BY <1>1, <1>2, <1>3, <1>4, <1>5, <1>6, <1>7, <1>9, <1>10 DEF IInv

LEMMA CloseDoneIInv == ASSUME IInv, NEW a \in Attempts, CloseDone(a) PROVE IInv'
<1>t. TypeOK BY DEF IInv
<1>1. TypeOK' BY <1>t DEF TypeOK, CloseDone
<1>2. EndedEvidence' /\ EndedOrder' /\ EndedPassed'
  BY DEF IInv, CloseDone, EndedEvidence, EndedOrder, EndedPassed, Evidence, Kept, InAttempt
<1>3. OwnRecord' /\ InspectNil' /\ OutcomeKnown'
  BY <1>t, CurrentAttempt
  DEF IInv, CloseDone, OwnRecord, InspectNil, OutcomeKnown, Current, TypeOK
<1>4. NotYetRun'
  <2>1. ASSUME NEW x \in Attempts, gor[x] = "none" PROVE gor'[x] = "none"
    BY <2>1, <1>t DEF CloseDone, TypeOK
  <2> QED BY <2>1 DEF IInv, NotYetRun, CloseDone, Attempts
<1>5. RecordsTrue(results)' /\ ReturnedEvidence'
  BY DEF IInv, CloseDone, RecordsTrue, ReturnedEvidence, Evidence, HasReturned
<1> QED BY <1>1, <1>2, <1>3, <1>4, <1>5 DEF IInv

\* The driver's steps.
LEMMA StartAttemptIInv == ASSUME IInv, StartAttempt PROVE IInv'
<1>t. TypeOK /\ Current \in Attempts /\ Len(results) \in Nat
  BY CurrentAttempt DEF IInv, TypeOK
<1>n. gor[Current] = "none" /\ outcome[Current] = "none"
  BY <1>t DEF IInv, NotYetRun, StartAttempt, Current, OutcomeKnown, TypeOK, Attempts
<1>1. TypeOK' BY <1>t DEF TypeOK, StartAttempt
<1>2. EndedEvidence'
  <2>1. Kept = Len(results) /\ Kept' = Len(results) /\ results' = results /\ ended' = ended
    BY DEF StartAttempt, Kept, InAttempt
  <2> QED BY <2>1 DEF IInv, EndedEvidence, Evidence
<1>3. EndedOrder' /\ EndedPassed'
  BY DEF IInv, StartAttempt, EndedOrder, EndedPassed
<1>4. OwnRecord' /\ InspectNil'
  BY <1>t DEF StartAttempt, OwnRecord, InspectNil, Current, TypeOK
<1>5. OutcomeKnown'
  BY <1>t, <1>n DEF IInv, StartAttempt, OutcomeKnown, TypeOK
<1>6. NotYetRun'
  <2>1. ASSUME NEW s \in Scenarios, NEW k \in 1..(1 + RetryCount), <<s, k>> # Current
        PROVE  gor'[<<s, k>>] = gor[<<s, k>>]
    BY <2>1, <1>t DEF StartAttempt, TypeOK, Attempts
  <2>2. pc = "start" /\ pc' = "waiting" /\ UNCHANGED <<idx, attempt, err>>
    BY DEF StartAttempt
  <2>3. ASSUME NEW s \in Scenarios, NEW k \in 1..(1 + RetryCount),
               s > idx \/ (s = idx /\ k > attempt)
        PROVE  gor'[<<s, k>>] = "none"
    <3>1. <<s, k>> # Current
      BY <2>3, <1>t DEF Current, TypeOK, Scenarios
    <3>2. gor[<<s, k>>] = "none"
      BY <2>2, <2>3 DEF IInv, NotYetRun
    <3> QED BY <2>1, <3>1, <3>2
  <2> QED BY <2>2, <2>3 DEF IInv, NotYetRun
<1>7. RecordsTrue(results)' /\ ReturnedEvidence'
  BY DEF IInv, StartAttempt, RecordsTrue, ReturnedEvidence, HasReturned
<1> QED BY <1>1, <1>2, <1>3, <1>4, <1>5, <1>6, <1>7 DEF IInv

LEMMA WaitIInv == ASSUME IInv, ScenarioDone \/ ScenarioTimeout PROVE IInv'
<1>t. TypeOK /\ Current \in Attempts
  BY CurrentAttempt DEF IInv
<1>u. /\ pc = "waiting" /\ pc' = "inspect"
      /\ UNCHANGED <<idx, attempt, before, results, gor, outcome, keys, cleaned, ended, returned, left>>
      /\ timedOut' \subseteq Attempts
      /\ err' \in {"nil", "panicked", "timedout"}
      /\ err' = "nil" => gor[Current] = "closed" /\ outcome[Current] # "panic"
  BY <1>t DEF ScenarioDone, ScenarioTimeout, TypeOK
<1>1. TypeOK' BY <1>t, <1>u DEF TypeOK
<1>2. EndedEvidence' /\ EndedOrder' /\ EndedPassed'
  BY <1>u DEF IInv, EndedEvidence, EndedOrder, EndedPassed, Evidence, Kept, InAttempt
<1>3. OwnRecord' /\ InspectNil' /\ OutcomeKnown' /\ NotYetRun'
  BY <1>u DEF IInv, OwnRecord, InspectNil, OutcomeKnown, NotYetRun, Current
<1>4. RecordsTrue(results)' /\ ReturnedEvidence'
  BY <1>u DEF IInv, RecordsTrue, ReturnedEvidence, HasReturned
<1> QED BY <1>1, <1>2, <1>3, <1>4 DEF IInv

\* The scenario is left with a verdict whose evidence is in the list.
LEMMA AdvanceIInv ==
  ASSUME IInv, NEW how \in {"passed", "failed"}, Advance(how),
         pc \in {"inspect", "record"}, err' = "nil",
         UNCHANGED <<before, gor, outcome, keys, cleaned, timedOut, returned, left>>,
         results' \in Seq(Records), Len(results') >= Len(results),
         \A i \in 1..Len(results) : results'[i] = results[i],
         RecordsTrue(results)',
         \E i \in 1..Len(results') :
           /\ results'[i].scenario = idx
           /\ how = "passed" => results'[i].by = Current
           /\ how = "failed" => ~results'[i].success,
         how = "passed" => outcome[Current] \in Outcomes \ {"panic"}
  PROVE  IInv'
<1>t. TypeOK /\ Current \in Attempts /\ Len(results) \in Nat /\ Len(results') \in Nat
  BY CurrentAttempt DEF IInv, TypeOK
<1>e. /\ ended'[idx] = [how |-> how, attempt |-> attempt]
      /\ \A s \in Scenarios \ {idx} : ended'[s] = ended[s]
  BY <1>t DEF Advance, TypeOK
<1>n. /\ attempt' = 1
      /\ \/ idx < N /\ idx' = idx + 1 /\ pc' = "start"
         \/ idx = N /\ idx' = idx /\ pc' = "return"
  BY <1>t DEF Advance, TypeOK, Scenarios
<1>1. TypeOK'
  <2>1. ended' \in [Scenarios -> [how : {"no", "passed", "failed"}, attempt : 0..(1 + RetryCount)]]
    BY <1>t DEF Advance, TypeOK
  <2>2. idx' \in Scenarios /\ attempt' \in 1..(1 + RetryCount)
    BY <1>t, <1>n DEF TypeOK, Scenarios
  <2>3. before' \in Nat /\ before' <= Len(results')
    BY <1>t DEF TypeOK
  <2>4. pc' \in {"start", "return"} BY <1>n
  <2> QED BY <1>t, <2>1, <2>2, <2>3, <2>4 DEF TypeOK
<1>2. EndedEvidence'
  <2>1. Kept' = Len(results') /\ Kept \in 0..Len(results)
    BY <1>n, <1>t DEF Kept, InAttempt, TypeOK
  <2> SUFFICES ASSUME NEW s \in Scenarios, ended'[s].how # "no"
               PROVE  \E i \in 1..Len(results') :
                        /\ results'[i].scenario = s
                        /\ ended'[s].how = "passed" => results'[i].by = <<s, ended'[s].attempt>>
                        /\ ended'[s].how = "failed" => ~results'[i].success
    BY <2>1 DEF EndedEvidence, Evidence
  <2>2. CASE s = idx
    BY <2>2, <1>e DEF Current
  <2>3. CASE s # idx
    <3>1. PICK i \in 1..Kept : /\ results[i].scenario = s
                               /\ ended[s].how = "passed" => results[i].by = <<s, ended[s].attempt>>
                               /\ ended[s].how = "failed" => ~results[i].success
      <4>1. ended[s].how # "no" BY <2>3, <1>e
      <4> QED BY <4>1 DEF IInv, EndedEvidence, Evidence
    <3>2. i \in 1..Len(results) /\ i \in 1..Len(results') BY <2>1, <1>t
    <3> QED BY <3>1, <3>2, <2>3, <1>e
  <2> QED BY <2>2, <2>3
<1>3. EndedOrder'
  <2> SUFFICES ASSUME NEW s \in Scenarios
               PROVE  ended'[s].how # "no" <=> (s < idx' \/ pc' = "return")
    BY <1>n DEF EndedOrder
  <2>1. CASE s = idx
    BY <2>1, <1>e, <1>n, <1>t DEF TypeOK, Scenarios
  <2>2. CASE s # idx
    <3>1. ended'[s].how # "no" <=> s < idx
      <4>1. ended[s].how # "no" <=> s < idx
        BY DEF IInv, EndedOrder
      <4> QED BY <4>1, <2>2, <1>e
    <3>2. idx \in 1..N /\ s \in 1..N BY <1>t DEF TypeOK, Scenarios
    <3>3. s < idx <=> (s < idx' \/ pc' = "return")
      BY <2>2, <3>2, <1>n
    <3> QED BY <3>1, <3>3
  <2> QED BY <2>1, <2>2
<1>4. EndedPassed'
  <2> SUFFICES ASSUME NEW s \in Scenarios, ended'[s].how = "passed"
               PROVE  /\ ended'[s].attempt \in 1..maxAttempts(s)
                      /\ outcome[<<s, ended'[s].attempt>>] \in Outcomes \ {"panic"}
    BY DEF EndedPassed
  <2>1. CASE s = idx
    <3>1. attempt \in 1..maxAttempts(idx)
      BY <1>t DEF IInv, NotYetRun, TypeOK, maxAttempts
    <3> QED BY <2>1, <3>1, <1>e DEF Current
  <2>2. CASE s # idx
    BY <2>2, <1>e DEF IInv, EndedPassed
  <2> QED BY <2>1, <2>2
<1>5. OwnRecord' /\ InspectNil'
  BY <1>n DEF OwnRecord, InspectNil
<1>6. OutcomeKnown'
  BY DEF IInv, OutcomeKnown
<1>7. NotYetRun'
  <2>1. attempt' <= maxAttempts(idx')
    BY <1>n DEF maxAttempts
  <2>2. ASSUME NEW s \in Scenarios, NEW k \in 1..(1 + RetryCount), s > idx
        PROVE  gor'[<<s, k>>] = "none"
    BY <2>2 DEF IInv, NotYetRun
  <2>3. CASE pc' = "start"
    <3>1. idx' = idx + 1 BY <1>n, <2>3
    <3>2. \A s \in Scenarios : s >= idx' => s > idx
      BY <3>1, <1>t DEF TypeOK, Scenarios
    <3> QED BY <2>1, <2>2, <2>3, <3>1, <3>2, <1>t DEF NotYetRun, Scenarios, TypeOK
  <2>4. CASE pc' = "return"
    BY <2>1, <2>2, <2>4, <1>n, <1>t DEF NotYetRun, TypeOK, Scenarios
  <2> QED BY <2>3, <2>4, <1>n
<1>8. ReturnedEvidence'
  BY <1>n DEF ReturnedEvidence, HasReturned
<1> QED BY <1>1, <1>2, <1>3, <1>4, <1>5, <1>6, <1>7, <1>8 DEF IInv

LEMMA InspectPassIInv == ASSUME IInv, InspectPass PROVE IInv'
<1>t. TypeOK /\ Current \in Attempts
  BY CurrentAttempt DEF IInv
<1>1. err = "nil" /\ pc = "inspect" /\ Advance("passed") /\ err' = "nil"
      /\ UNCHANGED <<before, results, gor, outcome, keys, cleaned, timedOut, returned, left>>
  BY DEF InspectPass, AttemptError
<1>2. gor[Current] = "closed" /\ outcome[Current] \in Outcomes \ {"panic"}
  BY <1>1, <1>t DEF IInv, InspectNil, OutcomeKnown, TypeOK
<1>3. \E i \in 1..Len(results) : results[i].by = Current /\ results[i].scenario = idx
  <2>1. PICK i \in (before + 1)..Len(results) : results[i].by = Current /\ results[i].scenario = idx
    BY <1>1, <1>2 DEF IInv, OwnRecord
  <2>2. i \in 1..Len(results) BY <1>t DEF TypeOK
  <2> QED BY <2>1, <2>2
<1>4. RecordsTrue(results)' BY <1>1 DEF IInv, RecordsTrue
<1>5. results' \in Seq(Records) /\ Len(results') >= Len(results)
  BY <1>1, <1>t DEF TypeOK
<1> QED BY <1>1, <1>2, <1>3, <1>4, <1>5, AdvanceIInv

LEMMA InspectFailIInv == ASSUME IInv, InspectRetry \/ InspectFinal PROVE IInv'
<1>t. TypeOK /\ Current \in Attempts
  BY CurrentAttempt DEF IInv
<1>1. CASE /\ InspectFinal /\ AttemptError = "recorded"
  <2>1. /\ pc = "inspect" /\ Advance("failed") /\ err' = "nil"
        /\ UNCHANGED <<before, results, gor, outcome, keys, cleaned, timedOut, returned, left>>
    BY <1>1 DEF InspectFinal
  <2>2. err # "recorded" => lastRecordedFailure(results, before, idx)
    BY <1>1 DEF AttemptError
  <2>e. err # "recorded"
    BY <1>1, <2>1 DEF IInv, NotYetRun
  <2>3. PICK i \in (before + 1)..Len(results) : results[i].scenario = idx /\ ~results[i].success
    BY <2>2, <2>e DEF lastRecordedFailure
  <2>4. i \in 1..Len(results) BY <1>t DEF TypeOK
  <2>5. RecordsTrue(results)' BY <2>1 DEF IInv, RecordsTrue
  <2>6. results' \in Seq(Records) /\ Len(results') >= Len(results)
    BY <2>1, <1>t DEF TypeOK
  <2> QED BY <2>1, <2>3, <2>4, <2>5, <2>6, AdvanceIInv
<1>2. CASE ~(InspectFinal /\ AttemptError = "recorded")
  <2>1. /\ pc = "inspect" /\ pc' \in {"drop", "record"} /\ err' = AttemptError
        /\ pc' = "drop" => attempt < maxAttempts(idx)
        /\ UNCHANGED <<idx, attempt, before, results, gor, outcome, keys, cleaned,
                       timedOut, ended, returned, left>>
    BY <1>2 DEF InspectRetry, InspectFinal
  <2>2. TypeOK' BY <1>t, <2>1 DEF TypeOK, AttemptError
  <2>3. EndedEvidence' /\ EndedOrder' /\ EndedPassed'
    BY <2>1 DEF IInv, EndedEvidence, EndedOrder, EndedPassed, Evidence, Kept, InAttempt
  <2>4. OwnRecord' /\ InspectNil' /\ OutcomeKnown' /\ NotYetRun'
    BY <2>1 DEF IInv, OwnRecord, InspectNil, OutcomeKnown, NotYetRun
  <2>5. RecordsTrue(results)' /\ ReturnedEvidence'
    BY <2>1 DEF IInv, RecordsTrue, ReturnedEvidence, HasReturned
  <2> QED BY <2>2, <2>3, <2>4, <2>5 DEF IInv
<1> QED BY <1>1, <1>2

\* Truncating the list at n keeps exactly its first n records.
LEMMA SubSeqFacts ==
  ASSUME NEW S, NEW q \in Seq(S), NEW n \in 0..Len(q)
  PROVE  /\ SubSeq(q, 1, n) \in Seq(S) /\ Len(SubSeq(q, 1, n)) = n
         /\ \A i \in 1..n : SubSeq(q, 1, n)[i] = q[i]
OBVIOUS

LEMMA DropIInv == ASSUME IInv, DropResultsFrom PROVE IInv'
<1>t. TypeOK /\ Len(results) \in Nat
  BY DEF IInv, TypeOK
<1>u. /\ pc = "drop" /\ pc' = "start" /\ err' = "nil" /\ attempt' = attempt + 1
      /\ UNCHANGED <<idx, before, gor, outcome, keys, cleaned, timedOut, ended, returned, left>>
  BY DEF DropResultsFrom
<1>r. /\ results' \in Seq(Records) /\ Len(results') = before
      /\ \A i \in 1..before : results'[i] = results[i]
  <2>1. before \in 0..Len(results) /\ results \in Seq(Records) BY <1>t DEF TypeOK
  <2>2. CASE before < Len(results)
    BY <2>1, <2>2, SubSeqFacts DEF DropResultsFrom
  <2>3. CASE before = Len(results)
    BY <2>1, <2>3 DEF DropResultsFrom
  <2> QED BY <2>1, <2>2, <2>3
<1>m. attempt < maxAttempts(idx) /\ attempt' \in 1..(1 + RetryCount) /\ attempt' <= maxAttempts(idx)
  BY <1>u, <1>t DEF IInv, NotYetRun, maxAttempts, TypeOK
<1>1. TypeOK' BY <1>t, <1>u, <1>r, <1>m DEF TypeOK
<1>2. EndedEvidence'
  <2>1. Kept = before /\ Kept' = before BY <1>u, <1>r DEF Kept, InAttempt
  <2> SUFFICES ASSUME NEW s \in Scenarios, ended[s].how # "no"
               PROVE  Evidence(results', before, s)
    BY <2>1, <1>u DEF EndedEvidence, Evidence
  <2>2. Evidence(results, before, s) BY <2>1 DEF IInv, EndedEvidence
  <2> QED BY <2>2, <1>r DEF Evidence
<1>3. EndedOrder' /\ EndedPassed' /\ OwnRecord' /\ InspectNil' /\ OutcomeKnown'
  BY <1>u DEF IInv, EndedOrder, EndedPassed, OwnRecord, InspectNil, OutcomeKnown
<1>4. NotYetRun'
  <2>1. ASSUME NEW s \in Scenarios, NEW k \in 1..(1 + RetryCount),
               s > idx \/ (s = idx /\ k > attempt)
        PROVE  gor'[<<s, k>>] = "none"
    BY <2>1, <1>u DEF IInv, NotYetRun
  <2>2. \A k \in 1..(1 + RetryCount) : k >= attempt' => k > attempt
    BY <1>u, <1>t DEF TypeOK
  <2> QED BY <2>1, <2>2, <1>u, <1>m DEF NotYetRun
<1>5. RecordsTrue(results)'
  <2>1. \A i \in 1..before : i \in 1..Len(results) BY <1>t DEF TypeOK
  <2> QED BY <2>1, <1>u, <1>r DEF IInv, RecordsTrue
<1>6. ReturnedEvidence'
  BY <1>u DEF ReturnedEvidence, HasReturned
<1> QED BY <1>1, <1>2, <1>3, <1>4, <1>5, <1>6 DEF IInv

LEMMA RecordFinalIInv == ASSUME IInv, RecordFinal PROVE IInv'
<1> DEFINE r == [scenario |-> idx, success |-> FALSE, by |-> Driver]
<1>t. TypeOK /\ r \in Records /\ results \in Seq(Records)
  BY DEF IInv, TypeOK, Records
<1>u. /\ pc = "record" /\ Advance("failed") /\ err' = "nil" /\ results' = Append(results, r)
      /\ UNCHANGED <<before, gor, outcome, keys, cleaned, timedOut, returned, left>>
  BY DEF RecordFinal
<1>r. r.scenario = idx /\ r.success = FALSE /\ r.by = Driver
  OBVIOUS
<1> HIDE DEF r
<1>a. /\ results' \in Seq(Records) /\ Len(results') = Len(results) + 1 /\ Len(results) \in Nat
      /\ \A i \in 1..Len(results) : results'[i] = results[i]
      /\ results'[Len(results) + 1] = r
  BY <1>t, <1>u, AppendFacts
<1>1. RecordsTrue(results)'
  <2> SUFFICES ASSUME NEW i \in 1..Len(results'), results'[i].by # Driver
               PROVE  /\ outcome[results'[i].by] # "none"
                      /\ results'[i].success = (outcome[results'[i].by] \in {"pass", "panic"})
    BY <1>u DEF RecordsTrue
  <2>1. i \in 1..Len(results) /\ results'[i] = results[i]
    <3>1. i # Len(results) + 1 BY <1>a, <1>r
    <3> QED BY <3>1, <1>a
  <2> QED BY <2>1 DEF IInv, RecordsTrue
<1>2. \E i \in 1..Len(results') : results'[i].scenario = idx /\ ~results'[i].success
  <2>1. Len(results) + 1 \in 1..Len(results') BY <1>a
  <2> QED BY <2>1, <1>a, <1>r
<1>3. Len(results') >= Len(results) BY <1>a
<1> QED BY <1>u, <1>a, <1>1, <1>2, <1>3, AdvanceIInv

LEMMA TailIInv == ASSUME IInv, Return \/ CleanupDelete \/ CleanupCompact PROVE IInv'
<1>t. TypeOK BY DEF IInv
<1>u. /\ pc \in {"return", "cleanup", "compact"} /\ pc' \in {"cleanup", "compact", "done"}
      /\ UNCHANGED <<idx, attempt, before, err, results, gor, outcome, timedOut, ended, left>>
      /\ keys' \subseteq Attempts /\ cleaned' \in BOOLEAN
  BY <1>t DEF Return, CleanupDelete, CleanupCompact, TypeOK
<1>r. \/ returned' = results /\ pc = "return"
      \/ returned' = returned /\ HasReturned
  <2>1. CASE Return BY <2>1 DEF Return
  <2>2. CASE CleanupDelete BY <2>2 DEF CleanupDelete, HasReturned
  <2>3. CASE CleanupCompact BY <2>3 DEF CleanupCompact, HasReturned
  <2> QED BY <2>1, <2>2, <2>3
<1>1. TypeOK' BY <1>t, <1>u, <1>r DEF TypeOK
<1>2. EndedEvidence' /\ EndedOrder' /\ EndedPassed'
  BY <1>u DEF IInv, EndedEvidence, EndedOrder, EndedPassed, Evidence, Kept, InAttempt
<1>3. OwnRecord' /\ InspectNil' /\ OutcomeKnown' /\ NotYetRun'
  BY <1>u DEF IInv, OwnRecord, InspectNil, OutcomeKnown, NotYetRun
<1>4. RecordsTrue(results)'
  BY <1>u DEF IInv, RecordsTrue
<1>5. ReturnedEvidence'
  <2>1. CASE returned' = results /\ pc = "return"
    <3>1. \A s \in Scenarios : Evidence(results, Len(results), s)
      BY <2>1 DEF IInv, EndedOrder, EndedEvidence, Kept, InAttempt
    <3> QED BY <3>1, <2>1, <1>u DEF IInv, ReturnedEvidence, RecordsTrue, Evidence
  <2>2. CASE returned' = returned /\ HasReturned
    BY <2>2, <1>u DEF IInv, ReturnedEvidence, RecordsTrue, Evidence
  <2> QED BY <2>1, <2>2, <1>r
<1> QED BY <1>1, <1>2, <1>3, <1>4, <1>5 DEF IInv

LEMMA StepIInv == IInv /\ [Next]_vars => IInv'
<1> SUFFICES ASSUME IInv, [Next]_vars PROVE IInv'
  OBVIOUS
<1>1. CASE DriverStep
  BY <1>1, StartAttemptIInv, WaitIInv, InspectPassIInv, InspectFailIInv, DropIInv,
     RecordFinalIInv, TailIInv DEF DriverStep
<1>2. CASE GoroutineStep
  BY <1>2, WriteKeyIInv, RecordResultIInv, CloseDoneIInv DEF GoroutineStep
<1>3. CASE UNCHANGED vars
  <2> USE <1>3 DEF vars
  <2>1. TypeOK' BY DEF IInv, TypeOK
  <2>2. EndedEvidence' /\ EndedOrder' /\ EndedPassed'
    BY DEF IInv, EndedEvidence, EndedOrder, EndedPassed, Evidence, Kept, InAttempt
  <2>3. OwnRecord' /\ InspectNil' /\ OutcomeKnown' /\ NotYetRun'
    BY DEF IInv, OwnRecord, InspectNil, OutcomeKnown, NotYetRun, Current
  <2>4. RecordsTrue(results)' /\ ReturnedEvidence'
    BY DEF IInv, RecordsTrue, ReturnedEvidence, Evidence, HasReturned
  <2> QED BY <2>1, <2>2, <2>3, <2>4 DEF IInv
<1> QED BY <1>1, <1>2, <1>3 DEF Next, Finished

\* The evidence in the returned list yields the two verdict properties.
LEMMA IInvVerdict == IInv => VerdictSound /\ FailureReported
<1> SUFFICES ASSUME IInv, HasReturned PROVE VerdictSound /\ FailureReported
  BY DEF VerdictSound, FailureReported
<1>1. /\ RecordsTrue(returned) /\ \A s \in Scenarios : Evidence(returned, Len(returned), s)
      /\ \A s \in Scenarios : ended[s].how # "no"
  BY DEF IInv, ReturnedEvidence, EndedOrder, HasReturned
<1>2. FailureReported
  BY <1>1 DEF FailureReported, Evidence
<1>3. ASSUME ~Failed(returned), NEW s \in Scenarios
      PROVE  \E k \in 1..maxAttempts(s) :
               ended[s] = [how |-> "passed", attempt |-> k] /\ outcome[<<s, k>>] = "pass"
  <2>1. ended[s].how = "passed"
    <3>1. ended[s].how # "failed" BY <1>1, <1>3 DEF Evidence, Failed
    <3> QED BY <3>1, <1>1 DEF IInv, TypeOK
  <2> DEFINE k == ended[s].attempt
  <2>2. /\ k \in 1..maxAttempts(s) /\ outcome[<<s, k>>] # "panic"
        /\ ended[s] = [how |-> "passed", attempt |-> k]
    BY <2>1 DEF IInv, EndedPassed, TypeOK
  <2>3. PICK i \in 1..Len(returned) : returned[i].by = <<s, k>>
    BY <1>1, <2>1 DEF Evidence
  <2>4. returned[i].success /\ returned[i].by # Driver
    BY <2>3, <1>3 DEF Failed, Driver, Scenarios
  <2>5. outcome[<<s, k>>] = "pass"
    BY <2>2, <2>3, <2>4, <1>1 DEF RecordsTrue
  <2> QED BY <2>2, <2>5
<1> QED BY <1>2, <1>3 DEF VerdictSound

\* The driver's variables keep their types, for any number of scenarios and
\* retries; in particular resultsBefore never lies beyond the result list.
THEOREM TypeCorrect == Spec => []TypeOK
<1>1. IInv => TypeOK BY DEF IInv
<1> QED BY <1>1, InitIInv, StepIInv, PTL DEF Spec

\* RunScenarios never reports a clean run unless every scenario's last
\* attempt passed, and reports a failure for every scenario it gave up on,
\* however the stragglers of timed-out attempts interleave.
THEOREM VerdictCorrect == Spec => [](VerdictSound /\ FailureReported)
BY InitIInv, StepIInv, IInvVerdict, PTL DEF Spec

\* A scenario given up as failed has a failure among the returned results, so
\* the exit status of the command cannot be that of a clean run.
THEOREM FailuresReported == Spec => []FailureReported
BY VerdictCorrect, PTL

\* A scenario once left keeps its verdict: the driver comes back to none.
LEMMA EndedKept ==
  ASSUME IInv, Next, NEW s \in Scenarios, ended[s].how # "no"
  PROVE  ended'[s] = ended[s]
<1>1. ASSUME NEW how, Advance(how), pc \in {"inspect", "record"}
      PROVE  ended'[s] = ended[s]
  <2>1. s # idx BY <1>1 DEF IInv, EndedOrder, TypeOK, Scenarios
  <2> QED BY <2>1, <1>1 DEF IInv, TypeOK, Advance
<1>2. CASE InspectPass BY <1>1, <1>2 DEF InspectPass
<1>3. CASE InspectFinal BY <1>1, <1>3 DEF InspectFinal
<1>4. CASE RecordFinal BY <1>1, <1>4 DEF RecordFinal
<1>5. CASE StartAttempt \/ ScenarioDone \/ ScenarioTimeout \/ InspectRetry \/ DropResultsFrom
  BY <1>5 DEF StartAttempt, ScenarioDone, ScenarioTimeout, InspectRetry, DropResultsFrom
<1>6. CASE Return \/ CleanupDelete \/ CleanupCompact
  BY <1>6 DEF Return, CleanupDelete, CleanupCompact
<1>7. CASE GoroutineStep
  BY <1>7 DEF GoroutineStep, WriteKey, RecordResult, CloseDone
<1>8. CASE Finished BY <1>8 DEF Finished, vars
<1> QED BY <1>2, <1>3, <1>4, <1>5, <1>6, <1>7, <1>8 DEF Next, DriverStep

LEMMA StepVerdictsKept ==
  ASSUME IInv, IInv', Next, NEW s \in Scenarios, ended[s].how # "no"
  PROVE  VerdictRecord(results', s)
<1>1. ended'[s] = ended[s] BY EndedKept
<1>2. Evidence(results, Kept, s)' BY <1>1 DEF IInv, EndedEvidence
<1>3. Kept' <= Len(results') /\ Kept' \in Nat
  BY DEF IInv, TypeOK, Kept
<1>4. PICK i \in 1..Kept' :
         /\ results'[i].scenario = s
         /\ ended'[s].how = "passed" => results'[i].by = <<s, ended'[s].attempt>>
         /\ ended'[s].how = "failed" => ~results'[i].success
  BY <1>2 DEF Evidence
<1>5. i \in 1..Len(results') BY <1>3, <1>4 DEF IInv, TypeOK
<1>6. ended[s].how \in {"passed", "failed"} BY DEF IInv, TypeOK
<1> QED BY <1>1, <1>4, <1>5, <1>6 DEF VerdictRecord

\* DropResultsFrom never takes the record away that the verdict of an earlier
\* scenario rests on, whatever a straggler appended below the index it drops from.
THEOREM VerdictsStay == Spec => VerdictsKept
<1>1. IInv /\ IInv' /\ [Next]_vars =>
        [\A s \in Scenarios : ended[s].how # "no" => VerdictRecord(results', s)]_vars
  BY StepVerdictsKept
<1> QED BY <1>1, InitIInv, StepIInv, PTL DEF Spec, VerdictsKept

-----------------------------------------------------------------------------
(* What Cleanup leaves behind. *)

\* A goroutine still running is the one being waited for or a straggler, and
\* once the prefix is deleted only stragglers and the puts that a returned
\* attempt left under way can have written under it.
KeysInv ==
  /\ \A a \in Attempts : gor[a] = "running" => a \in timedOut \/ (pc = "waiting" /\ a = Current)
  /\ cleaned => keys \subseteq timedOut \cup left /\ pc \in {"compact", "done"}

LEMMA StepKeysInv ==
  ASSUME IInv, KeysInv, [Next]_vars PROVE KeysInv'
<1>t. TypeOK /\ Current \in Attempts BY CurrentAttempt DEF IInv
<1>1. CASE StartAttempt
  BY <1>1, <1>t DEF StartAttempt, KeysInv, TypeOK, Current
<1>2. CASE ScenarioDone
  BY <1>2, <1>t DEF ScenarioDone, KeysInv, TypeOK, Current
<1>3. CASE ScenarioTimeout
  BY <1>3, <1>t DEF ScenarioTimeout, KeysInv, TypeOK, Current
<1>4. CASE InspectPass \/ InspectRetry \/ InspectFinal \/ RecordFinal \/ DropResultsFrom
  BY <1>4 DEF InspectPass, InspectRetry, InspectFinal, RecordFinal, DropResultsFrom, KeysInv
<1>5. CASE Return \/ CleanupDelete \/ CleanupCompact
  BY <1>5 DEF Return, CleanupDelete, CleanupCompact, KeysInv
<1>6. CASE GoroutineStep
  <2> SUFFICES ASSUME NEW a \in Attempts,
                      WriteKey(a) \/ CloseDone(a) \/ \E o \in Outcomes : RecordResult(a, o)
               PROVE  KeysInv'
    BY <1>6 DEF GoroutineStep
  <2>1. CASE WriteKey(a)
    BY <2>1 DEF WriteKey, KeysInv, Current
  <2>2. CASE CloseDone(a) \/ \E o \in Outcomes : RecordResult(a, o)
    BY <2>2, <1>t DEF CloseDone, RecordResult, KeysInv, TypeOK, Current
  <2> QED BY <2>1, <2>2
<1>7. CASE UNCHANGED vars
  BY <1>7 DEF vars, KeysInv, Current
<1> QED BY <1>1, <1>2, <1>3, <1>4, <1>5, <1>6, <1>7 DEF Next, DriverStep, Finished

\* A successful Cleanup leaves keys only of timed-out attempts and of those
\* that returned before their own puts were over, for any number of scenarios,
\* stragglers and puts under way.
THEOREM CleanupComplete == Spec => []KeysLeftOnlyByStragglers
<1>1. Init => KeysInv BY DEF Init, KeysInv
<1>2. KeysInv => KeysLeftOnlyByStragglers BY DEF KeysInv, KeysLeftOnlyByStragglers
<1> QED BY <1>1, <1>2, InitIInv, StepIInv, StepKeysInv, PTL DEF Spec
=============================================================================
