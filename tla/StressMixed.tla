---------------------------- MODULE StressMixed ----------------------------
(***************************************************************************)
(* RunK8sMixedSizeMaintenance: one scheduler per object class offers       *)
(* writes on a fixed timetable, a goroutine per arrival performs its write *)
(* behind a bounded number of slots, a maintenance goroutine compacts to   *)
(* the revision seen one interval earlier and defragments the members, and *)
(* one informer per class watches.  Time is counted in ticks of 10 s, the  *)
(* lease window and the request timeout of the code.                       *)
(***************************************************************************)
EXTENDS Integers, Sequences, FiniteSets, FiniteSetsExt

CONSTANTS
    Classes,          \* object classes
    TTLClasses,       \* the ones written under a shared lease
    Period,           \* ticks between two arrivals of a class
    Duration,         \* length of the load
    CompactInterval,  \* ticks between two compactions; 0 disables them
    DefragAfterCompact,
    Members,          \* how many members the cluster has
    MaxInflight,      \* in-flight slots
    RequestTimeout,   \* k8sMixedRequestTimeout
    LeaseWindow,      \* how long the pool hands out one lease
    EventTTL,         \* k8sMixedEventTTLSeconds
    MaxClock,         \* bound of the clock
    MaxFaults         \* bound of the failing calls and lost connections

ASSUME MixedAssumption ==
    /\ TTLClasses \subseteq Classes
    /\ \A c \in Classes : Period[c] \in Nat \ {0}
    /\ {Duration, CompactInterval, MaxInflight, RequestTimeout, LeaseWindow,
        EventTTL, Members, MaxClock, MaxFaults} \subseteq Nat

\* 10 s, 10 s and 60 s in the code.
ASSUME LeaseAssumption == LeaseWindow > 0 /\ LeaseWindow + 2 * RequestTimeout <= EventTTL

VARIABLES
    pc, now, faults,
    sched,      \* class -> index of the next arrival
    flight,     \* the arrivals that hold a slot
    offered, missed, good, bad,
    log,        \* committed writes: revision -> class and time
    compacted,  \* the server's compaction revision
    revs,       \* revisionSample: revision and time of its acknowledgement
    granted,    \* lease -> time the server granted it
    pool,       \* ttlLeasePool: current lease and the time it was received
    maint,      \* the maintenance goroutine
    informer,   \* class -> the watch of its informer
    result

loadVars == <<sched, flight, offered, missed, good, bad>>
etcdVars == <<log, compacted, revs, granted, pool>>
vars == <<pc, now, faults, loadVars, etcdVars, maint, informer, result>>

Due(c, i) == i * Period[c]
Deadline(r) == Due(r.class, r.i) + RequestTimeout

MayFault == faults < MaxFaults
Fault == MayFault /\ faults' = faults + 1

Init ==
    /\ pc = "start" /\ now = 0 /\ faults = 0
    /\ sched = [c \in Classes |-> 0]
    /\ flight = {}
    /\ offered = [c \in Classes |-> 0] /\ missed = [c \in Classes |-> 0]
    /\ good = [c \in Classes |-> 0] /\ bad = [c \in Classes |-> 0]
    /\ log = <<>> /\ compacted = 0 /\ revs = {}
    /\ granted = <<>> /\ pool = [id |-> 0, since |-> 0, held |-> FALSE]
    /\ maint = [at |-> "off", ticked |-> FALSE, cancelled |-> FALSE, target |-> 0,
                compacted |-> 0, errors |-> 0, lost |-> 0]
    /\ informer = [c \in Classes |-> [pos |-> 0, up |-> TRUE, at |-> "off"]]
    /\ result = "none"

\* The client cannot be created, or a put of the preload failed five times.
PreloadFails ==
    /\ pc = "start" /\ Fault
    /\ pc' = "done" /\ result' = "fail"
    /\ UNCHANGED <<now, loadVars, etcdVars, maint, informer>>

PreloadK8sClasses ==
    /\ pc = "start"
    /\ pc' = "load"
    /\ maint' = [maint EXCEPT !.at = IF CompactInterval = 0 THEN "ended" ELSE "select"]
    /\ informer' = [c \in Classes |-> [informer[c] EXCEPT !.at = "watching"]]
    /\ UNCHANGED <<now, faults, loadVars, etcdVars, result>>

\* Mutant: the send on sem is not tried but awaited by the new goroutine, so
\* an arrival is in flight before it has a slot.
OfferUnbounded(c) ==
    /\ pc = "load"
    /\ Due(c, sched[c]) < Duration /\ Due(c, sched[c]) <= now
    /\ sched' = [sched EXCEPT ![c] = @ + 1]
    /\ offered' = [offered EXCEPT ![c] = @ + 1]
    /\ flight' = flight \cup {[class |-> c, i |-> sched[c], lease |-> 0, rev |-> 0,
                               at |-> IF c \in TTLClasses THEN "lease" ELSE "put"]}
    /\ UNCHANGED <<pc, now, faults, missed, good, bad, etcdVars, maint, informer, result>>

\* One round of a class's scheduler.  The arrival takes a slot or is missed;
\* a scheduler that overslept offers it late, with the deadline of its due time.
Offer(c) ==
    /\ pc = "load"
    /\ Due(c, sched[c]) < Duration /\ Due(c, sched[c]) <= now
    /\ sched' = [sched EXCEPT ![c] = @ + 1]
    /\ offered' = [offered EXCEPT ![c] = @ + 1]
    /\ IF Cardinality(flight) < MaxInflight
       THEN /\ flight' = flight \cup {[class |-> c, i |-> sched[c], lease |-> 0, rev |-> 0,
                                       at |-> IF c \in TTLClasses THEN "lease" ELSE "put"]}
            /\ UNCHANGED missed
       ELSE /\ missed' = [missed EXCEPT ![c] = @ + 1]
            /\ UNCHANGED flight
    /\ UNCHANGED <<pc, now, faults, good, bad, etcdVars, maint, informer, result>>

Move(r, to) == flight' = (flight \ {r}) \cup {to}
\* Mutant: one lease for the whole scenario.
PoolValidForever == pool.id # 0
PoolValid == pool.id # 0 /\ now - pool.since < LeaseWindow

\* ttlLeasePool.current, under its mutex: the lease of the window, or a Grant
\* during which every other arrival of the class waits for the mutex.
LeaseCurrent(r) ==
    /\ r.at = "lease" /\ ~pool.held
    /\ IF PoolValid
       THEN /\ Move(r, [r EXCEPT !.at = "put", !.lease = pool.id])
            /\ UNCHANGED pool
       ELSE /\ Move(r, [r EXCEPT !.at = "grant"])
            /\ pool' = [pool EXCEPT !.held = TRUE]
    /\ UNCHANGED <<pc, now, faults, sched, offered, missed, good, bad, log, compacted, revs,
                   granted, maint, informer, result>>

GrantApplied(r) ==
    /\ r.at = "grant" /\ now <= Deadline(r)
    /\ granted' = Append(granted, now)
    /\ Move(r, [r EXCEPT !.at = "granted", !.lease = Len(granted')])
    /\ UNCHANGED <<pc, now, faults, sched, offered, missed, good, bad, log, compacted, revs,
                   pool, maint, informer, result>>

\* The time of the window is taken when the answer is there, not when the
\* server granted the lease.
GrantReturns(r) ==
    /\ r.at = "granted"
    /\ pool' = [id |-> r.lease, since |-> now, held |-> FALSE]
    /\ Move(r, [r EXCEPT !.at = "put"])
    /\ UNCHANGED <<pc, now, faults, sched, offered, missed, good, bad, log, compacted, revs,
                   granted, maint, informer, result>>

LeaseLive(l) == IF l = 0 THEN TRUE ELSE now < granted[l] + EventTTL

\* The server commits the put and sends the event to the class's informer;
\* the answer is still under way.
PutCommits(r) ==
    /\ r.at = "put" /\ now <= Deadline(r) /\ LeaseLive(r.lease)
    /\ log' = Append(log, [class |-> r.class, at |-> now])
    /\ Move(r, [r EXCEPT !.at = "committed", !.rev = Len(log')])
    /\ informer' = IF informer[r.class].up THEN [informer EXCEPT ![r.class].pos = Len(log')]
                   ELSE informer
    /\ UNCHANGED <<pc, now, faults, sched, offered, missed, good, bad, compacted, revs,
                   granted, pool, maint, result>>

\* Mutant: the success is recorded in the metrics of the class and again in
\* those of the scenario, with one collector for both.
AcknowledgeTwice(r) ==
    /\ r.at = "committed"
    /\ flight' = flight \ {r}
    /\ good' = [good EXCEPT ![r.class] = @ + 2]
    /\ revs' = revs \cup {[at |-> now, rev |-> r.rev]}
    /\ UNCHANGED <<pc, now, faults, sched, offered, missed, bad, log, compacted, granted, pool,
                   maint, informer, result>>

\* The goroutine of the arrival records a success, samples the revision and
\* gives its slot back.
Acknowledge(r) ==
    /\ r.at = "committed"
    /\ flight' = flight \ {r}
    /\ good' = [good EXCEPT ![r.class] = @ + 1]
    /\ revs' = revs \cup {[at |-> now, rev |-> r.rev]}
    /\ UNCHANGED <<pc, now, faults, sched, offered, missed, bad, log, compacted, granted, pool,
                   maint, informer, result>>

\* writeK8sObject fails: an error of the Grant or of the Put, the deadline,
\* or an expired lease.  What the server committed stays committed.
WriteFails(r) ==
    /\ r.at # "lease"
    /\ \/ now >= Deadline(r) /\ UNCHANGED faults
       \/ r.at = "put" /\ ~LeaseLive(r.lease) /\ UNCHANGED faults
       \/ Fault
    /\ flight' = flight \ {r}
    /\ bad' = [bad EXCEPT ![r.class] = @ + 1]
    /\ pool' = IF r.at \in {"grant", "granted"} THEN [pool EXCEPT !.held = FALSE] ELSE pool
    /\ UNCHANGED <<pc, now, sched, offered, missed, good, log, compacted, revs, granted,
                   maint, informer, result>>

Write(r) ==
    \/ LeaseCurrent(r) \/ GrantApplied(r) \/ GrantReturns(r)
    \/ PutCommits(r) \/ Acknowledge(r) \/ WriteFails(r)

(***************************************************************************)
(* Maintenance                                                             *)
(***************************************************************************)

\* Mutant: the newest acknowledged revision.
compactTargetNewest(samples, cutoff) == Max({0} \cup {s.rev : s \in samples})

\* The highest revision acknowledged at or before cutoff, 0 if there is none.
compactTarget(samples, cutoff) ==
    Max({0} \cup {s.rev : s \in {t \in samples : t.at <= cutoff}})

\* Mutant: a target that has not advanced is compacted again.
MaintTickAlways ==
    /\ maint.at = "select" /\ maint.ticked
    /\ LET rev == compactTarget(revs, now - CompactInterval)
       IN  maint' = IF rev = 0
                    THEN [maint EXCEPT !.ticked = FALSE]
                    ELSE [maint EXCEPT !.ticked = FALSE, !.at = "compact", !.target = rev]
    /\ UNCHANGED <<pc, now, faults, loadVars, etcdVars, informer, result>>

MaintTick ==
    /\ maint.at = "select" /\ maint.ticked
    /\ LET rev == compactTarget(revs, now - CompactInterval)
       IN  maint' = IF rev <= maint.compacted
                    THEN [maint EXCEPT !.ticked = FALSE]
                    ELSE [maint EXCEPT !.ticked = FALSE, !.at = "compact", !.target = rev]
    /\ UNCHANGED <<pc, now, faults, loadVars, etcdVars, informer, result>>

AfterCompact == IF DefragAfterCompact THEN "defrag" ELSE "select"

MaintCompacts ==
    /\ maint.at = "compact" /\ maint.target > compacted
    /\ compacted' = maint.target
    /\ maint' = [maint EXCEPT !.at = AfterCompact, !.compacted = maint.target]
    /\ UNCHANGED <<pc, now, faults, loadVars, log, revs, granted, pool, informer, result>>

\* The server refuses a revision it has compacted already.
MaintCompactRefused ==
    /\ maint.at = "compact" /\ maint.target <= compacted
    /\ maint' = [maint EXCEPT !.at = AfterCompact, !.errors = @ + 1]
    /\ UNCHANGED <<pc, now, faults, loadVars, etcdVars, informer, result>>

\* The compaction fails, or is applied and its answer lost.
MaintCompactFails ==
    /\ maint.at = "compact" /\ Fault
    /\ \E applied \in BOOLEAN :
          compacted' = IF applied THEN Max({compacted, maint.target}) ELSE compacted
    /\ maint' = [maint EXCEPT !.at = AfterCompact, !.errors = @ + 1, !.lost = @ + 1]
    /\ UNCHANGED <<pc, now, loadVars, log, revs, granted, pool, informer, result>>

\* defragOrder and one Defragment call per member, the leader last.  A status
\* call that fails only makes the leader unknown; a defragmentation that
\* fails is counted and the next member is tried.
MaintDefrag ==
    /\ maint.at = "defrag"
    /\ \E failed \in 0..Members :
          /\ faults + failed <= MaxFaults
          /\ faults' = faults + failed
          /\ maint' = [maint EXCEPT !.at = "select", !.errors = @ + failed, !.lost = @ + failed]
    /\ UNCHANGED <<pc, now, loadVars, etcdVars, informer, result>>

\* Mutant: the maintenance goroutine listens to its ticker only.
MaintStopsNever ==
    /\ maint.at = "select" /\ maint.cancelled /\ FALSE
    /\ maint' = maint
    /\ UNCHANGED <<pc, now, faults, loadVars, etcdVars, informer, result>>

\* With a tick pending as well, select picks either case.
MaintStops ==
    /\ maint.at = "select" /\ maint.cancelled
    /\ maint' = [maint EXCEPT !.at = "ended"]
    /\ UNCHANGED <<pc, now, faults, loadVars, etcdVars, informer, result>>

Maintenance ==
    \/ MaintTick \/ MaintCompacts \/ MaintCompactRefused \/ MaintCompactFails
    \/ MaintDefrag \/ MaintStops

(***************************************************************************)
(* Informers.  A watch resumes after the last event it received, so the    *)
(* position of a quiet class stays where its last event left it.  An event *)
(* reaches a connected informer as it is committed (PutCommits): one that  *)
(* is late is one whose connection was lost before the commit.             *)
(***************************************************************************)
LastOf(c) == Max({0} \cup {k \in DOMAIN log : log[k].class = c})

ConnectionLost(c) ==
    /\ informer[c].at = "watching" /\ informer[c].up /\ Fault
    /\ informer' = [informer EXCEPT ![c].up = FALSE]
    /\ UNCHANGED <<pc, now, loadVars, etcdVars, maint, result>>

\* The server cancels a watch that starts before its compaction revision.
InformerResumes(c) ==
    /\ informer[c].at = "watching" /\ ~informer[c].up
    /\ informer' = IF informer[c].pos + 1 < compacted
                   THEN [informer EXCEPT ![c].at = "error"]
                   ELSE [informer EXCEPT ![c].up = TRUE, ![c].pos = LastOf(c)]
    /\ UNCHANGED <<pc, now, faults, loadVars, etcdVars, maint, result>>

(***************************************************************************)
(* The scenario's own goroutine                                            *)
(***************************************************************************)
SchedulersDone == \A c \in Classes : Due(c, sched[c]) >= Duration

\* Mutant: the in-flight goroutines are not joined.
LoadJoinedSchedulersOnly ==
    /\ pc = "load"
    /\ \A c \in Classes : Due(c, sched[c]) >= Duration
    /\ pc' = "maint"
    /\ maint' = [maint EXCEPT !.cancelled = TRUE]
    /\ UNCHANGED <<now, faults, loadVars, etcdVars, informer, result>>

\* schedulers.Wait, inflight.Wait and maintCancel.
LoadJoined ==
    /\ pc = "load" /\ SchedulersDone /\ flight = {}
    /\ pc' = "maint"
    /\ maint' = [maint EXCEPT !.cancelled = TRUE]
    /\ UNCHANGED <<now, faults, loadVars, etcdVars, informer, result>>

\* <-maintDone, then watchCancel.  The leases of the pool are revoked next,
\* each at the best of its call.
MaintJoined ==
    /\ pc = "maint" /\ maint.at = "ended"
    /\ pc' = "judge"
    /\ informer' = [c \in Classes |-> [informer[c] EXCEPT !.at = IF @ = "error" THEN @ ELSE "off"]]
    /\ UNCHANGED <<now, faults, loadVars, etcdVars, maint, result>>

\* judgeK8sMixed; a total over the classes is 0 when every class's count is.
\* slow stands for a class whose p99 is over the budget.
judgeK8sMixed(slow) ==
    /\ \A c \in Classes : bad[c] = 0 /\ missed[c] = 0
    /\ maint.errors = 0
    /\ \A c \in Classes : informer[c].at # "error"
    /\ \E c \in Classes : informer[c].pos > 0
    /\ ~slow

Judge ==
    /\ pc = "judge"
    /\ pc' = "done"
    /\ \E slow \in BOOLEAN : result' = IF judgeK8sMixed(slow) THEN "pass" ELSE "fail"
    /\ UNCHANGED <<now, faults, loadVars, etcdVars, maint, informer>>

\* A call returns at its deadline, so the clock does not pass it; an arrival
\* waiting for the mutex of the pool has no such guarantee.
Urgent(r) == r.at # "lease" /\ Deadline(r) <= now

\* A scheduler wakes at most one tick after the time it sleeps to.
Overslept(c) == Due(c, sched[c]) < Duration /\ Due(c, sched[c]) < now

Tick ==
    /\ pc \in {"load", "maint"} /\ now < MaxClock
    /\ ~\E r \in flight : Urgent(r)
    /\ ~\E c \in Classes : Overslept(c)
    /\ now' = now + 1
    /\ maint' = [maint EXCEPT !.ticked = @ \/ (maint.at \notin {"off", "ended"} /\ now' % CompactInterval = 0)]
    /\ UNCHANGED <<pc, faults, loadVars, etcdVars, informer, result>>

Finished == pc = "done" /\ UNCHANGED vars

Next ==
    \/ PreloadFails \/ PreloadK8sClasses
    \/ \E c \in Classes : Offer(c)
    \/ \E r \in flight : Write(r)
    \/ Maintenance
    \/ \E c \in Classes : ConnectionLost(c) \/ InformerResumes(c)
    \/ LoadJoined \/ MaintJoined \/ Judge
    \/ Tick \/ Finished

Fairness ==
    /\ WF_vars(PreloadK8sClasses) /\ WF_vars(Tick)
    /\ \A c \in Classes : WF_vars(Offer(c))
    /\ WF_vars(\E r \in flight : Write(r))
    /\ WF_vars(Maintenance) /\ SF_vars(MaintStops)
    /\ WF_vars(LoadJoined) /\ WF_vars(MaintJoined) /\ WF_vars(Judge)

Spec == Init /\ [][Next]_vars /\ Fairness

(***************************************************************************)
(* Properties                                                              *)
(***************************************************************************)
Stages == {"lease", "grant", "granted", "put", "committed"}

\* Every variable keeps its type, and no more arrivals are in flight than
\* the channel sem has slots.
TypeOK ==
    /\ pc \in {"start", "load", "maint", "judge", "done"}
    /\ now \in 0..MaxClock /\ faults \in 0..MaxFaults
    /\ \A f \in {sched, offered, missed, good, bad} : f \in [Classes -> Nat]
    /\ \A r \in flight : r.class \in Classes /\ r.at \in Stages /\ r.lease \in 0..Len(granted)
    /\ Cardinality(flight) <= MaxInflight
    /\ compacted \in 0..Len(log) /\ \A s \in revs : s.rev \in DOMAIN log
    /\ pool.id \in 0..Len(granted) /\ pool.held \in BOOLEAN
    /\ maint.at \in {"off", "select", "compact", "defrag", "ended"}
    /\ \A c \in Classes : informer[c].pos \in 0..Len(log)
    /\ result \in {"none", "pass", "fail"}

\* A scenario that passes has put every offered arrival into etcd, although
\* the verdict compares nothing with the number of offered arrivals: it is
\* the joins of the schedulers and of the in-flight goroutines that
\* judgeK8sMixed relies on.
PassMeansWritten ==
    result = "pass" =>
        \A c \in Classes : Cardinality({k \in DOMAIN log : log[k].class = c}) = offered[c]

\* A lease that ttlLeasePool.current handed out is alive for as long as the
\* put it was handed out for may take: window and timeouts stay below the TTL.
LeaseOutlivesPut ==
    \A r \in flight : r.at = "put" => LeaseLive(r.lease)

\* The maintenance goroutine fails the scenario only when one of its calls
\* failed: it never asks for a revision it has compacted itself, so a refused
\* compaction follows one whose answer was lost.
MaintenanceErrorHasCause == maint.errors > 0 => maint.lost > 0

\* The compaction of the scenario leaves an informer one interval to come
\* back: a resumed watch is cancelled only if the event it has to resume at
\* was committed at least one interval ago.
InformersKeptForAnInterval ==
    [][\A c \in Classes :
          informer[c].at = "watching" /\ informer'[c].at = "error" =>
              log[informer[c].pos + 1].at + CompactInterval <= now]_vars

\* The scenario keeps the promise of OpenLoop: every arrival of every class
\* ends exactly once and the verdict is given when none is outstanding.
Abstract == INSTANCE OpenLoop WITH verdict <- result

ImplementsOpenLoop == Abstract!Spec

\* The scenario ends: the schedulers, the arrivals and the maintenance are
\* joined, whatever fails.
ScenarioEnds == <>(pc = "done")
=============================================================================
