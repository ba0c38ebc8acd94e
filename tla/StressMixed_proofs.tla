------------------------- MODULE StressMixed_proofs -------------------------
(***************************************************************************)
(* Five properties of the mixed-size scenario and its refinement of        *)
(* OpenLoop, for any classes, rates, intervals, number of slots, members   *)
(* and faults.                                                             *)
(*                                                                         *)
(* None of them is inductive.  A lease outlives a put because of when it   *)
(* was granted, received and handed out (LeaseInv); a refused compaction   *)
(* has a cause because the goroutine's own record of what it compacted is  *)
(* exact until an answer is lost (MaintInv); and an informer keeps its     *)
(* interval because the log is ordered by time and a revision is sampled   *)
(* after it was committed (LogInv).  The accounts close because an arrival *)
(* in flight is told from any other by its class and its turn (TurnInv):   *)
(* of each class, what was offered is acknowledged, failed, missed or in   *)
(* flight (CountInv), and what was acknowledged is in the log (WriteInv).  *)
(***************************************************************************)
EXTENDS StressMixed, FiniteSetTheorems, WellFoundedInduction, TLAPS

Arrivals == [class : Classes, i : Nat, lease : Nat, rev : Nat, at : Stages]
Commits == [class : Classes, at : Nat]
Maints == [at : {"off", "select", "compact", "defrag", "ended"}, ticked : BOOLEAN,
           cancelled : BOOLEAN, target : Nat, compacted : Nat, errors : Nat, lost : Nat]
Informers == [pos : Nat, up : BOOLEAN, at : {"off", "watching", "error"}]

\* The arrivals in flight: how many there are, and of what kind.
FlightOK(f) == f \subseteq Arrivals /\ IsFiniteSet(f) /\ Cardinality(f) <= MaxInflight

\* The types, stronger than TypeOK: whole records, and a finite flight.
TInv ==
    /\ pc \in {"start", "load", "maint", "judge", "done"}
    /\ now \in 0..MaxClock /\ faults \in 0..MaxFaults
    /\ sched \in [Classes -> Nat] /\ offered \in [Classes -> Nat] /\ missed \in [Classes -> Nat]
    /\ good \in [Classes -> Nat] /\ bad \in [Classes -> Nat]
    /\ FlightOK(flight)
    /\ log \in Seq(Commits) /\ compacted \in 0..Len(log)
    /\ revs \subseteq [at : Nat, rev : Nat] /\ granted \in Seq(Nat)
    /\ pool \in [id : Nat, since : Nat, held : BOOLEAN]
    /\ maint \in Maints
    /\ informer \in [Classes -> Informers]
    /\ result \in {"none", "pass", "fail"}

\* Every revision the scenario holds is one of the log.
IndexInv ==
    /\ \A s \in revs : s.rev \in 1..Len(log)
    /\ maint.target \in 0..Len(log)
    /\ \A c \in Classes : informer[c].pos \in 0..Len(log)

\* An arrival is offered when it is due; one that has a lease has a deadline
\* that the lease outlives.
ArrivalInv(r) ==
    /\ r.lease \in 0..Len(granted)
    /\ r.at = "committed" => r.rev \in 1..Len(log) /\ log[r.rev].at <= now
    /\ Due(r.class, r.i) <= now
    /\ r.at = "granted" =>
         /\ r.lease # 0 /\ now <= Deadline(r)
         /\ Due(r.class, r.i) <= granted[r.lease]
    /\ r.at = "put" /\ r.lease # 0 =>
         /\ Deadline(r) < granted[r.lease] + LeaseWindow + 2 * RequestTimeout
         /\ \/ now <= Deadline(r)
            \/ now < granted[r.lease] + LeaseWindow + RequestTimeout

\* The lease of the pool was received at most one request timeout after the
\* server granted it.
PoolInv ==
    /\ pool.id \in 0..Len(granted)
    /\ pool.id # 0 => pool.since <= granted[pool.id] + RequestTimeout

LeaseInv == PoolInv /\ \A r \in flight : ArrivalInv(r)

\* What the goroutine believes compacted is what the server has compacted,
\* unless an answer was lost.
MaintInv ==
    /\ compacted = maint.compacted \/ maint.lost > 0
    /\ maint.at = "compact" => maint.target > maint.compacted
    /\ maint.errors > 0 => maint.lost > 0

\* The log is ordered by time, a sample is younger than its commit, and
\* nothing is compacted, or about to be, before an interval has passed.
LogInv ==
    /\ \A k \in 1..Len(log) : log[k].at <= now
    /\ \A j, k \in 1..Len(log) : j <= k => log[j].at <= log[k].at
    /\ \A s \in revs : log[s.rev].at <= s.at
    /\ compacted > 0 => log[compacted].at + CompactInterval <= now
    /\ maint.at = "compact" => log[maint.target].at + CompactInterval <= now

-----------------------------------------------------------------------------
(* Facts about the operators. *)

\* A non-empty set of naturals below a bound has a greatest element, the one
\* that Max chooses.
LEMMA MaxFacts ==
    ASSUME NEW S, S \subseteq Nat, S # {}, NEW n \in Nat, \A x \in S : x <= n
    PROVE  Max(S) \in S /\ \A x \in S : x <= Max(S)
<1> DEFINE U == {m \in Nat : \A x \in S : x <= m}
           R == OpToRel(<, Nat)
<1>1. U # {} /\ U \subseteq Nat OBVIOUS
<1>2. IsWellFoundedOn(R, Nat) BY NatLessThanWellFounded
<1>3. PICK u \in U : \A v \in U : ~(<<v, u>> \in R)
  <2> HIDE DEF U, R
  <2> QED BY <1>1, <1>2, WFMin
<1>4. \A v \in U : ~(v < u)
  BY <1>1, <1>3 DEF OpToRel
<1>u. u \in Nat /\ \A x \in S : x <= u OBVIOUS
<1>5. u \in S
  <2> SUFFICES ASSUME u \notin S PROVE FALSE
    OBVIOUS
  <2>1. PICK x \in S : TRUE OBVIOUS
  <2>2. \A y \in S : y \in Nat /\ y < u BY <1>u
  <2>3. u - 1 \in Nat /\ \A y \in S : y <= u - 1 BY <2>1, <2>2, <1>u
  <2>4. u - 1 \in U /\ u - 1 < u BY <2>3
  <2> QED BY <2>4, <1>4
<1>6. \E x \in S : \A y \in S : x >= y BY <1>5, <1>u
<1>7. /\ (CHOOSE x \in S : \A y \in S : x >= y) \in S
      /\ \A y \in S : (CHOOSE x \in S : \A z \in S : x >= z) >= y
  BY <1>6, Zenon
<1> QED BY <1>7 DEF Max

LEMMA MaxBound ==
    ASSUME NEW S, S \subseteq Nat, S # {}, NEW n \in Nat, \A x \in S : x <= n
    PROVE  Max(S) \in S /\ Max(S) \in 0..n
<1>1. Max(S) \in S BY MaxFacts
<1>2. Max(S) \in Nat /\ Max(S) <= n BY <1>1
<1> QED BY <1>1, <1>2

\* A grant or a commit is appended; what was there stays in its place.
LEMMA AppendFacts ==
    ASSUME NEW S, NEW q \in Seq(S), NEW e \in S
    PROVE  /\ Append(q, e) \in Seq(S) /\ Len(q) \in Nat /\ Len(Append(q, e)) = Len(q) + 1
           /\ \A k \in 1..Len(q) : Append(q, e)[k] = q[k]
           /\ Append(q, e)[Len(q) + 1] = e
OBVIOUS

LEMMA AddOne ==
    ASSUME NEW S, NEW x, IsFiniteSet(S)
    PROVE  /\ IsFiniteSet(S \cup {x}) /\ Cardinality(S) \in Nat
           /\ Cardinality(S \cup {x}) \in Nat /\ Cardinality(S \cup {x}) <= Cardinality(S) + 1
<1>1. /\ IsFiniteSet(S \cup {x}) /\ Cardinality(S) \in Nat
      /\ Cardinality(S \cup {x}) = IF x \in S THEN Cardinality(S) ELSE Cardinality(S) + 1
  BY FS_AddElement, FS_CardinalityType
<1> QED BY <1>1

LEMMA RemoveOne ==
    ASSUME NEW S, NEW x \in S, IsFiniteSet(S)
    PROVE  /\ IsFiniteSet(S \ {x}) /\ Cardinality(S) \in Nat
           /\ Cardinality(S \ {x}) = Cardinality(S) - 1
<1>1. /\ IsFiniteSet(S \ {x}) /\ Cardinality(S) \in Nat
      /\ Cardinality(S \ {x}) = IF x \in S THEN Cardinality(S) - 1 ELSE Cardinality(S)
  BY FS_RemoveElement, FS_CardinalityType
<1> QED BY <1>1

LEMMA SlotsType == MaxInflight \in Nat
BY MixedAssumption

\* An arrival takes a free slot, gives it back, or keeps it in another stage.
LEMMA TakeSlot ==
    ASSUME FlightOK(flight), NEW r \in Arrivals, Cardinality(flight) < MaxInflight
    PROVE  FlightOK(flight \cup {r})
<1>1. /\ IsFiniteSet(flight \cup {r}) /\ Cardinality(flight) \in Nat
      /\ Cardinality(flight \cup {r}) \in Nat
      /\ Cardinality(flight \cup {r}) <= Cardinality(flight) + 1
  BY AddOne DEF FlightOK
<1>2. Cardinality(flight \cup {r}) <= MaxInflight BY <1>1, SlotsType
<1> QED BY <1>1, <1>2 DEF FlightOK

LEMMA LeaveSlot ==
    ASSUME FlightOK(flight), NEW r \in flight
    PROVE  FlightOK(flight \ {r})
<1>1. /\ IsFiniteSet(flight \ {r}) /\ Cardinality(flight) \in Nat
      /\ Cardinality(flight \ {r}) = Cardinality(flight) - 1
  BY RemoveOne DEF FlightOK
<1>2. Cardinality(flight \ {r}) <= MaxInflight BY <1>1, SlotsType DEF FlightOK
<1> QED BY <1>1, <1>2 DEF FlightOK

LEMMA KeepSlot ==
    ASSUME FlightOK(flight), NEW r \in flight, NEW to \in Arrivals
    PROVE  FlightOK((flight \ {r}) \cup {to})
<1> DEFINE rest == flight \ {r}
<1>1. /\ IsFiniteSet(rest) /\ Cardinality(flight) \in Nat
      /\ Cardinality(rest) = Cardinality(flight) - 1
  BY RemoveOne DEF FlightOK
<1>2. rest \subseteq Arrivals BY DEF FlightOK
<1> HIDE DEF rest
<1>3. IsFiniteSet(rest \cup {to}) /\ Cardinality(rest \cup {to}) \in Nat
      /\ Cardinality(rest \cup {to}) <= Cardinality(rest) + 1
  BY <1>1, AddOne
<1>4. Cardinality(rest \cup {to}) <= MaxInflight
  BY <1>1, <1>3, SlotsType DEF FlightOK
<1>5. FlightOK(rest \cup {to}) BY <1>2, <1>3, <1>4 DEF FlightOK
<1> QED BY <1>5 DEF rest

\* The target of a compaction is 0 or a revision sampled at or before the cutoff.
LEMMA CompactTargetFacts ==
    ASSUME TInv, IndexInv, NEW cutoff \in Int
    PROVE  /\ compactTarget(revs, cutoff) \in 0..Len(log)
           /\ compactTarget(revs, cutoff) # 0 =>
                \E s \in revs : s.at <= cutoff /\ s.rev = compactTarget(revs, cutoff)
<1> DEFINE S == {0} \cup {s.rev : s \in {t \in revs : t.at <= cutoff}}
<1>1. S \subseteq Nat /\ S # {} /\ Len(log) \in Nat /\ \A x \in S : x <= Len(log)
  BY DEF TInv, IndexInv
<1>2. Max(S) \in S
  <2> HIDE DEF S
  <2> QED BY <1>1, MaxFacts
<1>3. compactTarget(revs, cutoff) = Max(S) BY DEF compactTarget
<1>4. Max(S) # 0 => \E s \in revs : s.at <= cutoff /\ s.rev = Max(S)
  BY <1>2
<1>5. Max(S) \in 0..Len(log)
  <2> HIDE DEF S
  <2> QED BY <1>1, MaxBound
<1> QED BY <1>3, <1>4, <1>5

LEMMA LastOfFacts ==
    ASSUME TInv, NEW c \in Classes
    PROVE  LastOf(c) \in 0..Len(log)
<1> DEFINE S == {0} \cup {k \in DOMAIN log : log[k].class = c}
<1>1. S \subseteq Nat /\ S # {} /\ Len(log) \in Nat /\ \A x \in S : x <= Len(log)
  <2>1. log \in Seq(Commits) BY DEF TInv
  <2>2. DOMAIN log = 1..Len(log) /\ Len(log) \in Nat BY <2>1
  <2> QED BY <2>2
<1>2. Max(S) \in 0..Len(log)
  <2> HIDE DEF S
  <2> QED BY <1>1, MaxBound
<1>3. LastOf(c) = Max(S) BY DEF LastOf
<1> QED BY <1>2, <1>3

\* Of two revisions Max takes one.
LEMMA MaxOfTwo ==
    ASSUME NEW a \in Nat, NEW b \in Nat
    PROVE  Max({a, b}) \in {a, b}
<1>1. \A x \in {a, b} : x <= a + b OBVIOUS
<1> QED BY <1>1, MaxFacts

LEMMA DueType ==
    ASSUME NEW c \in Classes, NEW i \in Nat
    PROVE  Due(c, i) \in Nat
BY MixedAssumption DEF Due

-----------------------------------------------------------------------------
(* The inductive invariant, one lemma per action. *)

IInv == TInv /\ IndexInv /\ LeaseInv /\ MaintInv /\ LogInv

LEMMA BoundsType ==
    /\ MaxClock \in Nat /\ MaxFaults \in Nat /\ RequestTimeout \in Nat /\ LeaseWindow \in Nat
    /\ CompactInterval \in Nat /\ EventTTL \in Nat /\ Members \in Nat
BY MixedAssumption

LEMMA InitIInv == Init => IInv
<1> SUFFICES ASSUME Init PROVE IInv OBVIOUS
<1> USE DEF Init
<1>1. FlightOK(flight) BY FS_EmptySet, SlotsType DEF FlightOK
<1>2. TInv
  BY <1>1, BoundsType DEF TInv, Maints, Informers
<1>3. IndexInv BY DEF IndexInv
<1>4. LeaseInv BY DEF LeaseInv, PoolInv
<1>5. MaintInv /\ LogInv BY DEF MaintInv, LogInv
<1> QED BY <1>2, <1>3, <1>4, <1>5 DEF IInv

\* The scenario's own goroutine, and a lost connection: neither log nor clock,
\* neither leases nor compactions change.
Quiet ==
    /\ UNCHANGED <<now, flight, log, compacted, revs, granted, pool>>
    /\ UNCHANGED <<maint.at, maint.target, maint.compacted, maint.errors, maint.lost>>

LEMMA QuietIInv ==
    ASSUME IInv, TInv', \A c \in Classes : informer'[c].pos \in 0..Len(log'), Quiet
    PROVE  IInv'
<1>1. IndexInv' BY DEF IInv, IndexInv, Quiet
<1>2. LeaseInv' BY DEF IInv, LeaseInv, ArrivalInv, PoolInv, Quiet
<1>3. MaintInv' /\ LogInv' BY DEF IInv, MaintInv, LogInv, Quiet
<1> QED BY <1>1, <1>2, <1>3 DEF IInv

LEMMA PreloadIInv == ASSUME IInv, PreloadFails PROVE IInv'
<1> USE DEF PreloadFails, Fault, MayFault, loadVars, etcdVars
<1>1. TInv' BY BoundsType DEF IInv, TInv
<1>2. \A c \in Classes : informer'[c].pos \in 0..Len(log') BY DEF IInv, IndexInv
<1>3. Quiet BY DEF Quiet
<1> QED BY <1>1, <1>2, <1>3, QuietIInv

LEMMA JoinIInv == ASSUME IInv, MaintJoined \/ LoadJoined \/ Judge PROVE IInv'
<1> USE DEF loadVars, etcdVars
<1>t. maint \in Maints /\ informer \in [Classes -> Informers] BY DEF IInv, TInv
<1>1. /\ maint' \in Maints /\ maint'.at = maint.at /\ maint'.target = maint.target
      /\ maint'.compacted = maint.compacted /\ maint'.errors = maint.errors
      /\ maint'.lost = maint.lost
  BY <1>t DEF MaintJoined, LoadJoined, Judge, Maints
<1>2. /\ informer' \in [Classes -> Informers]
      /\ \A c \in Classes : informer'[c].pos = informer[c].pos
  <2>1. CASE MaintJoined
    <3>1. \A c \in Classes :
             /\ informer'[c] = [informer[c] EXCEPT !.at = IF informer[c].at = "error"
                                                        THEN informer[c].at ELSE "off"]
             /\ informer[c] \in Informers
      BY <2>1, <1>t DEF MaintJoined
    <3>2. \A c \in Classes : informer'[c] \in Informers /\ informer'[c].pos = informer[c].pos
      BY <3>1 DEF Informers
    <3> QED BY <3>2, <2>1 DEF MaintJoined
  <2>2. CASE LoadJoined \/ Judge BY <2>2, <1>t DEF LoadJoined, Judge
  <2> QED BY <2>1, <2>2
<1>u. /\ UNCHANGED <<now, faults, loadVars, etcdVars>>
      /\ pc' \in {"maint", "judge", "done"} /\ result' \in {"none", "pass", "fail"}
  BY DEF MaintJoined, LoadJoined, Judge, IInv, TInv
<1>3. TInv' BY <1>1, <1>2, <1>u DEF IInv, TInv
<1>4. \A c \in Classes : informer'[c].pos \in 0..Len(log') BY <1>2, <1>u DEF IInv, IndexInv
<1>5. Quiet BY <1>1, <1>u DEF Quiet
<1> QED BY <1>3, <1>4, <1>5, QuietIInv

LEMMA InformerIInv ==
    ASSUME IInv, NEW c \in Classes, ConnectionLost(c) \/ InformerResumes(c)
    PROVE  IInv'
<1> USE DEF loadVars, etcdVars
<1>t. /\ informer \in [Classes -> Informers] /\ LastOf(c) \in 0..Len(log)
      /\ \A d \in Classes : informer[d].pos \in 0..Len(log) /\ informer[d] \in Informers
  BY LastOfFacts DEF IInv, TInv, IndexInv
<1> DEFINE lost == [informer[c] EXCEPT !.up = FALSE]
           cancelled == [informer[c] EXCEPT !.at = "error"]
           resumed == [informer[c] EXCEPT !.up = TRUE, !.pos = LastOf(c)]
<1>i. \A i \in {lost, cancelled, resumed} : i \in Informers /\ i.pos \in 0..Len(log)
  <2>t. /\ informer[c] \in Informers /\ informer[c].pos \in 0..Len(log)
        /\ LastOf(c) \in Nat /\ LastOf(c) \in 0..Len(log)
    BY <1>t DEF IInv, TInv
  <2>1. lost \in Informers /\ lost.pos = informer[c].pos BY <2>t DEF Informers
  <2>2. cancelled \in Informers /\ cancelled.pos = informer[c].pos BY <2>t DEF Informers
  <2>3. resumed \in Informers /\ resumed.pos = LastOf(c) BY <2>t DEF Informers
  <2> HIDE DEF lost, cancelled, resumed
  <2> QED BY <2>t, <2>1, <2>2, <2>3
<1>e. \/ informer' = [informer EXCEPT ![c] = lost]
      \/ informer' = [informer EXCEPT ![c] = cancelled]
      \/ informer' = [informer EXCEPT ![c] = resumed]
  BY <1>t DEF ConnectionLost, InformerResumes, Informers
<1> HIDE DEF lost, cancelled, resumed
<1>1. PICK i \in Informers : informer' = [informer EXCEPT ![c] = i] /\ i.pos \in 0..Len(log)
  BY <1>i, <1>e
<1>2. /\ informer' \in [Classes -> Informers]
      /\ \A d \in Classes : informer'[d].pos \in 0..Len(log)
  BY <1>1, <1>t
<1>u. /\ UNCHANGED <<pc, now, loadVars, etcdVars, maint, result>>
      /\ faults' \in 0..MaxFaults
  <2>1. faults \in 0..MaxFaults BY DEF IInv, TInv
  <2> QED BY <2>1, BoundsType DEF ConnectionLost, InformerResumes, Fault, MayFault
<1>3. TInv' BY <1>2, <1>u DEF IInv, TInv
<1>4. \A d \in Classes : informer'[d].pos \in 0..Len(log') BY <1>2, <1>u
<1>5. Quiet BY <1>u DEF Quiet
<1> QED BY <1>3, <1>4, <1>5, QuietIInv

\* The scenario starts its goroutines.
LEMMA PreloadClassesIInv == ASSUME IInv, PreloadK8sClasses PROVE IInv'
<1> USE DEF PreloadK8sClasses, loadVars, etcdVars
<1>1. /\ maint' \in Maints
      /\ maint'.at # "compact" /\ maint'.target = maint.target
      /\ maint'.compacted = maint.compacted /\ maint'.errors = maint.errors
      /\ maint'.lost = maint.lost
  BY DEF IInv, TInv, Maints
<1>2. /\ informer' \in [Classes -> Informers]
      /\ \A c \in Classes : informer'[c].pos = informer[c].pos
  <2>1. \A c \in Classes : /\ informer'[c] = [informer[c] EXCEPT !.at = "watching"]
                           /\ informer[c] \in Informers
    BY DEF IInv, TInv
  <2>2. \A c \in Classes : informer'[c] \in Informers /\ informer'[c].pos = informer[c].pos
    BY <2>1 DEF Informers
  <2> QED BY <2>2
<1>3. TInv' BY <1>1, <1>2 DEF IInv, TInv
<1>4. IndexInv' BY <1>1, <1>2 DEF IInv, IndexInv
<1>5. LeaseInv' BY DEF IInv, LeaseInv, ArrivalInv, PoolInv
<1>6. MaintInv' /\ LogInv' BY <1>1 DEF IInv, MaintInv, LogInv
<1> QED BY <1>3, <1>4, <1>5, <1>6 DEF IInv

\* The other arrivals do not notice an append to the log or to the grants.
LEMMA ArrivalKept ==
    ASSUME TInv, NEW r \in Arrivals, ArrivalInv(r), now' = now,
           granted' = granted \/ granted' = Append(granted, now),
           log' = log \/ \E c \in Classes : log' = Append(log, [class |-> c, at |-> now])
    PROVE  ArrivalInv(r)'
<1>g. /\ Len(granted) \in Nat /\ Len(granted') \in Nat /\ Len(granted') >= Len(granted)
      /\ \A k \in 1..Len(granted) : granted'[k] = granted[k]
  BY AppendFacts, BoundsType DEF TInv
<1>l. /\ Len(log) \in Nat /\ Len(log') \in Nat /\ Len(log') >= Len(log)
      /\ \A k \in 1..Len(log) : log'[k] = log[k]
  <2>1. log \in Seq(Commits) /\ \A c \in Classes : [class |-> c, at |-> now] \in Commits
    BY BoundsType DEF TInv, Commits
  <2>2. CASE log' = log BY <2>1, <2>2
  <2>3. ASSUME NEW c \in Classes, log' = Append(log, [class |-> c, at |-> now])
        PROVE  /\ Len(log) \in Nat /\ Len(log') \in Nat /\ Len(log') >= Len(log)
               /\ \A k \in 1..Len(log) : log'[k] = log[k]
    <3> DEFINE e == [class |-> c, at |-> now]
    <3>1. e \in Commits /\ log' = Append(log, e) BY <2>1, <2>3
    <3> HIDE DEF e
    <3> QED BY <3>1, <2>1, AppendFacts
  <2> QED BY <2>2, <2>3
<1>r. r.lease \in Nat /\ r.rev \in Nat BY DEF Arrivals
<1> QED BY <1>g, <1>l, <1>r DEF ArrivalInv

\* A step of an arrival that appends nothing to the log.
LEMMA LoadIInv ==
    ASSUME IInv, TInv', LeaseInv', IndexInv', UNCHANGED <<now, log, compacted, revs, maint>>
    PROVE  IInv'
BY DEF IInv, MaintInv, LogInv

LEMMA OfferIInv == ASSUME IInv, NEW c \in Classes, Offer(c) PROVE IInv'
<1> USE DEF etcdVars
<1> DEFINE a == [class |-> c, i |-> sched[c], lease |-> 0, rev |-> 0,
                 at |-> IF c \in TTLClasses THEN "lease" ELSE "put"]
<1>u. UNCHANGED <<pc, now, faults, good, bad, log, compacted, revs, granted, pool, maint,
                  informer, result>>
  BY DEF Offer
<1>a. a \in Arrivals BY DEF IInv, TInv, Arrivals, Stages
<1>b. ArrivalInv(a)
  BY DEF ArrivalInv, IInv, TInv, Offer
<1> HIDE DEF a
<1>f. /\ FlightOK(flight') /\ flight' \subseteq flight \cup {a}
      /\ sched' \in [Classes -> Nat] /\ offered' \in [Classes -> Nat] /\ missed' \in [Classes -> Nat]
  <2>1. sched' \in [Classes -> Nat] /\ offered' \in [Classes -> Nat] /\ missed' \in [Classes -> Nat]
    <3>1. /\ sched \in [Classes -> Nat] /\ offered \in [Classes -> Nat]
          /\ missed \in [Classes -> Nat]
      BY DEF IInv, TInv
    <3>2. sched' \in [Classes -> Nat] /\ offered' \in [Classes -> Nat] BY <3>1 DEF Offer
    <3>3. missed' = missed \/ missed' = [missed EXCEPT ![c] = @ + 1] BY DEF Offer
    <3> QED BY <3>1, <3>2, <3>3
  <2>2. CASE Cardinality(flight) < MaxInflight
    <3>1. flight' = flight \cup {a} BY <2>2 DEF Offer, a
    <3> QED BY <2>1, <2>2, <3>1, <1>a, TakeSlot DEF IInv, TInv
  <2>3. CASE ~(Cardinality(flight) < MaxInflight)
    BY <2>1, <2>3 DEF Offer, IInv, TInv
  <2> QED BY <2>2, <2>3
<1>1. TInv' BY <1>u, <1>f DEF IInv, TInv
<1>2. IndexInv' BY <1>u DEF IInv, IndexInv
<1>3. LeaseInv'
  <2>1. \A r \in flight' : r \in Arrivals /\ ArrivalInv(r)
    BY <1>a, <1>b, <1>f DEF IInv, TInv, LeaseInv, FlightOK
  <2>2. \A r \in flight' : ArrivalInv(r)'
    BY <2>1, <1>u, ArrivalKept DEF IInv
  <2> QED BY <2>2, <1>u DEF IInv, LeaseInv, PoolInv
<1> QED BY <1>1, <1>2, <1>3, <1>u, LoadIInv

\* An arrival changes its stage; the pool may change with it.
LEMMA MoveIInv ==
    ASSUME IInv, NEW r \in flight, NEW to \in Arrivals, Move(r, to),
           ArrivalInv(to)', PoolInv', pool' \in [id : Nat, since : Nat, held : BOOLEAN],
           granted' = granted \/ granted' = Append(granted, now),
           UNCHANGED <<pc, now, faults, sched, offered, missed, good, bad, log, compacted,
                       revs, maint, informer, result>>
    PROVE  IInv'
<1>g. granted' \in Seq(Nat)
  <2>1. now \in Nat /\ granted \in Seq(Nat) BY BoundsType DEF IInv, TInv
  <2>2. Append(granted, now) \in Seq(Nat) BY <2>1, AppendFacts, Zenon
  <2> QED BY <2>1, <2>2, Zenon
<1>f. FlightOK(flight') BY KeepSlot DEF IInv, TInv, Move
<1>1. TInv' BY <1>f, <1>g DEF IInv, TInv
<1>2. IndexInv' BY DEF IInv, IndexInv
<1>3. \A q \in flight : ArrivalInv(q)'
  BY ArrivalKept DEF IInv, TInv, LeaseInv, FlightOK
<1>4. LeaseInv' BY <1>3 DEF LeaseInv, Move
<1> QED BY <1>1, <1>2, <1>4, LoadIInv

LEMMA ArrivalFacts ==
    ASSUME IInv, NEW r \in flight
    PROVE  /\ r \in Arrivals /\ ArrivalInv(r) /\ Due(r.class, r.i) \in Nat
           /\ pool \in [id : Nat, since : Nat, held : BOOLEAN] /\ PoolInv
           /\ now \in Nat /\ granted \in Seq(Nat)
<1>1. r \in Arrivals /\ ArrivalInv(r) /\ PoolInv BY DEF IInv, TInv, LeaseInv, FlightOK
<1>2. Due(r.class, r.i) \in Nat BY <1>1, DueType DEF Arrivals
<1>3. now \in Nat BY BoundsType DEF IInv, TInv
<1> QED BY <1>1, <1>2, <1>3 DEF IInv, TInv

\* A request due by now, while now is in the window of grant g, ends one timeout later.
LEMMA DeadlineSum ==
    ASSUME NEW d \in Nat, NEW n \in Nat, NEW g \in Nat, NEW w \in Nat, NEW t \in Nat,
           d <= n, n < g + w + t
    PROVE  d + t < g + w + 2 * t
OBVIOUS

\* A request due before the grant g ends one timeout later, within its window.
LEMMA DeadlineShift ==
    ASSUME NEW d \in Nat, NEW g \in Nat, NEW w \in Nat \ {0}, NEW t \in Nat, d <= g
    PROVE  d + t < g + w + 2 * t
OBVIOUS

LEMMA LeaseCurrentIInv == ASSUME IInv, NEW r \in flight, LeaseCurrent(r) PROVE IInv'
<1>t. /\ r \in Arrivals /\ ArrivalInv(r) /\ pool \in [id : Nat, since : Nat, held : BOOLEAN]
      /\ now \in Nat /\ PoolInv /\ granted \in Seq(Nat) /\ Due(r.class, r.i) \in Nat
  BY ArrivalFacts
<1>u. UNCHANGED <<pc, now, faults, sched, offered, missed, good, bad, log, compacted,
                  revs, granted, maint, informer, result>>
  BY DEF LeaseCurrent
<1>1. CASE PoolValid
  <2>1. PICK to \in Arrivals :
           /\ Move(r, to) /\ pool' = pool
           /\ to.class = r.class /\ to.i = r.i /\ to.at = "put" /\ to.lease = pool.id
    <3> DEFINE q == [r EXCEPT !.at = "put", !.lease = pool.id]
    <3>1. q \in Arrivals /\ q.class = r.class /\ q.i = r.i /\ q.at = "put" /\ q.lease = pool.id
      BY <1>t DEF Arrivals, Stages
    <3>2. Move(r, q) /\ pool' = pool BY <1>1 DEF LeaseCurrent
    <3> QED BY <3>1, <3>2
  <2>2. granted[pool.id] \in Nat /\ pool.since <= granted[pool.id] + RequestTimeout
    BY <1>t, <1>1 DEF PoolInv, PoolValid
  <2>3. now < granted[pool.id] + LeaseWindow + RequestTimeout
    BY <2>2, <1>t, <1>1, BoundsType DEF PoolValid
  <2>4. Deadline(to) < granted[pool.id] + LeaseWindow + 2 * RequestTimeout
    <3>1. Due(to.class, to.i) \in Nat /\ Due(to.class, to.i) <= now
      BY <2>1, <1>t DEF ArrivalInv
    <3>2. Deadline(to) = Due(to.class, to.i) + RequestTimeout BY DEF Deadline
    <3>3. now \in Nat /\ LeaseWindow \in Nat /\ RequestTimeout \in Nat BY <1>t, BoundsType
    <3>4. Due(to.class, to.i) + RequestTimeout
              < granted[pool.id] + LeaseWindow + 2 * RequestTimeout
      BY <3>1, <3>3, <2>2, <2>3, DeadlineSum, Zenon
    <3> QED BY <3>2, <3>4, Zenon
  <2>5. ArrivalInv(to)
    BY <2>1, <2>3, <2>4, <1>t DEF ArrivalInv, PoolInv
  <2>6. ArrivalInv(to)' BY <2>5, <1>u, ArrivalKept DEF IInv
  <2>7. PoolInv' BY <2>1, <1>t, <1>u DEF PoolInv
  <2> QED BY <2>1, <2>6, <2>7, <1>t, <1>u, MoveIInv
<1>2. CASE ~PoolValid
  <2>1. PICK to \in Arrivals :
           /\ Move(r, to) /\ to.class = r.class /\ to.i = r.i /\ to.at = "grant"
           /\ to.lease = r.lease
    <3> DEFINE q == [r EXCEPT !.at = "grant"]
    <3>1. q \in Arrivals /\ q.class = r.class /\ q.i = r.i /\ q.at = "grant" /\ q.lease = r.lease
      BY <1>t DEF Arrivals, Stages
    <3>2. Move(r, q) BY <1>2 DEF LeaseCurrent
    <3> QED BY <3>1, <3>2
  <2>2. pool' = [pool EXCEPT !.held = TRUE] BY <1>2 DEF LeaseCurrent
  <2>3. /\ pool' \in [id : Nat, since : Nat, held : BOOLEAN]
        /\ pool'.id = pool.id /\ pool'.since = pool.since
    BY <2>2, <1>t
  <2>4. ArrivalInv(to) BY <2>1, <1>t DEF ArrivalInv
  <2>5. ArrivalInv(to)' BY <2>4, <1>u, ArrivalKept DEF IInv
  <2>6. PoolInv' BY <2>3, <1>t, <1>u DEF PoolInv
  <2> QED BY <2>1, <2>3, <2>5, <2>6, <1>u, MoveIInv
<1> QED BY <1>1, <1>2

LEMMA GrantAppliedIInv == ASSUME IInv, NEW r \in flight, GrantApplied(r) PROVE IInv'
<1>t. /\ r \in Arrivals /\ ArrivalInv(r) /\ pool \in [id : Nat, since : Nat, held : BOOLEAN]
      /\ now \in Nat /\ PoolInv /\ granted \in Seq(Nat) /\ Due(r.class, r.i) \in Nat
  BY ArrivalFacts
<1>u. UNCHANGED <<pc, now, faults, sched, offered, missed, good, bad, log, compacted,
                  revs, pool, maint, informer, result>>
  BY DEF GrantApplied
<1>g. /\ granted' = Append(granted, now) /\ Len(granted) \in Nat
      /\ Len(granted') = Len(granted) + 1 /\ granted'[Len(granted')] = now
      /\ \A k \in 1..Len(granted) : granted'[k] = granted[k]
  BY <1>t, AppendFacts DEF GrantApplied
<1>1. PICK to \in Arrivals :
         /\ Move(r, to) /\ to.class = r.class /\ to.i = r.i /\ to.at = "granted"
         /\ to.lease = Len(granted')
  <2>0. PICK n \in Nat : n = Len(granted') BY <1>g
  <2> DEFINE q == [r EXCEPT !.at = "granted", !.lease = n]
  <2>1. q \in Arrivals /\ q.class = r.class /\ q.i = r.i /\ q.at = "granted" /\ q.lease = n
    BY <1>t DEF Arrivals, Stages
  <2>2. Move(r, q) BY <2>0 DEF GrantApplied
  <2> HIDE DEF q
  <2> QED BY <2>0, <2>1, <2>2
<1>2. now <= Deadline(to) /\ Due(to.class, to.i) <= now
  BY <1>1, <1>t DEF GrantApplied, Deadline, ArrivalInv
<1>3. ArrivalInv(to)'
  BY <1>1, <1>2, <1>g, <1>u DEF ArrivalInv
<1>4. PoolInv' BY <1>g, <1>u, <1>t DEF PoolInv
<1> QED BY <1>1, <1>3, <1>4, <1>g, <1>t, <1>u, MoveIInv

LEMMA GrantReturnsIInv == ASSUME IInv, NEW r \in flight, GrantReturns(r) PROVE IInv'
<1>t. /\ r \in Arrivals /\ ArrivalInv(r) /\ pool \in [id : Nat, since : Nat, held : BOOLEAN]
      /\ now \in Nat /\ PoolInv /\ granted \in Seq(Nat) /\ Due(r.class, r.i) \in Nat
  BY ArrivalFacts
<1>u. UNCHANGED <<pc, now, faults, sched, offered, missed, good, bad, log, compacted,
                  revs, granted, maint, informer, result>>
  BY DEF GrantReturns
<1>1. PICK to \in Arrivals :
         /\ Move(r, to) /\ to.class = r.class /\ to.i = r.i /\ to.at = "put"
         /\ to.lease = r.lease
  <2> DEFINE q == [r EXCEPT !.at = "put"]
  <2>1. q \in Arrivals /\ q.class = r.class /\ q.i = r.i /\ q.at = "put" /\ q.lease = r.lease
    BY <1>t DEF Arrivals, Stages
  <2>2. Move(r, q) BY DEF GrantReturns
  <2> QED BY <2>1, <2>2
<1>2. /\ r.lease \in Nat \ {0} /\ r.lease \in 0..Len(granted) /\ granted[r.lease] \in Nat
      /\ Deadline(r) = Due(r.class, r.i) + RequestTimeout /\ now <= Deadline(r)
      /\ Due(r.class, r.i) <= granted[r.lease] /\ Due(r.class, r.i) <= now
  <2>1. r.at = "granted" BY DEF GrantReturns
  <2>2. r.lease \in 0..Len(granted) /\ r.lease # 0 /\ Len(granted) \in Nat
    BY <2>1, <1>t DEF ArrivalInv
  <2> QED BY <2>1, <2>2, <1>t DEF ArrivalInv, Deadline
<1>3. /\ pool' \in [id : Nat, since : Nat, held : BOOLEAN]
      /\ pool'.id = r.lease /\ pool'.since = now
  BY <1>2, <1>t DEF GrantReturns
<1>4. PoolInv' BY <1>2, <1>3, <1>t, <1>u, BoundsType DEF PoolInv
<1>5. Deadline(to) = Deadline(r) BY <1>1 DEF Deadline
<1>6. Deadline(r) < granted[r.lease] + LeaseWindow + 2 * RequestTimeout
  <2>1. LeaseWindow \in Nat \ {0} /\ RequestTimeout \in Nat
    BY BoundsType, LeaseAssumption
  <2>2. Due(r.class, r.i) + RequestTimeout < granted[r.lease] + LeaseWindow + 2 * RequestTimeout
    BY <2>1, <1>2, <1>t, DeadlineShift, Zenon
  <2> QED BY <2>2, <1>2, Zenon
<1>7. ArrivalInv(to) BY <1>1, <1>2, <1>5, <1>6 DEF ArrivalInv
<1>8. ArrivalInv(to)' BY <1>7, <1>u, ArrivalKept DEF IInv
<1> QED BY <1>1, <1>3, <1>4, <1>8, <1>u, MoveIInv

\* An arrival that ends: Acknowledge or WriteFails.
LEMMA EndIInv ==
    ASSUME IInv, NEW r \in flight, Acknowledge(r) \/ WriteFails(r)
    PROVE  IInv'
<1>t. /\ r \in Arrivals /\ ArrivalInv(r) /\ pool \in [id : Nat, since : Nat, held : BOOLEAN]
      /\ now \in Nat /\ PoolInv /\ granted \in Seq(Nat)
  BY ArrivalFacts
<1>u. /\ UNCHANGED <<pc, now, sched, offered, missed, log, compacted, granted, maint,
                     informer, result>>
      /\ flight' = flight \ {r}
  BY DEF Acknowledge, WriteFails
<1>c. good' \in [Classes -> Nat] /\ bad' \in [Classes -> Nat] /\ faults' \in 0..MaxFaults
  <2>1. /\ good \in [Classes -> Nat] /\ bad \in [Classes -> Nat] /\ faults \in 0..MaxFaults
        /\ r.class \in Classes
    BY <1>t DEF IInv, TInv, Arrivals
  <2>2. CASE Acknowledge(r) BY <2>1, <2>2 DEF Acknowledge
  <2>3. CASE WriteFails(r)
    BY <2>1, <2>3, BoundsType DEF WriteFails, Fault, MayFault
  <2> QED BY <2>2, <2>3
<1>p. /\ pool' \in [id : Nat, since : Nat, held : BOOLEAN]
      /\ pool'.id = pool.id /\ pool'.since = pool.since
  <2>1. pool' = pool \/ pool' = [pool EXCEPT !.held = FALSE] BY DEF Acknowledge, WriteFails
  <2> QED BY <2>1, <1>t
<1>s. /\ revs' \subseteq [at : Nat, rev : Nat]
      /\ \A s \in revs' : s.rev \in 1..Len(log) /\ log[s.rev].at <= s.at
  <2>1. revs \subseteq [at : Nat, rev : Nat] /\ \A s \in revs : s.rev \in 1..Len(log) /\ log[s.rev].at <= s.at
    BY DEF IInv, TInv, IndexInv, LogInv
  <2>2. CASE Acknowledge(r)
    <3>1. r.rev \in 1..Len(log) /\ log[r.rev].at <= now /\ r.rev \in Nat
      BY <2>2, <1>t DEF Acknowledge, ArrivalInv, Arrivals
    <3> QED BY <2>1, <2>2, <3>1, <1>t DEF Acknowledge
  <2>3. CASE WriteFails(r) BY <2>1, <2>3 DEF WriteFails
  <2> QED BY <2>2, <2>3
<1>1. FlightOK(flight') BY <1>u, LeaveSlot DEF IInv, TInv
<1>2. TInv' BY <1>1, <1>u, <1>c, <1>p, <1>s DEF IInv, TInv
<1>3. IndexInv' BY <1>u, <1>s DEF IInv, IndexInv
<1>4. \A q \in flight' : ArrivalInv(q)'
  BY <1>u, ArrivalKept, ArrivalFacts DEF IInv
<1>5. LeaseInv' BY <1>4, <1>p, <1>u, <1>t DEF LeaseInv, PoolInv
<1>6. MaintInv' BY <1>u DEF IInv, MaintInv
<1>7. LogInv' BY <1>u, <1>s DEF IInv, LogInv
<1> QED BY <1>2, <1>3, <1>5, <1>6, <1>7 DEF IInv

LEMMA PutCommitsIInv == ASSUME IInv, NEW r \in flight, PutCommits(r) PROVE IInv'
<1>t. /\ r \in Arrivals /\ ArrivalInv(r) /\ now \in Nat /\ PoolInv /\ r.class \in Classes
      /\ log \in Seq(Commits) /\ informer \in [Classes -> Informers]
  <2>1. r \in Arrivals /\ ArrivalInv(r) /\ now \in Nat /\ PoolInv BY ArrivalFacts
  <2> QED BY <2>1 DEF IInv, TInv, Arrivals
<1>u. UNCHANGED <<pc, now, faults, sched, offered, missed, good, bad, compacted, revs,
                  granted, pool, maint, result>>
  BY DEF PutCommits
<1>l. /\ log' \in Seq(Commits) /\ Len(log) \in Nat /\ Len(log') = Len(log) + 1
      /\ \A k \in 1..Len(log) : log'[k] = log[k]
      /\ log'[Len(log')].at = now
  <2> DEFINE e == [class |-> r.class, at |-> now]
  <2>1. e \in Commits /\ e.at = now /\ log' = Append(log, e)
    BY <1>t DEF Commits, PutCommits
  <2> HIDE DEF e
  <2>2. /\ Append(log, e) \in Seq(Commits) /\ Len(log) \in Nat
        /\ Len(Append(log, e)) = Len(log) + 1
        /\ \A k \in 1..Len(log) : Append(log, e)[k] = log[k]
        /\ Append(log, e)[Len(log) + 1] = e
    BY <2>1, <1>t, AppendFacts
  <2> QED BY <2>1, <2>2
<1>n. PICK n \in Nat : n = Len(log') BY <1>l
<1>1. PICK to \in Arrivals :
         /\ Move(r, to) /\ to.class = r.class /\ to.i = r.i /\ to.at = "committed"
         /\ to.lease = r.lease /\ to.rev = n
  <2> DEFINE q == [r EXCEPT !.at = "committed", !.rev = n]
  <2>1. /\ q \in Arrivals /\ q.class = r.class /\ q.i = r.i /\ q.at = "committed"
        /\ q.lease = r.lease /\ q.rev = n
    BY <1>t DEF Arrivals, Stages
  <2>2. Move(r, q) BY <1>n DEF PutCommits
  <2> HIDE DEF q
  <2> QED BY <2>1, <2>2
<1>2. ArrivalInv(to)' BY <1>1, <1>n, <1>l, <1>u, <1>t DEF ArrivalInv
<1>3. \A q \in flight : ArrivalInv(q)'
  <2>1. \E c \in Classes : log' = Append(log, [class |-> c, at |-> now])
    BY <1>t DEF PutCommits
  <2> QED BY <2>1, <1>u, ArrivalKept, ArrivalFacts DEF IInv
<1>4. LeaseInv' BY <1>1, <1>2, <1>3, <1>t, <1>u DEF LeaseInv, Move, PoolInv
<1>5. FlightOK(flight') BY <1>1, KeepSlot DEF IInv, TInv, Move
<1>6. /\ informer' \in [Classes -> Informers]
      /\ \A c \in Classes : informer'[c].pos = informer[c].pos \/ informer'[c].pos = n
  <2> DEFINE i == [informer[r.class] EXCEPT !.pos = n]
  <2>1. i \in Informers /\ i.pos = n BY <1>t DEF Informers
  <2>2. informer' = informer \/ informer' = [informer EXCEPT ![r.class] = i]
    BY <1>n DEF PutCommits
  <2> HIDE DEF i
  <2> QED BY <2>1, <2>2, <1>t
<1>7. compacted \in 0..Len(log') BY <1>l DEF IInv, TInv
<1>8. TInv' BY <1>5, <1>6, <1>7, <1>l, <1>u DEF IInv, TInv
<1>9. IndexInv' BY <1>6, <1>n, <1>l, <1>u DEF IInv, IndexInv
<1>10. LogInv'
  <2>1. /\ \A k \in 1..Len(log) : log[k].at <= now
        /\ \A j, k \in 1..Len(log) : j <= k => log[j].at <= log[k].at
        /\ \A s \in revs : log[s.rev].at <= s.at /\ s.rev \in 1..Len(log)
        /\ compacted > 0 => log[compacted].at + CompactInterval <= now
        /\ maint.at = "compact" => log[maint.target].at + CompactInterval <= now
        /\ compacted \in 0..Len(log) /\ maint.target \in 0..Len(log)
        /\ maint.at = "compact" => maint.target > 0
    BY DEF IInv, LogInv, TInv, IndexInv, MaintInv, Maints
  <2>2. \A k \in 1..Len(log') : log'[k].at <= now BY <2>1, <1>l, <1>t
  <2>3. \A j, k \in 1..Len(log') : j <= k => log'[j].at <= log'[k].at
    BY <2>1, <2>2, <1>l
  <2>4. \A s \in revs : log'[s.rev].at <= s.at BY <2>1, <1>l
  <2>5. compacted > 0 => log'[compacted].at + CompactInterval <= now BY <2>1, <1>l
  <2>6. maint.at = "compact" => log'[maint.target].at + CompactInterval <= now BY <2>1, <1>l
  <2> QED BY <2>2, <2>3, <2>4, <2>5, <2>6, <1>u DEF LogInv
<1>11. MaintInv' BY <1>u DEF IInv, MaintInv
<1> QED BY <1>4, <1>8, <1>9, <1>10, <1>11 DEF IInv

LEMMA WriteIInv == ASSUME IInv, NEW r \in flight, Write(r) PROVE IInv'
BY LeaseCurrentIInv, GrantAppliedIInv, GrantReturnsIInv, PutCommitsIInv, EndIInv DEF Write

\* A step of the maintenance goroutine: what is left to show is about the
\* compaction.
LEMMA MaintenanceStep ==
    ASSUME IInv, maint' \in Maints, compacted' \in 0..Len(log), faults' \in 0..MaxFaults,
           maint'.target \in 0..Len(log), MaintInv',
           compacted' > 0 => log[compacted'].at + CompactInterval <= now,
           maint'.at = "compact" => log[maint'.target].at + CompactInterval <= now,
           UNCHANGED <<pc, now, loadVars, log, revs, granted, pool, informer, result>>
    PROVE  IInv'
<1> USE DEF loadVars
<1>1. TInv' BY DEF IInv, TInv
<1>2. IndexInv' BY DEF IInv, IndexInv
<1>3. LeaseInv' BY DEF IInv, LeaseInv, ArrivalInv, PoolInv
<1>4. LogInv' BY DEF IInv, LogInv
<1> QED BY <1>1, <1>2, <1>3, <1>4 DEF IInv

LEMMA MaintFacts ==
    ASSUME IInv
    PROVE  /\ maint \in Maints /\ maint.target \in 0..Len(log) /\ compacted \in 0..Len(log)
           /\ faults \in 0..MaxFaults /\ Len(log) \in Nat /\ now \in Nat
           /\ compacted > 0 => log[compacted].at + CompactInterval <= now
           /\ maint.at = "compact" => log[maint.target].at + CompactInterval <= now
           /\ MaintInv
BY BoundsType DEF IInv, TInv, IndexInv, LogInv

LEMMA MaintTickIInv == ASSUME IInv, MaintTick PROVE IInv'
<1>t. /\ maint \in Maints /\ maint.target \in 0..Len(log) /\ compacted \in 0..Len(log)
      /\ faults \in 0..MaxFaults /\ Len(log) \in Nat /\ now \in Nat
      /\ compacted > 0 => log[compacted].at + CompactInterval <= now
      /\ MaintInv
  BY MaintFacts
<1> DEFINE cutoff == now - CompactInterval
           rev == compactTarget(revs, cutoff)
<1>c. cutoff \in Int BY <1>t, BoundsType
<1>1. /\ rev \in 0..Len(log)
      /\ rev # 0 => \E s \in revs : s.at <= cutoff /\ s.rev = rev
  <2> HIDE DEF cutoff
  <2> QED BY <1>c, CompactTargetFacts DEF IInv
<1>2. rev # 0 => log[rev].at + CompactInterval <= now
  <2> SUFFICES ASSUME rev # 0 PROVE log[rev].at + CompactInterval <= now
    OBVIOUS
  <2> HIDE DEF rev
  <2>1. PICK s \in revs : s.at <= cutoff /\ s.rev = rev BY <1>1
  <2>2. s.at \in Nat /\ log[s.rev].at <= s.at BY DEF IInv, TInv, LogInv
  <2>3. log[rev].at \in Nat
    <3>1. rev \in 1..Len(log) /\ log \in Seq(Commits) BY <1>1, <1>t DEF IInv, TInv
    <3>2. log[rev] \in Commits BY <3>1
    <3> QED BY <3>2 DEF Commits
  <2> QED BY <2>1, <2>2, <2>3, <1>t, BoundsType
<1>u. UNCHANGED <<pc, now, faults, loadVars, log, compacted, revs, granted, pool, informer, result>>
  BY DEF MaintTick, etcdVars
<1>3. CASE rev <= maint.compacted
  <2>1. maint' = [maint EXCEPT !.ticked = FALSE] /\ maint.at = "select"
    BY <1>3 DEF MaintTick
  <2>2. /\ maint' \in Maints /\ maint'.at = "select" /\ maint'.target = maint.target
        /\ maint'.compacted = maint.compacted /\ maint'.errors = maint.errors
        /\ maint'.lost = maint.lost
    BY <2>1, <1>t DEF Maints
  <2> HIDE DEF rev
  <2>3. MaintInv' BY <2>2, <1>t, <1>u DEF MaintInv
  <2> QED BY <2>2, <2>3, <1>t, <1>u, MaintenanceStep
<1>4. CASE ~(rev <= maint.compacted)
  <2>1. maint' = [maint EXCEPT !.ticked = FALSE, !.at = "compact", !.target = rev]
    BY <1>4 DEF MaintTick
  <2> HIDE DEF rev
  <2>2. rev \in Nat /\ maint.compacted \in Nat /\ rev > maint.compacted /\ rev # 0
    BY <1>1, <1>4, <1>t DEF Maints
  <2>3. /\ maint' \in Maints /\ maint'.at = "compact" /\ maint'.target = rev
        /\ maint'.compacted = maint.compacted /\ maint'.errors = maint.errors
        /\ maint'.lost = maint.lost
    BY <2>1, <2>2, <1>t DEF Maints
  <2>4. MaintInv' BY <2>2, <2>3, <1>t, <1>u DEF MaintInv
  <2> QED BY <1>1, <1>2, <2>2, <2>3, <2>4, <1>t, <1>u, MaintenanceStep
<1> QED BY <1>3, <1>4

\* A compaction: applied, refused because an earlier one was applied without
\* the goroutine knowing, or failed with or without effect.
LEMMA CompactIInv ==
    ASSUME IInv, MaintCompacts \/ MaintCompactRefused \/ MaintCompactFails
    PROVE  IInv'
<1>t. /\ maint \in Maints /\ maint.target \in 0..Len(log) /\ compacted \in 0..Len(log)
      /\ faults \in 0..MaxFaults /\ Len(log) \in Nat /\ now \in Nat
      /\ compacted > 0 => log[compacted].at + CompactInterval <= now
      /\ maint.at = "compact" => log[maint.target].at + CompactInterval <= now
      /\ MaintInv
  BY MaintFacts
<1>a. AfterCompact \in {"defrag", "select"} BY DEF AfterCompact
<1>m. /\ maint.at = "compact" /\ maint.target > maint.compacted /\ maint.compacted \in Nat
      /\ maint.errors \in Nat /\ maint.lost \in Nat /\ maint.target \in Nat
  BY <1>t DEF MaintCompacts, MaintCompactRefused, MaintCompactFails, MaintInv, Maints
<1>u. UNCHANGED <<pc, now, loadVars, log, revs, granted, pool, informer, result>>
  BY DEF MaintCompacts, MaintCompactRefused, MaintCompactFails, etcdVars
<1>1. CASE MaintCompacts
  <2>1. /\ maint' = [maint EXCEPT !.at = AfterCompact, !.compacted = maint.target]
        /\ compacted' = maint.target /\ faults' = faults
    BY <1>1 DEF MaintCompacts
  <2>2. /\ maint' \in Maints /\ maint'.at \in {"defrag", "select"} /\ maint'.target = maint.target
        /\ maint'.compacted = maint.target /\ maint'.errors = maint.errors
        /\ maint'.lost = maint.lost
    BY <2>1, <1>t, <1>a, <1>m DEF Maints
  <2>3. MaintInv' BY <2>1, <2>2, <1>t DEF MaintInv
  <2> QED BY <2>1, <2>2, <2>3, <1>m, <1>t, <1>u, MaintenanceStep
<1>2. CASE MaintCompactRefused
  <2>1. /\ maint' = [maint EXCEPT !.at = AfterCompact, !.errors = @ + 1]
        /\ compacted' = compacted /\ faults' = faults /\ maint.target <= compacted
    BY <1>2 DEF MaintCompactRefused, etcdVars
  <2>2. /\ maint' \in Maints /\ maint'.at \in {"defrag", "select"} /\ maint'.target = maint.target
        /\ maint'.compacted = maint.compacted /\ maint'.lost = maint.lost
    <3>1. PICK e \in Nat : e = maint.errors + 1 BY <1>m
    <3>2. maint' = [maint EXCEPT !.at = AfterCompact, !.errors = e] BY <2>1, <3>1
    <3> QED BY <3>2, <1>a, <1>t DEF Maints
  <2>3. compacted # maint.compacted BY <2>1, <1>m, <1>t
  <2>4. maint.lost > 0 BY <2>3, <1>t DEF MaintInv
  <2>5. MaintInv' BY <2>2, <2>4 DEF MaintInv
  <2> QED BY <2>1, <2>2, <2>5, <1>m, <1>t, <1>u, MaintenanceStep
<1>3. CASE MaintCompactFails
  <2>1. /\ maint' = [maint EXCEPT !.at = AfterCompact, !.errors = @ + 1, !.lost = @ + 1]
        /\ faults' = faults + 1 /\ faults < MaxFaults
        /\ compacted' = compacted \/ compacted' = Max({compacted, maint.target})
    BY <1>3 DEF MaintCompactFails, Fault, MayFault
  <2>2. /\ maint' \in Maints /\ maint'.at \in {"defrag", "select"} /\ maint'.target = maint.target
        /\ maint'.lost = maint.lost + 1
    <3>1. PICK e \in Nat : e = maint.errors + 1 BY <1>m
    <3>2. PICK l \in Nat : l = maint.lost + 1 BY <1>m
    <3>3. maint' = [maint EXCEPT !.at = AfterCompact, !.errors = e, !.lost = l]
      BY <2>1, <3>1, <3>2
    <3>4. /\ maint' \in Maints /\ maint'.at \in {"defrag", "select"} /\ maint'.target = maint.target
          /\ maint'.lost = l
      BY <3>3, <1>a, <1>t DEF Maints
    <3> QED BY <3>2, <3>4
  <2>3. compacted' = compacted \/ compacted' = maint.target
    <3>1. compacted \in Nat /\ maint.target \in Nat BY <1>t, <1>m
    <3>2. Max({compacted, maint.target}) \in {compacted, maint.target} BY <3>1, MaxOfTwo
    <3> QED BY <2>1, <3>2
  <2>4. MaintInv' BY <2>2, <1>m DEF MaintInv
  <2>5. faults' \in 0..MaxFaults BY <2>1, <1>t, BoundsType
  <2> QED BY <2>2, <2>3, <2>4, <2>5, <1>m, <1>t, <1>u, MaintenanceStep
<1> QED BY <1>1, <1>2, <1>3

LEMMA DefragIInv == ASSUME IInv, MaintDefrag \/ MaintStops PROVE IInv'
<1>t. /\ maint \in Maints /\ maint.target \in 0..Len(log) /\ compacted \in 0..Len(log)
      /\ faults \in 0..MaxFaults /\ Len(log) \in Nat /\ now \in Nat
      /\ compacted > 0 => log[compacted].at + CompactInterval <= now
      /\ MaintInv
  BY MaintFacts
<1>m. maint.errors \in Nat /\ maint.lost \in Nat BY <1>t DEF Maints
<1>u. UNCHANGED <<pc, now, loadVars, log, compacted, revs, granted, pool, informer, result>>
  BY DEF MaintDefrag, MaintStops, etcdVars
<1>1. CASE MaintDefrag
  <2>1. PICK failed \in 0..Members :
           /\ faults + failed <= MaxFaults /\ faults' = faults + failed
           /\ maint' = [maint EXCEPT !.at = "select", !.errors = @ + failed, !.lost = @ + failed]
    BY <1>1 DEF MaintDefrag
  <2>2. failed \in Nat BY BoundsType
  <2>3. /\ maint' \in Maints /\ maint'.at = "select" /\ maint'.target = maint.target
        /\ maint'.compacted = maint.compacted
        /\ maint'.errors = maint.errors + failed /\ maint'.lost = maint.lost + failed
    <3>1. PICK e \in Nat : e = maint.errors + failed BY <2>2, <1>m
    <3>2. PICK l \in Nat : l = maint.lost + failed BY <2>2, <1>m
    <3>3. maint' = [maint EXCEPT !.at = "select", !.errors = e, !.lost = l]
      BY <2>1, <3>1, <3>2
    <3>4. /\ maint' \in Maints /\ maint'.at = "select" /\ maint'.target = maint.target
          /\ maint'.compacted = maint.compacted /\ maint'.errors = e /\ maint'.lost = l
      BY <3>3, <1>t DEF Maints
    <3> QED BY <3>1, <3>2, <3>4
  <2>4. MaintInv' BY <2>2, <2>3, <1>t, <1>m, <1>u DEF MaintInv
  <2>5. faults' \in 0..MaxFaults BY <2>1, <2>2, <1>t, BoundsType
  <2> QED BY <2>3, <2>4, <2>5, <1>t, <1>u, MaintenanceStep
<1>2. CASE MaintStops
  <2>1. maint' = [maint EXCEPT !.at = "ended"] /\ faults' = faults BY <1>2 DEF MaintStops
  <2>2. /\ maint' \in Maints /\ maint'.at = "ended" /\ maint'.target = maint.target
        /\ maint'.compacted = maint.compacted
        /\ maint'.errors = maint.errors /\ maint'.lost = maint.lost
    BY <2>1, <1>t DEF Maints
  <2>3. MaintInv' BY <2>2, <1>t, <1>u DEF MaintInv
  <2> QED BY <2>1, <2>2, <2>3, <1>t, <1>u, MaintenanceStep
<1> QED BY <1>1, <1>2

LEMMA TickIInv == ASSUME IInv, Tick PROVE IInv'
<1> USE DEF loadVars, etcdVars
<1>u. UNCHANGED <<pc, faults, loadVars, etcdVars, informer, result>> BY DEF Tick
<1>n. now' = now + 1 /\ now \in Nat /\ now' \in 0..MaxClock
  BY BoundsType DEF Tick, IInv, TInv
<1>m. /\ maint' \in Maints /\ maint'.at = maint.at /\ maint'.target = maint.target
      /\ maint'.compacted = maint.compacted
      /\ maint'.errors = maint.errors /\ maint'.lost = maint.lost
  <2>1. PICK b \in BOOLEAN : maint' = [maint EXCEPT !.ticked = b]
    <3>1. (maint.ticked \/ (maint.at \notin {"off", "ended"} /\ now' % CompactInterval = 0)) \in BOOLEAN
      OBVIOUS
    <3> QED BY <3>1 DEF Tick
  <2> QED BY <2>1 DEF IInv, TInv, Maints
<1>1. TInv' BY <1>u, <1>n, <1>m DEF IInv, TInv
<1>2. IndexInv' BY <1>u, <1>m DEF IInv, IndexInv
<1>3. ASSUME NEW r \in flight PROVE ArrivalInv(r)'
  <2>1. r \in Arrivals /\ ArrivalInv(r) /\ Due(r.class, r.i) \in Nat /\ granted \in Seq(Nat)
    BY ArrivalFacts
  <2>2. r.at # "lease" => now < Deadline(r)
    BY <2>1, <1>n, BoundsType DEF Tick, Urgent, Deadline
  <2>3. Deadline(r) \in Nat BY <2>1, BoundsType DEF Deadline
  <2>4. r.at = "committed" => log[r.rev].at \in Nat
    <3>1. r.at = "committed" => r.rev \in 1..Len(log) BY <2>1 DEF ArrivalInv
    <3>2. \A k \in 1..Len(log) : log[k] \in Commits BY DEF IInv, TInv
    <3> QED BY <3>1, <3>2 DEF Commits
  <2>5. now' <= Deadline(r) \/ r.at = "lease" BY <2>2, <2>3, <1>n
  <2> QED BY <2>1, <2>3, <2>4, <2>5, <1>n, <1>u DEF ArrivalInv
<1>4. LeaseInv' BY <1>3, <1>u DEF IInv, LeaseInv, PoolInv
<1>5. MaintInv' BY <1>u, <1>m DEF IInv, MaintInv
<1>6. LogInv'
  <2>1. \A k \in 1..Len(log) : log[k].at \in Nat
    <3>1. \A k \in 1..Len(log) : log[k] \in Commits BY DEF IInv, TInv
    <3> QED BY <3>1 DEF Commits
  <2>2. /\ compacted > 0 => compacted \in 1..Len(log)
        /\ maint.at = "compact" => maint.target \in 1..Len(log)
    BY DEF IInv, TInv, IndexInv, MaintInv, Maints
  <2> QED BY <2>1, <2>2, <1>n, <1>u, <1>m, BoundsType DEF IInv, LogInv
<1> QED BY <1>1, <1>2, <1>4, <1>5, <1>6 DEF IInv

LEMMA StepIInv == IInv /\ [Next]_vars => IInv'
<1> SUFFICES ASSUME IInv, [Next]_vars PROVE IInv'
  OBVIOUS
<1>1. CASE PreloadFails \/ PreloadK8sClasses BY <1>1, PreloadIInv, PreloadClassesIInv
<1>2. CASE \E c \in Classes : Offer(c) BY <1>2, OfferIInv
<1>3. CASE \E r \in flight : Write(r) BY <1>3, WriteIInv
<1>4. CASE Maintenance BY <1>4, MaintTickIInv, CompactIInv, DefragIInv DEF Maintenance
<1>5. CASE \E c \in Classes : ConnectionLost(c) \/ InformerResumes(c) BY <1>5, InformerIInv
<1>6. CASE LoadJoined \/ MaintJoined \/ Judge BY <1>6, JoinIInv
<1>7. CASE Tick BY <1>7, TickIInv
<1>8. CASE UNCHANGED vars
  <2> USE <1>8 DEF vars, loadVars, etcdVars
  <2>1. TInv' BY DEF IInv, TInv
  <2>2. \A c \in Classes : informer'[c].pos \in 0..Len(log') BY DEF IInv, IndexInv
  <2>3. Quiet BY DEF Quiet
  <2> QED BY <2>1, <2>2, <2>3, QuietIInv
<1> QED BY <1>1, <1>2, <1>3, <1>4, <1>5, <1>6, <1>7, <1>8 DEF Next, Finished

-----------------------------------------------------------------------------
(* The theorems. *)

LEMMA SafetyFromIInv == Spec => []IInv
BY InitIInv, StepIInv, PTL DEF Spec

\* The variables keep their types and sem is never oversubscribed, for any
\* number of classes and slots.
THEOREM TypeCorrect == Spec => []TypeOK
<1>1. IInv => TypeOK
  <2> SUFFICES ASSUME IInv PROVE TypeOK OBVIOUS
  <2>1. \A r \in flight : r.class \in Classes /\ r.at \in Stages /\ r.lease \in 0..Len(granted)
    BY DEF IInv, TInv, LeaseInv, ArrivalInv, FlightOK, Arrivals
  <2>2. DOMAIN log = 1..Len(log) BY DEF IInv, TInv
  <2>3. \A f \in {sched, offered, missed, good, bad} : f \in [Classes -> Nat]
    BY DEF IInv, TInv
  <2>4. pool.held \in BOOLEAN /\ pool.id \in 0..Len(granted)
    BY DEF IInv, TInv, LeaseInv, PoolInv
  <2>5. maint.at \in {"off", "select", "compact", "defrag", "ended"}
    BY DEF IInv, TInv, Maints
  <2>6. \A s \in revs : s.rev \in DOMAIN log BY <2>2 DEF IInv, IndexInv
  <2> QED BY <2>1, <2>3, <2>4, <2>5, <2>6 DEF IInv, TInv, IndexInv, FlightOK, TypeOK
<1> QED BY <1>1, SafetyFromIInv, PTL

\* A lease handed out by ttlLeasePool.current outlives the put it was handed
\* out for, for any window and timeout with window + 2 * timeout <= TTL: one
\* timeout for the answer of the grant, one for the put.
THEOREM LeasesOutlivePuts == Spec => []LeaseOutlivesPut
<1>1. IInv => LeaseOutlivesPut
  <2> SUFFICES ASSUME IInv, NEW r \in flight, r.at = "put", r.lease # 0
               PROVE  now < granted[r.lease] + EventTTL
    BY DEF LeaseOutlivesPut, LeaseLive
  <2>1. /\ r \in Arrivals /\ ArrivalInv(r) /\ Due(r.class, r.i) \in Nat /\ now \in Nat
        /\ granted \in Seq(Nat)
    BY ArrivalFacts
  <2>2. granted[r.lease] \in Nat
    <3>1. r.lease \in 1..Len(granted) BY <2>1 DEF ArrivalInv
    <3> QED BY <3>1, <2>1
  <2>3. Deadline(r) \in Nat BY <2>1, BoundsType DEF Deadline
  <2>4. /\ Deadline(r) < granted[r.lease] + LeaseWindow + 2 * RequestTimeout
        /\ now <= Deadline(r) \/ now < granted[r.lease] + LeaseWindow + RequestTimeout
    BY <2>1 DEF ArrivalInv
  <2>5. PICK g \in Nat : g = granted[r.lease] BY <2>2
  <2>6. now \in Nat BY <2>1
  <2>7. /\ Deadline(r) < g + LeaseWindow + 2 * RequestTimeout
        /\ now <= Deadline(r) \/ now < g + LeaseWindow + RequestTimeout
    BY <2>4, <2>5
  <2>8. now < g + EventTTL
    BY <2>3, <2>6, <2>7, BoundsType, LeaseAssumption
  <2> QED BY <2>5, <2>8
<1> QED BY <1>1, SafetyFromIInv, PTL

\* The maintenance goroutine reports an error only after one of its calls
\* failed, for any interval and any number of members.
THEOREM MaintenanceErrorsExplained == Spec => []MaintenanceErrorHasCause
<1>1. IInv => MaintenanceErrorHasCause BY DEF IInv, MaintInv, MaintenanceErrorHasCause
<1> QED BY <1>1, SafetyFromIInv, PTL

\* Compacting to a revision acknowledged one interval ago never cancels an
\* informer whose next event is younger than an interval.
THEOREM InformersKept == Spec => InformersKeptForAnInterval
<1>1. ASSUME IInv, Next, NEW c \in Classes, informer[c].at = "watching", informer'[c].at = "error"
      PROVE  log[informer[c].pos + 1].at + CompactInterval <= now
  <2>t. informer \in [Classes -> Informers] /\ informer[c].pos \in 0..Len(log) /\ Len(log) \in Nat
        /\ compacted \in 0..Len(log) /\ now \in Nat
    BY <1>1, BoundsType DEF IInv, TInv, IndexInv
  <2>1. informer[c].pos + 1 < compacted
    <3> USE DEF loadVars, etcdVars
    <3>1. CASE \E d \in Classes : InformerResumes(d)
      <4>1. PICK d \in Classes : InformerResumes(d) BY <3>1
      <4>2. CASE d # c BY <4>1, <4>2, <1>1, <2>t DEF InformerResumes
      <4>3. CASE d = c
        <5>1. CASE ~(informer[c].pos + 1 < compacted)
          <6>1. informer' = [informer EXCEPT ![c] = [informer[c] EXCEPT !.up = TRUE, !.pos = LastOf(c)]]
            BY <4>1, <4>3, <5>1, <2>t DEF InformerResumes, Informers
          <6>2. informer'[c].at = informer[c].at BY <6>1, <2>t DEF Informers
          <6> QED BY <6>2, <1>1
        <5> QED BY <5>1
      <4> QED BY <4>2, <4>3
    <3>2. CASE \E d \in Classes : ConnectionLost(d)
      <4>1. PICK d \in Classes : ConnectionLost(d) BY <3>2
      <4>2. informer' = [informer EXCEPT ![d] = [informer[d] EXCEPT !.up = FALSE]]
        BY <4>1 DEF ConnectionLost
      <4>3. informer'[c].at = informer[c].at BY <4>2, <2>t DEF Informers
      <4> QED BY <4>3, <1>1
    <3>3. CASE PreloadK8sClasses
      <4>1. informer'[c] = [informer[c] EXCEPT !.at = "watching"] BY <3>3 DEF PreloadK8sClasses
      <4>2. informer'[c].at = "watching" BY <4>1, <2>t DEF Informers
      <4> QED BY <4>2, <1>1
    <3>4. CASE MaintJoined
      <4>1. informer'[c] = [informer[c] EXCEPT !.at = IF informer[c].at = "error"
                                                     THEN informer[c].at ELSE "off"]
        BY <3>4 DEF MaintJoined
      <4>2. informer'[c].at = "off" BY <4>1, <2>t, <1>1 DEF Informers
      <4> QED BY <4>2, <1>1
    <3>5. CASE \E r \in flight : Write(r)
      <4>1. PICK r \in flight : Write(r) BY <3>5
      <4>2. CASE PutCommits(r)
        <5>1. r.class \in Classes BY ArrivalFacts, <1>1 DEF Arrivals
        <5>2. \/ informer' = informer
              \/ informer' = [informer EXCEPT ![r.class] = [informer[r.class] EXCEPT !.pos = Len(log')]]
          BY <4>2 DEF PutCommits
        <5>3. informer'[c].at = informer[c].at BY <5>1, <5>2, <2>t DEF Informers
        <5> QED BY <5>3, <1>1
      <4>3. CASE ~PutCommits(r)
        BY <4>1, <4>3, <1>1 DEF Write, LeaseCurrent, GrantApplied, GrantReturns, Acknowledge, WriteFails
      <4> QED BY <4>2, <4>3
    <3>6. CASE PreloadFails \/ LoadJoined \/ Judge \/ Tick \/ Finished \/ \E d \in Classes : Offer(d)
      BY <3>6, <1>1 DEF PreloadFails, LoadJoined, Judge, Tick, Finished, Offer, vars
    <3>7. CASE Maintenance
      BY <3>7, <1>1 DEF Maintenance, MaintTick, MaintCompacts, MaintCompactRefused,
         MaintCompactFails, MaintDefrag, MaintStops
    <3> QED BY <1>1, <3>1, <3>2, <3>3, <3>4, <3>5, <3>6, <3>7 DEF Next
  <2>2. log[informer[c].pos + 1].at <= log[compacted].at
    <3>1. informer[c].pos + 1 \in 1..Len(log) /\ compacted \in 1..Len(log)
          /\ informer[c].pos + 1 <= compacted
      BY <2>1, <2>t
    <3> QED BY <3>1, <1>1 DEF IInv, LogInv
  <2>3. log[compacted].at + CompactInterval <= now
    BY <2>1, <2>t, <1>1 DEF IInv, LogInv
  <2>4. log[informer[c].pos + 1].at \in Nat /\ log[compacted].at \in Nat
    <3>1. \A k \in 1..Len(log) : log[k] \in Commits BY <1>1 DEF IInv, TInv
    <3> QED BY <3>1, <2>1, <2>t DEF Commits
  <2> QED BY <2>2, <2>3, <2>4, <2>t, BoundsType
<1>2. IInv /\ [Next]_vars =>
        [\A c \in Classes :
            informer[c].at = "watching" /\ informer'[c].at = "error" =>
                log[informer[c].pos + 1].at + CompactInterval <= now]_vars
  BY <1>1
<1> QED BY <1>2, InitIInv, StepIInv, PTL DEF Spec, InformersKeptForAnInterval

-----------------------------------------------------------------------------
(* The accounting of arrivals: every one that was offered is counted once, *)
(* missed, in flight, good or bad, and the commits in the log lie between  *)
(* the successes and the arrivals that have ended.                         *)

Of(F, c) == {r \in F : r.class = c}
CommittedOf(F, c) == {r \in F : r.class = c /\ r.at = "committed"}
WritesOf(L, c) == {k \in DOMAIN L : L[k].class = c}

\* Arrivals are in flight only during the load, and the verdict is last.
PhaseInv == (flight # {} => pc = "load") /\ (result # "none" <=> pc = "done")

\* An arrival is its class and its turn: no turn is taken twice.
TurnInv ==
    /\ \A r \in flight : r.i < sched[r.class]
    /\ \A r, q \in flight : r.class = q.class /\ r.i = q.i => r = q

\* What was offered is accounted for.
CountInv ==
    \A c \in Classes :
        offered[c] = good[c] + bad[c] + missed[c] + Cardinality(Of(flight, c))

\* The log has what was acknowledged, and nothing that was not attempted.
WriteInv ==
    \A c \in Classes :
        /\ good[c] + Cardinality(CommittedOf(flight, c)) <= Cardinality(WritesOf(log, c))
        /\ Cardinality(WritesOf(log, c))
             <= good[c] + bad[c] + Cardinality(CommittedOf(flight, c))

AInv == PhaseInv /\ TurnInv /\ CountInv /\ WriteInv

LEMMA PartsFinite ==
    ASSUME NEW F, IsFiniteSet(F), NEW c
    PROVE  /\ IsFiniteSet(Of(F, c)) /\ IsFiniteSet(CommittedOf(F, c))
           /\ Cardinality(Of(F, c)) \in Nat /\ Cardinality(CommittedOf(F, c)) \in Nat
<1>1. Of(F, c) \in SUBSET F /\ CommittedOf(F, c) \in SUBSET F BY DEF Of, CommittedOf
<1>2. IsFiniteSet(Of(F, c)) /\ IsFiniteSet(CommittedOf(F, c)) BY <1>1, FS_Subset
<1> QED BY <1>2, FS_CardinalityType

\* A new arrival is counted in its class and in no other.
LEMMA PartsGrow ==
    ASSUME NEW F, IsFiniteSet(F), NEW a, a \notin F, NEW c
    PROVE  /\ Cardinality(Of(F \cup {a}, c))
                = Cardinality(Of(F, c)) + IF a.class = c THEN 1 ELSE 0
           /\ Cardinality(CommittedOf(F \cup {a}, c))
                = Cardinality(CommittedOf(F, c))
                    + IF a.class = c /\ a.at = "committed" THEN 1 ELSE 0
<1>1. /\ IsFiniteSet(Of(F, c)) /\ IsFiniteSet(CommittedOf(F, c))
      /\ Cardinality(Of(F, c)) \in Nat /\ Cardinality(CommittedOf(F, c)) \in Nat
  BY PartsFinite
<1>2. a \notin Of(F, c) /\ a \notin CommittedOf(F, c) BY DEF Of, CommittedOf
<1>3. Of(F \cup {a}, c) = IF a.class = c THEN Of(F, c) \cup {a} ELSE Of(F, c) BY DEF Of
<1>4. CommittedOf(F \cup {a}, c)
        = IF a.class = c /\ a.at = "committed" THEN CommittedOf(F, c) \cup {a}
          ELSE CommittedOf(F, c)
  BY DEF CommittedOf
<1>5. Cardinality(Of(F, c) \cup {a}) = Cardinality(Of(F, c)) + 1
  BY <1>1, <1>2, FS_AddElement
<1>6. Cardinality(CommittedOf(F, c) \cup {a}) = Cardinality(CommittedOf(F, c)) + 1
  BY <1>1, <1>2, FS_AddElement
<1> QED BY <1>1, <1>3, <1>4, <1>5, <1>6

LEMMA PartsShrink ==
    ASSUME NEW F, IsFiniteSet(F), NEW a \in F, NEW c
    PROVE  /\ Cardinality(Of(F, c))
                = Cardinality(Of(F \ {a}, c)) + IF a.class = c THEN 1 ELSE 0
           /\ Cardinality(CommittedOf(F, c))
                = Cardinality(CommittedOf(F \ {a}, c))
                    + IF a.class = c /\ a.at = "committed" THEN 1 ELSE 0
<1> DEFINE G == F \ {a}
<1>1. IsFiniteSet(G) /\ a \notin G /\ G \cup {a} = F BY FS_RemoveElement
<1> HIDE DEF G
<1>2. /\ Cardinality(Of(G \cup {a}, c)) = Cardinality(Of(G, c)) + IF a.class = c THEN 1 ELSE 0
      /\ Cardinality(CommittedOf(G \cup {a}, c))
           = Cardinality(CommittedOf(G, c))
               + IF a.class = c /\ a.at = "committed" THEN 1 ELSE 0
  BY <1>1, PartsGrow
<1> QED BY <1>1, <1>2 DEF G

\* A commit is counted in its class and in no other.
LEMMA WritesGrow ==
    ASSUME NEW L \in Seq(Commits), NEW e \in Commits, NEW c
    PROVE  /\ Cardinality(WritesOf(L, c)) \in Nat
           /\ Cardinality(WritesOf(Append(L, e), c))
                = Cardinality(WritesOf(L, c)) + IF e.class = c THEN 1 ELSE 0
<1> DEFINE n == Len(L)
           M == Append(L, e)
<1>1. /\ n \in Nat /\ DOMAIN L = 1..n /\ DOMAIN M = 1..(n + 1) /\ n + 1 \notin 1..n
      /\ \A k \in 1..n : M[k] = L[k]
      /\ M[n + 1] = e
  OBVIOUS
<1>2. IsFiniteSet(1..n) BY <1>1, FS_Interval
<1>3. WritesOf(L, c) \in SUBSET (1..n) BY <1>1 DEF WritesOf
<1>4. IsFiniteSet(WritesOf(L, c)) /\ Cardinality(WritesOf(L, c)) \in Nat
  BY <1>2, <1>3, FS_Subset, FS_CardinalityType
<1> HIDE DEF n, M
<1>5. WritesOf(M, c)
        = IF e.class = c THEN WritesOf(L, c) \cup {n + 1} ELSE WritesOf(L, c)
  <2>1. 1..(n + 1) = (1..n) \cup {n + 1} BY <1>1
  <2> QED BY <1>1, <2>1 DEF WritesOf
<1>6. n + 1 \notin WritesOf(L, c) BY <1>1, <1>3
<1>7. Cardinality(WritesOf(L, c) \cup {n + 1}) = Cardinality(WritesOf(L, c)) + 1
  BY <1>4, <1>6, FS_AddElement
<1> QED BY <1>4, <1>5, <1>7 DEF M

LEMMA WritesType ==
    ASSUME IInv, NEW c PROVE Cardinality(WritesOf(log, c)) \in Nat
<1>1. log \in Seq(Commits) BY DEF IInv, TInv
<1>2. IsFiniteSet(1..Len(log)) BY <1>1, FS_Interval
<1>3. WritesOf(log, c) \in SUBSET (1..Len(log)) BY <1>1 DEF WritesOf
<1> QED BY <1>2, <1>3, FS_Subset, FS_CardinalityType

LEMMA AccountTypes ==
    ASSUME IInv, NEW c \in Classes
    PROVE  /\ offered[c] \in Nat /\ good[c] \in Nat /\ bad[c] \in Nat /\ missed[c] \in Nat
           /\ sched[c] \in Nat
           /\ Cardinality(Of(flight, c)) \in Nat
           /\ Cardinality(CommittedOf(flight, c)) \in Nat
           /\ Cardinality(WritesOf(log, c)) \in Nat
           /\ IsFiniteSet(flight)
<1>1. IsFiniteSet(flight) BY DEF IInv, TInv, FlightOK
<1>2. Cardinality(Of(flight, c)) \in Nat /\ Cardinality(CommittedOf(flight, c)) \in Nat
  BY <1>1, PartsFinite
<1> QED BY <1>1, <1>2, WritesType DEF IInv, TInv

\* Steps that touch neither arrivals nor counters.
LEMMA OtherAInv ==
    ASSUME IInv, AInv, PhaseInv', UNCHANGED <<loadVars, log>>
    PROVE  AInv'
BY DEF AInv, TurnInv, CountInv, WriteInv, loadVars

LEMMA OfferAInv == ASSUME IInv, AInv, NEW c \in Classes, Offer(c) PROVE AInv'
<1> DEFINE a == [class |-> c, i |-> sched[c], lease |-> 0, rev |-> 0,
                 at |-> IF c \in TTLClasses THEN "lease" ELSE "put"]
<1>a. a.class = c /\ a.i = sched[c] /\ a.at # "committed" OBVIOUS
<1>t. /\ sched \in [Classes -> Nat] /\ offered \in [Classes -> Nat]
      /\ missed \in [Classes -> Nat]
      /\ \A r \in flight : r \in Arrivals
  BY DEF IInv, TInv, FlightOK
<1>n. a \notin flight BY <1>a, <1>t DEF AInv, TurnInv
<1>u. /\ UNCHANGED <<pc, good, bad, log, result>> /\ pc = "load"
      /\ sched' = [sched EXCEPT ![c] = @ + 1]
      /\ offered' = [offered EXCEPT ![c] = @ + 1]
  BY DEF Offer, etcdVars
<1>c. \/ flight' = flight \cup {a} /\ missed' = missed
      \/ flight' = flight /\ missed' = [missed EXCEPT ![c] = @ + 1]
  BY DEF Offer
<1> HIDE DEF a
<1>1. PhaseInv' BY <1>u DEF AInv, PhaseInv
<1>2. TurnInv'
  <2>1. \A r \in flight : /\ r.class \in Classes /\ r.i \in Nat /\ r.i < sched[r.class]
                          /\ r.class = c => r.i # sched[c]
    BY <1>t DEF AInv, TurnInv, Arrivals
  <2>2. flight' \subseteq flight \cup {a} BY <1>c
  <2>3. \A r \in flight' : r.i < sched'[r.class] BY <2>1, <2>2, <1>a, <1>t, <1>u
  <2>4. \A r, q \in flight' : r.class = q.class /\ r.i = q.i => r = q
    BY <2>1, <2>2, <1>a DEF AInv, TurnInv
  <2> QED BY <2>3, <2>4 DEF TurnInv
<1>3. ASSUME NEW d \in Classes
      PROVE  /\ offered'[d] = good'[d] + bad'[d] + missed'[d] + Cardinality(Of(flight', d))
             /\ Cardinality(CommittedOf(flight', d)) = Cardinality(CommittedOf(flight, d))
  <2>1. /\ offered[d] \in Nat /\ good[d] \in Nat /\ bad[d] \in Nat /\ missed[d] \in Nat
        /\ Cardinality(Of(flight, d)) \in Nat /\ Cardinality(CommittedOf(flight, d)) \in Nat
        /\ IsFiniteSet(flight)
    BY AccountTypes
  <2>2. offered[d] = good[d] + bad[d] + missed[d] + Cardinality(Of(flight, d))
    BY DEF AInv, CountInv
  <2>3. offered'[d] = offered[d] + IF d = c THEN 1 ELSE 0 BY <1>t, <1>u, <2>1
  <2>4. CASE flight' = flight \cup {a} /\ missed' = missed
    <3>1. /\ Cardinality(Of(flight', d)) = Cardinality(Of(flight, d)) + IF d = c THEN 1 ELSE 0
          /\ Cardinality(CommittedOf(flight', d)) = Cardinality(CommittedOf(flight, d))
      BY <2>4, <2>1, <1>n, <1>a, PartsGrow
    <3> QED BY <3>1, <2>1, <2>2, <2>3, <2>4, <1>u
  <2>5. CASE flight' = flight /\ missed' = [missed EXCEPT ![c] = @ + 1]
    <3>1. missed'[d] = missed[d] + IF d = c THEN 1 ELSE 0 BY <2>5, <2>1, <1>t
    <3> QED BY <3>1, <2>1, <2>2, <2>3, <2>5, <1>u
  <2> QED BY <2>4, <2>5, <1>c
<1>4. CountInv' BY <1>3 DEF CountInv
<1>5. WriteInv' BY <1>3, <1>u DEF AInv, WriteInv
<1> QED BY <1>1, <1>2, <1>4, <1>5 DEF AInv

\* An arrival on its way, up to its commit: it stays the arrival it is.
LEMMA OnTheWay ==
    ASSUME IInv, NEW r \in flight,
           LeaseCurrent(r) \/ GrantApplied(r) \/ GrantReturns(r) \/ PutCommits(r)
    PROVE  /\ r.at # "committed"
           /\ UNCHANGED <<pc, sched, offered, missed, good, bad, result>>
           /\ \E to : /\ flight' = (flight \ {r}) \cup {to} /\ to.class = r.class /\ to.i = r.i
                      /\ \/ to.at # "committed" /\ log' = log
                         \/ /\ to.at = "committed"
                            /\ log' = Append(log, [class |-> r.class, at |-> now])
<1>t. r \in Arrivals BY ArrivalFacts
<1>u. /\ r.at # "committed"
      /\ UNCHANGED <<pc, sched, offered, missed, good, bad, result>>
  BY DEF LeaseCurrent, GrantApplied, GrantReturns, PutCommits
<1>1. CASE LeaseCurrent(r)
  <2>1. PICK to \in {[r EXCEPT !.at = "put", !.lease = pool.id], [r EXCEPT !.at = "grant"]} :
          Move(r, to)
    BY <1>1 DEF LeaseCurrent
  <2>2. to.class = r.class /\ to.i = r.i /\ to.at # "committed" BY <1>t DEF Arrivals
  <2> QED BY <2>1, <2>2, <1>u, <1>1 DEF Move, LeaseCurrent
<1>2. CASE GrantApplied(r)
  <2> DEFINE to == [r EXCEPT !.at = "granted", !.lease = Len(granted')]
  <2>1. to.class = r.class /\ to.i = r.i /\ to.at # "committed" BY <1>t DEF Arrivals
  <2>2. Move(r, to) /\ log' = log BY <1>2 DEF GrantApplied
  <2> HIDE DEF to
  <2> QED BY <2>1, <2>2, <1>u DEF Move
<1>3. CASE GrantReturns(r)
  <2> DEFINE to == [r EXCEPT !.at = "put"]
  <2>1. to.class = r.class /\ to.i = r.i /\ to.at # "committed" BY <1>t DEF Arrivals
  <2>2. Move(r, to) /\ log' = log BY <1>3 DEF GrantReturns
  <2> HIDE DEF to
  <2> QED BY <2>1, <2>2, <1>u DEF Move
<1>4. CASE PutCommits(r)
  <2> DEFINE to == [r EXCEPT !.at = "committed", !.rev = Len(log')]
  <2>1. to.class = r.class /\ to.i = r.i /\ to.at = "committed" BY <1>t DEF Arrivals
  <2>2. Move(r, to) /\ log' = Append(log, [class |-> r.class, at |-> now])
    BY <1>4 DEF PutCommits
  <2> HIDE DEF to
  <2> QED BY <2>1, <2>2, <1>u DEF Move
<1> QED BY <1>1, <1>2, <1>3, <1>4

LEMMA MoveAInv ==
    ASSUME IInv, AInv, NEW r \in flight,
           LeaseCurrent(r) \/ GrantApplied(r) \/ GrantReturns(r) \/ PutCommits(r)
    PROVE  AInv'
<1>t. r \in Arrivals /\ \A q \in flight : q \in Arrivals BY ArrivalFacts
<1>u. r.at # "committed" /\ UNCHANGED <<pc, sched, offered, missed, good, bad, result>>
  BY OnTheWay
<1>m. PICK to : /\ flight' = (flight \ {r}) \cup {to} /\ to.class = r.class /\ to.i = r.i
                /\ \/ to.at # "committed" /\ log' = log
                   \/ /\ to.at = "committed"
                      /\ log' = Append(log, [class |-> r.class, at |-> now])
  BY OnTheWay
<1>n. to \notin flight \ {r} BY <1>m DEF AInv, TurnInv
<1>1. PhaseInv' BY <1>u DEF AInv, PhaseInv
<1>2. TurnInv' BY <1>m, <1>u DEF AInv, TurnInv
<1>3. ASSUME NEW c \in Classes
      PROVE  /\ Cardinality(Of(flight', c)) = Cardinality(Of(flight, c))
             /\ Cardinality(CommittedOf(flight', c)) \in Nat
             /\ Cardinality(WritesOf(log', c)) \in Nat
             /\ Cardinality(WritesOf(log', c)) - Cardinality(WritesOf(log, c))
                  = Cardinality(CommittedOf(flight', c)) - Cardinality(CommittedOf(flight, c))
  <2>1. /\ Cardinality(CommittedOf(flight, c)) \in Nat /\ Cardinality(WritesOf(log, c)) \in Nat
        /\ IsFiniteSet(flight)
    BY AccountTypes
  <2> DEFINE rest == flight \ {r}
  <2>g. to \notin rest /\ flight' = rest \cup {to} BY <1>m, <1>n
  <2>2. /\ Cardinality(CommittedOf(rest, c)) \in Nat
        /\ Cardinality(Of(flight', c)) = Cardinality(Of(flight, c))
        /\ Cardinality(CommittedOf(flight', c))
             = Cardinality(CommittedOf(rest, c))
                 + IF to.class = c /\ to.at = "committed" THEN 1 ELSE 0
        /\ Cardinality(CommittedOf(flight, c))
             = Cardinality(CommittedOf(rest, c))
                 + IF r.class = c /\ r.at = "committed" THEN 1 ELSE 0
    <3>1. IsFiniteSet(rest) BY <2>1, FS_RemoveElement
    <3>2. /\ Cardinality(Of(flight, c)) = Cardinality(Of(rest, c)) + IF r.class = c THEN 1 ELSE 0
          /\ Cardinality(CommittedOf(flight, c))
               = Cardinality(CommittedOf(rest, c))
                   + IF r.class = c /\ r.at = "committed" THEN 1 ELSE 0
      BY <2>1, PartsShrink
    <3> HIDE DEF rest
    <3>3. /\ Cardinality(Of(rest \cup {to}, c))
               = Cardinality(Of(rest, c)) + IF to.class = c THEN 1 ELSE 0
          /\ Cardinality(CommittedOf(rest \cup {to}, c))
               = Cardinality(CommittedOf(rest, c))
                   + IF to.class = c /\ to.at = "committed" THEN 1 ELSE 0
      BY <3>1, <2>g, PartsGrow
    <3>4. Cardinality(CommittedOf(rest, c)) \in Nat BY <3>1, PartsFinite
    <3>5. /\ Of(flight', c) = Of(rest \cup {to}, c)
          /\ CommittedOf(flight', c) = CommittedOf(rest \cup {to}, c)
      BY <2>g, Zenon
    <3> QED BY <3>2, <3>3, <3>4, <3>5, <1>m
  <2> HIDE DEF rest
  <2>3. CASE to.at # "committed" /\ log' = log BY <2>1, <2>2, <2>3, <1>u
  <2>4. CASE to.at = "committed" /\ log' = Append(log, [class |-> r.class, at |-> now])
    <3> DEFINE e == [class |-> r.class, at |-> now]
    <3>1. e \in Commits /\ log \in Seq(Commits) /\ e.class = r.class
      BY <1>t, BoundsType DEF Commits, Arrivals, IInv, TInv
    <3> HIDE DEF e
    <3>2. Cardinality(WritesOf(Append(log, e), c))
            = Cardinality(WritesOf(log, c)) + IF e.class = c THEN 1 ELSE 0
      BY <3>1, WritesGrow
    <3>3. log' = Append(log, e) BY <2>4 DEF e
    <3>4. CASE r.class = c BY <2>1, <2>2, <2>4, <3>1, <3>2, <3>3, <3>4, <1>u, <1>m
    <3>5. CASE r.class # c BY <2>1, <2>2, <2>4, <3>1, <3>2, <3>3, <3>5, <1>u, <1>m
    <3> QED BY <3>4, <3>5
  <2> QED BY <2>3, <2>4, <1>m
<1>4. CountInv' BY <1>3, <1>u DEF AInv, CountInv
<1>5. WriteInv'
  <2> SUFFICES ASSUME NEW c \in Classes
      PROVE  /\ good[c] + Cardinality(CommittedOf(flight', c)) <= Cardinality(WritesOf(log', c))
             /\ Cardinality(WritesOf(log', c))
                  <= good[c] + bad[c] + Cardinality(CommittedOf(flight', c))
    BY <1>u DEF WriteInv
  <2>1. /\ good[c] \in Nat /\ bad[c] \in Nat
        /\ Cardinality(CommittedOf(flight, c)) \in Nat /\ Cardinality(WritesOf(log, c)) \in Nat
    BY AccountTypes
  <2>2. /\ good[c] + Cardinality(CommittedOf(flight, c)) <= Cardinality(WritesOf(log, c))
        /\ Cardinality(WritesOf(log, c))
             <= good[c] + bad[c] + Cardinality(CommittedOf(flight, c))
    BY DEF AInv, WriteInv
  <2> QED BY <2>1, <2>2, <1>3
<1> QED BY <1>1, <1>2, <1>4, <1>5 DEF AInv

\* An arrival that ends is a success, if it was committed, or a failure.
LEMMA Ending ==
    ASSUME IInv, NEW r \in flight, Acknowledge(r) \/ WriteFails(r)
    PROVE  /\ r.class \in Classes
           /\ UNCHANGED <<pc, sched, offered, missed, log, result>>
           /\ flight' = flight \ {r}
           /\ \/ r.at = "committed" /\ good' = [good EXCEPT ![r.class] = @ + 1] /\ bad' = bad
              \/ bad' = [bad EXCEPT ![r.class] = @ + 1] /\ good' = good
<1>1. r \in Arrivals BY ArrivalFacts
<1> QED BY <1>1 DEF Acknowledge, WriteFails, Arrivals

LEMMA EndAInv ==
    ASSUME IInv, AInv, NEW r \in flight, Acknowledge(r) \/ WriteFails(r)
    PROVE  AInv'
<1>u. /\ r.class \in Classes
      /\ UNCHANGED <<pc, sched, offered, missed, log, result>>
      /\ flight' = flight \ {r}
      /\ \/ r.at = "committed" /\ good' = [good EXCEPT ![r.class] = @ + 1] /\ bad' = bad
         \/ bad' = [bad EXCEPT ![r.class] = @ + 1] /\ good' = good
  BY Ending
<1>1. PhaseInv' BY <1>u DEF AInv, PhaseInv
<1>2. TurnInv' BY <1>u DEF AInv, TurnInv
<1>3. ASSUME NEW c \in Classes
      PROVE  /\ offered'[c] = good'[c] + bad'[c] + missed'[c] + Cardinality(Of(flight', c))
             /\ good'[c] + Cardinality(CommittedOf(flight', c)) <= Cardinality(WritesOf(log', c))
             /\ Cardinality(WritesOf(log', c))
                  <= good'[c] + bad'[c] + Cardinality(CommittedOf(flight', c))
  <2>1. /\ good[c] \in Nat /\ bad[c] \in Nat /\ missed[c] \in Nat /\ IsFiniteSet(flight)
        /\ Cardinality(WritesOf(log, c)) \in Nat
        /\ good \in [Classes -> Nat] /\ bad \in [Classes -> Nat]
    BY AccountTypes DEF IInv, TInv
  <2>2. /\ Cardinality(Of(flight, c))
             = Cardinality(Of(flight', c)) + IF r.class = c THEN 1 ELSE 0
        /\ Cardinality(CommittedOf(flight, c))
             = Cardinality(CommittedOf(flight', c))
                 + IF r.class = c /\ r.at = "committed" THEN 1 ELSE 0
    BY <2>1, <1>u, PartsShrink
  <2>3. IsFiniteSet(flight') BY <2>1, <1>u, FS_RemoveElement
  <2>4. Cardinality(Of(flight', c)) \in Nat /\ Cardinality(CommittedOf(flight', c)) \in Nat
    BY <2>3, PartsFinite
  <2>5. /\ offered[c] = good[c] + bad[c] + missed[c] + Cardinality(Of(flight, c))
        /\ good[c] + Cardinality(CommittedOf(flight, c)) <= Cardinality(WritesOf(log, c))
        /\ Cardinality(WritesOf(log, c))
             <= good[c] + bad[c] + Cardinality(CommittedOf(flight, c))
    BY DEF AInv, CountInv, WriteInv
  <2>6. CASE r.at = "committed" /\ good' = [good EXCEPT ![r.class] = @ + 1] /\ bad' = bad
    <3>1. good'[c] = good[c] + IF r.class = c THEN 1 ELSE 0 BY <2>1, <2>6, <1>u
    <3> QED BY <3>1, <2>1, <2>2, <2>4, <2>5, <2>6, <1>u
  <2>7. CASE bad' = [bad EXCEPT ![r.class] = @ + 1] /\ good' = good
    <3>1. bad'[c] = bad[c] + IF r.class = c THEN 1 ELSE 0 BY <2>1, <2>7, <1>u
    <3> QED BY <3>1, <2>1, <2>2, <2>4, <2>5, <2>7, <1>u
  <2> QED BY <2>6, <2>7, <1>u
<1>4. CountInv' /\ WriteInv' BY <1>3 DEF CountInv, WriteInv
<1> QED BY <1>1, <1>2, <1>4 DEF AInv

LEMMA InitAInv == Init => AInv
<1> SUFFICES ASSUME Init PROVE AInv OBVIOUS
<1>1. PhaseInv /\ TurnInv BY DEF Init, PhaseInv, TurnInv
<1>2. \A c \in Classes : Of(flight, c) = {} /\ CommittedOf(flight, c) = {} /\ WritesOf(log, c) = {}
  BY DEF Init, Of, CommittedOf, WritesOf
<1>3. Cardinality({}) = 0 BY FS_EmptySet
<1>4. ASSUME NEW c \in Classes
      PROVE  /\ offered[c] = 0 /\ good[c] = 0 /\ bad[c] = 0 /\ missed[c] = 0
             /\ Cardinality(Of(flight, c)) = 0 /\ Cardinality(CommittedOf(flight, c)) = 0
             /\ Cardinality(WritesOf(log, c)) = 0
  BY <1>2, <1>3 DEF Init
<1>5. CountInv /\ WriteInv BY <1>4 DEF CountInv, WriteInv
<1> QED BY <1>1, <1>5 DEF AInv

LEMMA StepAInv == IInv /\ AInv /\ [Next]_vars => AInv'
<1> SUFFICES ASSUME IInv, AInv, [Next]_vars PROVE AInv'
  OBVIOUS
<1>1. CASE \E c \in Classes : Offer(c) BY <1>1, OfferAInv
<1>2. CASE \E r \in flight : Write(r) BY <1>2, MoveAInv, EndAInv DEF Write
<1>3. CASE PreloadFails \/ PreloadK8sClasses \/ LoadJoined \/ MaintJoined \/ Judge
  <2>1. UNCHANGED <<loadVars, log>> /\ PhaseInv'
    BY <1>3 DEF PreloadFails, PreloadK8sClasses, LoadJoined, MaintJoined, Judge, AInv, PhaseInv,
       loadVars, etcdVars
  <2> QED BY <2>1, OtherAInv
<1>4. CASE Maintenance \/ \E c \in Classes : ConnectionLost(c) \/ InformerResumes(c)
  <2>1. UNCHANGED <<pc, loadVars, log, result>>
    BY <1>4 DEF Maintenance, MaintTick, MaintCompacts, MaintCompactRefused, MaintCompactFails,
       MaintDefrag, MaintStops, ConnectionLost, InformerResumes, etcdVars
  <2>2. PhaseInv' BY <2>1 DEF AInv, PhaseInv, loadVars
  <2> QED BY <2>1, <2>2, OtherAInv
<1>5. CASE Tick \/ UNCHANGED vars
  <2>1. UNCHANGED <<pc, loadVars, log, result>> BY <1>5 DEF Tick, vars, etcdVars
  <2>2. PhaseInv' BY <2>1 DEF AInv, PhaseInv, loadVars
  <2> QED BY <2>1, <2>2, OtherAInv
<1> QED BY <1>1, <1>2, <1>3, <1>4, <1>5 DEF Next, Finished

LEMMA AccountFromAInv == Spec => [](IInv /\ AInv)
BY InitIInv, StepIInv, InitAInv, StepAInv, PTL DEF Spec

\* When the verdict is given no arrival is outstanding, and the verdict of
\* judgeK8sMixed says that every class has put what it was offered.
LEMMA JudgedAccounts ==
    ASSUME IInv, AInv, pc = "judge", \A c \in Classes : bad[c] = 0 /\ missed[c] = 0,
           NEW c \in Classes
    PROVE  good[c] = offered[c] /\ Cardinality(WritesOf(log, c)) = offered[c]
<1>1. flight = {} BY DEF AInv, PhaseInv
<1>2. Of(flight, c) = {} /\ CommittedOf(flight, c) = {} BY <1>1 DEF Of, CommittedOf
<1>3. Cardinality({}) = 0 BY FS_EmptySet
<1>4. /\ offered[c] = good[c] + bad[c] + missed[c]
      /\ good[c] <= Cardinality(WritesOf(log, c))
      /\ Cardinality(WritesOf(log, c)) <= good[c] + bad[c]
  <2>1. /\ offered[c] = good[c] + bad[c] + missed[c] + 0
        /\ good[c] + 0 <= Cardinality(WritesOf(log, c))
        /\ Cardinality(WritesOf(log, c)) <= good[c] + bad[c] + 0
    BY <1>2, <1>3 DEF AInv, CountInv, WriteInv
  <2> QED BY <2>1, AccountTypes
<1> QED BY <1>4, AccountTypes

PassInv == result = "pass" => \A c \in Classes : Cardinality(WritesOf(log, c)) = offered[c]

\* The log does not change once the verdict is there, because no arrival is
\* in flight after the joins.
LEMMA StepPassInv == IInv /\ AInv /\ PassInv /\ [Next]_vars => PassInv'
<1> SUFFICES ASSUME IInv, AInv, PassInv, [Next]_vars, result' = "pass", NEW c \in Classes
             PROVE  Cardinality(WritesOf(log', c)) = offered'[c]
  BY DEF PassInv
<1>1. CASE result = "pass"
  <2>1. pc = "done" /\ flight = {} BY <1>1 DEF AInv, PhaseInv
  <2>2. log' = log /\ offered' = offered
    BY <2>1 DEF Next, PreloadFails, PreloadK8sClasses, Offer, Maintenance, MaintTick,
       MaintCompacts, MaintCompactRefused, MaintCompactFails, MaintDefrag, MaintStops,
       ConnectionLost, InformerResumes, LoadJoined, MaintJoined, Judge, Tick, Finished,
       vars, loadVars, etcdVars
  <2> QED BY <2>2, <1>1 DEF PassInv
<1>2. CASE result # "pass"
  <2>1. Judge
    <3>1. ~\E r \in flight : Write(r)
      BY <1>2 DEF Write, LeaseCurrent, GrantApplied, GrantReturns, PutCommits, Acknowledge,
         WriteFails
    <3> QED BY <3>1, <1>2 DEF Next, PreloadFails, PreloadK8sClasses, Offer, Maintenance,
         MaintTick, MaintCompacts, MaintCompactRefused, MaintCompactFails, MaintDefrag,
         MaintStops, ConnectionLost, InformerResumes, LoadJoined, MaintJoined, Tick, Finished,
         vars
  <2>2. pc = "judge" /\ log' = log /\ offered' = offered
    BY <2>1 DEF Judge, loadVars, etcdVars
  <2>3. \A d \in Classes : bad[d] = 0 /\ missed[d] = 0 BY <2>1 DEF Judge, judgeK8sMixed
  <2> QED BY <2>2, <2>3, JudgedAccounts
<1> QED BY <1>1, <1>2

\* A scenario that passes has put every offered arrival into etcd, for any
\* classes, rates, slots and faults: the two joins of RunK8sMixedSizeMaintenance
\* are what judgeK8sMixed relies on.
THEOREM PassesWritten == Spec => []PassMeansWritten
<1>1. Init => PassInv BY DEF Init, PassInv
<1>2. PassInv => PassMeansWritten BY DEF PassInv, PassMeansWritten, WritesOf
<1> QED BY <1>1, <1>2, InitIInv, StepIInv, InitAInv, StepAInv, StepPassInv, PTL DEF Spec

-----------------------------------------------------------------------------
(* The refinement. *)

\* An arrival that is in flight is offered and has not ended.
LEMMA Outstanding ==
    ASSUME IInv, AInv, NEW r \in flight, r.class \in Classes
    PROVE  good[r.class] + bad[r.class] + missed[r.class] < offered[r.class]
<1> DEFINE c == r.class
<1>1. /\ offered[c] \in Nat /\ good[c] \in Nat /\ bad[c] \in Nat /\ missed[c] \in Nat
      /\ Cardinality(Of(flight, c)) \in Nat /\ IsFiniteSet(Of(flight, c))
  BY AccountTypes, PartsFinite
<1>2. r \in Of(flight, c) BY DEF Of
<1>3. Cardinality(Of(flight, c)) # 0 BY <1>1, <1>2, FS_EmptySet
<1>4. offered[c] = good[c] + bad[c] + missed[c] + Cardinality(Of(flight, c))
  BY DEF AInv, CountInv
<1> HIDE DEF c
<1> QED BY <1>1, <1>3, <1>4 DEF c

LEMMA JudgeRefines ==
    ASSUME IInv, AInv, Judge
    PROVE  \E v \in {"pass", "fail"} : Abstract!Judge(v)
<1>1. /\ pc = "judge" /\ result = "none" /\ flight = {}
      /\ result' \in {"pass", "fail"}
      /\ UNCHANGED <<offered, good, bad, missed>>
  BY DEF Judge, loadVars, AInv, PhaseInv
<1>2. \A c \in Classes : good[c] + bad[c] + missed[c] = offered[c]
  <2> TAKE c \in Classes
  <2>1. Of(flight, c) = {} BY <1>1 DEF Of
  <2>2. offered[c] = good[c] + bad[c] + missed[c] + 0
    BY <2>1, FS_EmptySet DEF AInv, CountInv
  <2> QED BY <2>2, AccountTypes
<1>3. ASSUME result' = "pass" PROVE good = offered /\ \E c \in Classes : offered[c] > 0
  <2>1. /\ \A c \in Classes : bad[c] = 0 /\ missed[c] = 0
        /\ \E c \in Classes : informer[c].pos > 0
    BY <1>3 DEF Judge, judgeK8sMixed
  <2>2. \A c \in Classes : good[c] = offered[c] /\ Cardinality(WritesOf(log, c)) = offered[c]
    BY <1>1, <2>1, JudgedAccounts
  <2>3. good \in [Classes -> Nat] /\ offered \in [Classes -> Nat] BY DEF IInv, TInv
  <2>4. good = offered BY <2>2, <2>3
  <2>5. log \in Seq(Commits) /\ Len(log) \in Nat /\ Len(log) # 0
    BY <2>1 DEF IInv, TInv, IndexInv
  <2>6. log[1].class \in Classes /\ 1 \in DOMAIN log
    <3>1. 1 \in 1..Len(log) /\ DOMAIN log = 1..Len(log) BY <2>5
    <3>2. log[1] \in Commits BY <3>1, <2>5
    <3> QED BY <3>1, <3>2 DEF Commits
  <2> DEFINE c == log[1].class
  <2>7. 1 \in WritesOf(log, c) BY <2>6 DEF WritesOf
  <2>8. IsFiniteSet(WritesOf(log, c)) /\ Cardinality(WritesOf(log, c)) \in Nat
    <3>1. IsFiniteSet(1..Len(log)) BY <2>5, FS_Interval
    <3>2. WritesOf(log, c) \in SUBSET (1..Len(log)) BY <2>5 DEF WritesOf
    <3> QED BY <3>1, <3>2, FS_Subset, FS_CardinalityType
  <2>9. Cardinality(WritesOf(log, c)) # 0 BY <2>7, <2>8, FS_EmptySet
  <2>10. offered[c] > 0 BY <2>2, <2>6, <2>8, <2>9
  <2> QED BY <2>4, <2>6, <2>10
<1> QED BY <1>1, <1>2, <1>3 DEF Abstract!Judge, Abstract!Ended

\* Every step of the scenario is one of OpenLoop's or leaves its variables
\* alone.
LEMMA StepRefines ==
    IInv /\ AInv /\ [Next]_vars => [Abstract!Next]_(Abstract!openVars)
<1> SUFFICES ASSUME IInv, AInv, [Next]_vars
             PROVE  Abstract!Next \/ UNCHANGED <<offered, good, bad, missed, result>>
  BY DEF Abstract!openVars
<1>1. ASSUME NEW c \in Classes, Offer(c) PROVE Abstract!Next
  <2>1. pc = "load" /\ result = "none" BY <1>1 DEF Offer, AInv, PhaseInv
  <2>2. Abstract!Offer(c) \/ Abstract!OfferMissed(c)
    BY <2>1, <1>1 DEF Offer, Abstract!Offer, Abstract!OfferMissed
  <2> QED BY <2>2 DEF Abstract!Next
<1>2. ASSUME NEW r \in flight, Write(r)
      PROVE  Abstract!Next \/ UNCHANGED <<offered, good, bad, missed, result>>
  <2>1. pc = "load" /\ result = "none" BY DEF AInv, PhaseInv
  <2>2. CASE LeaseCurrent(r) \/ GrantApplied(r) \/ GrantReturns(r) \/ PutCommits(r)
    BY <2>2, OnTheWay
  <2>3. CASE Acknowledge(r) \/ WriteFails(r)
    <3>1. /\ r.class \in Classes /\ UNCHANGED <<offered, missed, result>>
          /\ \/ good' = [good EXCEPT ![r.class] = @ + 1] /\ bad' = bad
             \/ bad' = [bad EXCEPT ![r.class] = @ + 1] /\ good' = good
      BY <2>3, Ending
    <3>2. good[r.class] + bad[r.class] + missed[r.class] < offered[r.class]
      BY <3>1, Outstanding
    <3>3. Abstract!Succeed(r.class) \/ Abstract!Fail(r.class)
      BY <3>1, <3>2, <2>1 DEF Abstract!Succeed, Abstract!Fail, Abstract!Ended
    <3> QED BY <3>1, <3>3 DEF Abstract!Next
  <2> QED BY <2>2, <2>3, <1>2 DEF Write
<1>3. CASE Judge BY <1>3, JudgeRefines DEF Abstract!Next
<1>4. CASE PreloadFails
  <2>1. /\ pc = "start" /\ result = "none" /\ flight = {} /\ result' = "fail"
        /\ UNCHANGED <<offered, good, bad, missed>>
    BY <1>4 DEF PreloadFails, AInv, PhaseInv, loadVars
  <2>2. \A c \in Classes : good[c] + bad[c] + missed[c] = offered[c]
    <3> TAKE c \in Classes
    <3>1. Of(flight, c) = {} BY <2>1 DEF Of
    <3>2. offered[c] = good[c] + bad[c] + missed[c] + 0
      BY <3>1, FS_EmptySet DEF AInv, CountInv
    <3> QED BY <3>2, AccountTypes
  <2>3. Abstract!Judge("fail") BY <2>1, <2>2 DEF Abstract!Judge, Abstract!Ended
  <2> QED BY <2>3 DEF Abstract!Next
<1>5. CASE PreloadK8sClasses \/ Maintenance \/ LoadJoined \/ MaintJoined \/ Tick
           \/ (\E c \in Classes : ConnectionLost(c) \/ InformerResumes(c)) \/ UNCHANGED vars
  BY <1>5 DEF PreloadK8sClasses, Maintenance, MaintTick, MaintCompacts, MaintCompactRefused,
     MaintCompactFails, MaintDefrag, MaintStops, LoadJoined, MaintJoined, Tick,
     ConnectionLost, InformerResumes, vars, loadVars
<1> QED BY <1>1, <1>2, <1>3, <1>4, <1>5 DEF Next, Finished

\* The scenario implements OpenLoop for any classes, rates, slots and faults:
\* the initial states are OpenLoop's and every step is one of its steps or
\* changes nothing of it.
THEOREM Implements == Spec => ImplementsOpenLoop
<1>1. Init => Abstract!Init BY DEF Init, Abstract!Init
<1> QED BY <1>1, AccountFromAInv, StepRefines, PTL DEF Spec, Abstract!Spec, ImplementsOpenLoop
=============================================================================
