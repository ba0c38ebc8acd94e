----------------------- MODULE LocalProvider_proofs -----------------------
(***************************************************************************)
(* The recovery promises of the local provider, for any number of          *)
(* concurrent callers, faults, foreign containers and containers.          *)
(*                                                                         *)
(* Three facts carry them: runtime IDs only grow, so what is found after a *)
(* removal is never the container that was removed (IdInv); the inspect    *)
(* before every removal, stop and start saw the cluster's label (SeenInv); *)
(* whoever takes the container away is not done before it has seen one     *)
(* again (LossInv).                                                        *)
(***************************************************************************)
EXTENDS LocalProvider, TLAPS

\* TypeOK, and that IDs under the name are those the runtime gave out.
TInv ==
  /\ TypeOK
  /\ Exists => ctr.id > 0 /\ ctr.st # "none"
  /\ ctr.own \/ ctr.id <= MaxIds

\* The containers that commands changed had been inspected as the cluster's.
SeenInv ==
  /\ foreignHit = {}
  /\ \A p \in Procs : pc[p] \in {"command", "rmStopped", "rmMismatch"} => seen[p] = 0

Recovering == {"downtime", "restore", "rmStopped", "rmMismatch", "run", "tick"}

\* A caller that has removed its container never finds it again.
IdInv ==
  \A p \in Procs :
    /\ pc[p] = "idle" => before[p] = NoSpec
    /\ pc[p] \in Recovering \cup {"command"} => 0 < before[p].id /\ before[p].id < nextId
    /\ pc[p] \in Recovering => /\ op[p] = "replace"
                               /\ ctr = NoCtr \/ ctr.id > before[p].id

\* As long as nobody else uses the name, every container has the member's
\* identity, and while there is none somebody is at work or has failed.
LossInv ==
  /\ foreign = 0 =>
       /\ Exists => ctr.own /\ ctr.spec = "pinned"
       /\ late \subseteq {"pinned"}
       /\ \A p \in Procs : before[p] = NoSpec \/ before[p].spec = "pinned"
  /\ ~Exists => \E p \in Procs : op[p] # "replace" \/ pc[p] \notin {"idle", "ok"}

IInv == TInv /\ SeenInv /\ IdInv /\ CancelNeverStrands /\ LossInv

USE OpsAssumption, BoundAssumption

Statuses == {"none", "created", "partial", "nonet", "running", "exited"}
Ctrs == [id : Nat, own : BOOLEAN, spec : Specs, st : Statuses]

LEMMA InitIInv == Init => IInv
<1> SUFFICES ASSUME Init PROVE IInv OBVIOUS
<1>1. /\ ctr.id = 1 /\ ctr.own = TRUE /\ ctr.st = "running" /\ ctr.spec = "pinned" /\ ctr # NoCtr
      /\ ctr \in [id : Nat, own : BOOLEAN, spec : Specs,
                  st : {"none", "created", "partial", "nonet", "running", "exited"}]
  BY DEF Init, Original, NoCtr, Specs
<1>o. op \in [Procs -> AllOps] BY DEF Init
<1>b. NoSpec \in [id : Nat, spec : Specs] BY DEF NoSpec, Specs
<1>2. TInv
  BY <1>1, <1>o, <1>b DEF Init, TInv, TypeOK, Exists
<1>3. SeenInv BY DEF Init, SeenInv
<1>4. IdInv BY DEF Init, IdInv, Recovering
<1>5. CancelNeverStrands BY DEF Init, CancelNeverStrands
<1>6. LossInv BY <1>1 DEF Init, LossInv, Exists
<1> QED BY <1>2, <1>3, <1>4, <1>5, <1>6 DEF IInv

-----------------------------------------------------------------------------
(* What may happen to the container under the name. *)

Removed == ctr' = NoCtr /\ nextId' = nextId
Kept == /\ ctr' \in Ctrs /\ nextId' = nextId
        /\ ctr'.id = ctr.id /\ ctr'.own = ctr.own /\ ctr'.spec = ctr.spec
        /\ Exists' <=> Exists
        /\ Exists => ctr'.st # "none"
Created(own, spec) ==
  /\ ~Exists /\ nextId <= MaxIds
  /\ ctr' \in Ctrs /\ nextId' = nextId + 1
  /\ ctr'.id = nextId /\ ctr'.own = own /\ ctr'.spec = spec /\ ctr'.st # "none"

LEMMA TypeFacts ==
  ASSUME IInv
  PROVE  /\ ctr \in Ctrs /\ ctr.id \in Nat /\ ctr.own \in BOOLEAN /\ ctr.spec \in Specs
         /\ nextId \in Nat /\ ctr.id < nextId /\ nextId > 0
         /\ NoCtr \in Ctrs /\ NoCtr.id = 0 /\ NoCtr.own = FALSE
         /\ Exists => ctr.id > 0 /\ ctr.st # "none"
<1>1. NoCtr \in Ctrs /\ NoCtr.id = 0 /\ NoCtr.own = FALSE
  BY DEF NoCtr, Ctrs, Specs, Statuses
<1>2. ctr \in Ctrs /\ nextId \in Nat /\ ctr.id < nextId /\ (Exists => ctr.id > 0 /\ ctr.st # "none")
  BY DEF IInv, TInv, TypeOK, Ctrs, Statuses
<1> QED BY <1>1, <1>2 DEF Ctrs

LEMMA CreateFacts ==
  ASSUME IInv, NEW own \in BOOLEAN, NEW spec \in Specs, CreateCtr(own, spec)
  PROVE  (UNCHANGED ctr /\ Kept) \/ Created(own, spec)
<1>1. CASE Exists \/ nextId > MaxIds
  BY <1>1, TypeFacts DEF CreateCtr, Kept, Exists
<1>2. CASE ~(Exists \/ nextId > MaxIds)
  <2>1. ctr' = [id |-> nextId, own |-> own, spec |-> spec, st |-> "created"]
        /\ nextId' = nextId + 1
    BY <1>2 DEF CreateCtr, NewCtr
  <2>2. nextId <= MaxIds BY <1>2, TypeFacts
  <2>3. [id |-> nextId, own |-> own, spec |-> spec, st |-> "created"] \in Ctrs
    BY TypeFacts DEF Ctrs, Statuses
  <2> QED BY <1>2, <2>1, <2>2, <2>3 DEF Created
<1> QED BY <1>1, <1>2

\* What every kind of change means for the invariant's clauses on ctr.
LEMMA MoveFacts ==
  ASSUME IInv, Removed \/ Kept \/ \E own \in BOOLEAN, spec \in Specs : Created(own, spec)
  PROVE  /\ ctr' \in Ctrs /\ nextId' \in Nat /\ nextId' >= nextId /\ ctr'.id < nextId'
         /\ Exists' => ctr'.id > 0 /\ ctr'.st # "none"
         /\ ctr'.own \/ ctr'.id <= MaxIds
         /\ \A n \in Nat : 0 < n /\ n < nextId /\ (ctr = NoCtr \/ ctr.id > n) =>
              ctr' = NoCtr \/ ctr'.id > n
<1>0. ctr.own \/ ctr.id <= MaxIds BY DEF IInv, TInv
<1>1. CASE Removed BY <1>1, TypeFacts DEF Removed, Exists
<1>2. CASE Kept BY <1>0, <1>2, TypeFacts DEF Kept, Exists, Ctrs
<1>3. ASSUME NEW own \in BOOLEAN, NEW spec \in Specs, Created(own, spec)
      PROVE  /\ ctr' \in Ctrs /\ nextId' \in Nat /\ nextId' >= nextId /\ ctr'.id < nextId'
             /\ Exists' => ctr'.id > 0 /\ ctr'.st # "none"
             /\ ctr'.own \/ ctr'.id <= MaxIds
             /\ \A n \in Nat : 0 < n /\ n < nextId /\ (ctr = NoCtr \/ ctr.id > n) =>
                  ctr' = NoCtr \/ ctr'.id > n
  BY <1>3, TypeFacts DEF Created, Exists
<1> QED BY <1>1, <1>2, <1>3

-----------------------------------------------------------------------------
(* A step of one caller, and a step of the runtime. *)

Pcs == {"idle", "command", "downtime", "restore", "rmStopped", "rmMismatch", "run", "tick",
        "ok", "err"}
SpecRecs == [id : Nat, spec : Specs]
Reasons == {"no", "budget", "remove"}

LEMMA CallerMove ==
  ASSUME IInv, NEW p \in Procs, NEW l \in Pcs \ {"idle"}, NEW b \in SpecRecs,
         NEW r \in Reasons, NEW s \in 0..MaxIds,
         pc' = [pc EXCEPT ![p] = l], before' = [before EXCEPT ![p] = b],
         stranded' = [stranded EXCEPT ![p] = r], seen' = [seen EXCEPT ![p] = s],
         UNCHANGED <<op, cancelled, foreign, foreignHit>>,
         faults' \in 0..MaxFaults, late' \subseteq late \cup {b.spec},
         Removed \/ Kept \/ Created(TRUE, b.spec),
         l \in {"command", "rmStopped", "rmMismatch"} => s = 0,
         l \in Recovering \cup {"command"} => 0 < b.id /\ b.id < nextId,
         l \in Recovering => op[p] = "replace" /\ (ctr' = NoCtr \/ ctr'.id > b.id),
         op[p] = "replace" /\ l = "err" /\ b # NoSpec => r # "no",
         foreign = 0 => b.spec = "pinned" \/ (b = NoSpec /\ Kept /\ late' = late),
         ~Exists' => op[p] # "replace" \/ l # "ok"
  PROVE  IInv'
<1>m. Removed \/ Kept \/ \E own \in BOOLEAN, spec \in Specs : Created(own, spec)
  BY DEF SpecRecs
<1>p. /\ pc'[p] = l /\ before'[p] = b /\ stranded'[p] = r /\ seen'[p] = s
      /\ \A q \in Procs : q # p => /\ pc'[q] = pc[q] /\ before'[q] = before[q]
                                   /\ stranded'[q] = stranded[q] /\ seen'[q] = seen[q]
  BY DEF IInv, TInv, TypeOK
<1>1. TInv'
  <2>1. pc' \in [Procs -> Pcs] /\ before' \in [Procs -> SpecRecs]
        /\ stranded' \in [Procs -> Reasons] /\ seen' \in [Procs -> 0..MaxIds]
    BY DEF IInv, TInv, TypeOK, Pcs, SpecRecs, Reasons
  <2>2. late' \subseteq Specs BY DEF IInv, TInv, TypeOK, SpecRecs
  <2>3. ctr' \in Ctrs /\ nextId' \in Nat /\ ctr'.id < nextId' /\ (Exists' => ctr'.id > 0 /\ ctr'.st # "none")
        /\ (ctr'.own \/ ctr'.id <= MaxIds)
    BY <1>m, MoveFacts
  <2>4. op' \in [Procs -> AllOps] /\ cancelled' \in [Procs -> BOOLEAN]
        /\ foreign' \in 0..MaxForeign /\ foreignHit' \subseteq 1..MaxIds
    BY DEF IInv, TInv, TypeOK
  <2> QED BY <2>1, <2>2, <2>3, <2>4
          DEF TInv, TypeOK, Pcs, SpecRecs, Reasons, Ctrs, Statuses
<1>2. SeenInv' BY <1>p DEF IInv, SeenInv
<1>3. IdInv'
  <2> SUFFICES ASSUME NEW q \in Procs
               PROVE  /\ pc'[q] = "idle" => before'[q] = NoSpec
                      /\ pc'[q] \in Recovering \cup {"command"} =>
                           0 < before'[q].id /\ before'[q].id < nextId'
                      /\ pc'[q] \in Recovering =>
                           op'[q] = "replace" /\ (ctr' = NoCtr \/ ctr'.id > before'[q].id)
    BY DEF IdInv
  <2>n. nextId \in Nat /\ nextId' \in Nat /\ nextId' >= nextId BY <1>m, MoveFacts, TypeFacts
  <2>1. CASE q = p
    <3>1. b.id \in Nat BY DEF SpecRecs
    <3> QED BY <1>p, <2>1, <2>n, <3>1
  <2>2. CASE q # p
    <3>1. before[q].id \in Nat BY DEF IInv, TInv, TypeOK
    <3>2. /\ pc[q] = "idle" => before[q] = NoSpec
          /\ pc[q] \in Recovering \cup {"command"} => 0 < before[q].id /\ before[q].id < nextId
          /\ pc[q] \in Recovering => op[q] = "replace" /\ (ctr = NoCtr \/ ctr.id > before[q].id)
      BY DEF IInv, IdInv
    <3>3. pc[q] \in Recovering => ctr' = NoCtr \/ ctr'.id > before[q].id
      BY <3>1, <3>2, <1>m, MoveFacts
    <3> QED BY <1>p, <2>2, <2>n, <3>1, <3>2, <3>3
  <2> QED BY <2>1, <2>2
<1>4. CancelNeverStrands' BY <1>p DEF IInv, CancelNeverStrands
<1>5. LossInv'
  <2>1. ASSUME foreign' = 0
        PROVE  /\ Exists' => ctr'.own /\ ctr'.spec = "pinned"
               /\ late' \subseteq {"pinned"}
               /\ \A q \in Procs : before'[q] = NoSpec \/ before'[q].spec = "pinned"
    <3>1. /\ foreign = 0 /\ (Exists => ctr.own /\ ctr.spec = "pinned") /\ late \subseteq {"pinned"}
          /\ \A q \in Procs : before[q] = NoSpec \/ before[q].spec = "pinned"
      BY <2>1 DEF IInv, LossInv
    <3>2. Exists' => ctr'.own /\ ctr'.spec = "pinned"
      BY <3>1 DEF Removed, Kept, Created, Exists
    <3> QED BY <1>p, <3>1, <3>2
  <2>2. ASSUME ~Exists' PROVE op'[p] # "replace" \/ pc'[p] \notin {"idle", "ok"}
    BY <1>p, <2>2
  <2> QED BY <2>1, <2>2 DEF LossInv
<1> QED BY <1>1, <1>2, <1>3, <1>4, <1>5 DEF IInv

LEMMA RuntimeMove ==
  ASSUME IInv, UNCHANGED <<pc, op, before, stranded, seen, foreignHit>>,
         cancelled' \in [Procs -> BOOLEAN], faults' \in 0..MaxFaults,
         foreign' \in 0..MaxForeign, foreign' = 0 => foreign = 0, late' \subseteq late,
         \/ Kept
         \/ \E own \in BOOLEAN, spec \in Specs :
              Created(own, spec) /\ (foreign' = 0 => own /\ spec = "pinned")
  PROVE  IInv'
<1>m. Removed \/ Kept \/ \E own \in BOOLEAN, spec \in Specs : Created(own, spec)
  OBVIOUS
<1>1. TInv'
  <2>1. late' \subseteq Specs /\ foreignHit' \subseteq 1..MaxIds
        /\ pc' \in [Procs -> Pcs] /\ op' \in [Procs -> AllOps]
        /\ before' \in [Procs -> SpecRecs] /\ stranded' \in [Procs -> Reasons]
        /\ seen' \in [Procs -> 0..MaxIds]
    BY DEF IInv, TInv, TypeOK, Pcs, SpecRecs, Reasons
  <2>2. ctr' \in Ctrs /\ nextId' \in Nat /\ ctr'.id < nextId' /\ (Exists' => ctr'.id > 0 /\ ctr'.st # "none")
        /\ (ctr'.own \/ ctr'.id <= MaxIds)
    BY <1>m, MoveFacts
  <2> QED BY <2>1, <2>2 DEF TInv, TypeOK, Pcs, SpecRecs, Reasons, Ctrs, Statuses
<1>2. SeenInv' BY DEF IInv, SeenInv
<1>3. IdInv'
  <2> SUFFICES ASSUME NEW q \in Procs
               PROVE  /\ pc[q] = "idle" => before[q] = NoSpec
                      /\ pc[q] \in Recovering \cup {"command"} =>
                           0 < before[q].id /\ before[q].id < nextId'
                      /\ pc[q] \in Recovering =>
                           op[q] = "replace" /\ (ctr' = NoCtr \/ ctr'.id > before[q].id)
    BY DEF IdInv
  <2>n. nextId \in Nat /\ nextId' \in Nat /\ nextId' >= nextId BY <1>m, MoveFacts, TypeFacts
  <2>1. before[q].id \in Nat BY DEF IInv, TInv, TypeOK
  <2>2. /\ pc[q] = "idle" => before[q] = NoSpec
        /\ pc[q] \in Recovering \cup {"command"} => 0 < before[q].id /\ before[q].id < nextId
        /\ pc[q] \in Recovering => op[q] = "replace" /\ (ctr = NoCtr \/ ctr.id > before[q].id)
    BY DEF IInv, IdInv
  <2>3. pc[q] \in Recovering => ctr' = NoCtr \/ ctr'.id > before[q].id
    BY <2>1, <2>2, <1>m, MoveFacts
  <2> QED BY <2>1, <2>2, <2>3, <2>n
<1>4. CancelNeverStrands' BY DEF IInv, CancelNeverStrands
<1>5. LossInv'
  <2>1. ASSUME ~Exists' PROVE ~Exists
    <3>1. Kept BY <2>1, TypeFacts DEF Created, Exists
    <3> QED BY <2>1, <3>1 DEF Kept
  <2>2. foreign' = 0 => (Exists' => ctr'.own /\ ctr'.spec = "pinned")
    BY DEF IInv, LossInv, Kept, Created, Exists
  <2> QED BY <2>1, <2>2 DEF IInv, LossInv
<1> QED BY <1>1, <1>2, <1>3, <1>4, <1>5 DEF IInv

-----------------------------------------------------------------------------
(* What the parts of an action come to. *)

LEMMA KeptFacts == ASSUME IInv, UNCHANGED <<ctr, nextId>> PROVE Kept
BY TypeFacts DEF Kept, Exists

LEMMA FaultFacts == ASSUME IInv, Fault \/ UNCHANGED faults PROVE faults' \in 0..MaxFaults
BY DEF Fault, IInv, TInv, TypeOK

\* What an action that leaves them alone makes of the caller's own variables.
LEMMA SameBefore ==
  ASSUME IInv, NEW p \in Procs, UNCHANGED before
  PROVE  \E b \in SpecRecs : b = before[p] /\ before' = [before EXCEPT ![p] = b]
<1>1. before[p] \in SpecRecs /\ before = [before EXCEPT ![p] = before[p]]
  BY DEF IInv, TInv, TypeOK, SpecRecs
<1> QED BY <1>1

LEMMA SameStranded ==
  ASSUME IInv, NEW p \in Procs, UNCHANGED stranded
  PROVE  \E r \in Reasons : r = stranded[p] /\ stranded' = [stranded EXCEPT ![p] = r]
<1>1. stranded[p] \in Reasons /\ stranded = [stranded EXCEPT ![p] = stranded[p]]
  BY DEF IInv, TInv, TypeOK, Reasons
<1> QED BY <1>1

LEMMA SameSeen ==
  ASSUME IInv, NEW p \in Procs, UNCHANGED seen
  PROVE  \E s \in 0..MaxIds : s = seen[p] /\ seen' = [seen EXCEPT ![p] = s]
<1>1. seen[p] \in 0..MaxIds /\ seen = [seen EXCEPT ![p] = seen[p]]
  BY DEF IInv, TInv, TypeOK
<1> QED BY <1>1

LEMMA SeenFacts ==
  ASSUME IInv, NEW p \in Procs, Seen(p)
  PROVE  \E s \in 0..MaxIds : /\ seen' = [seen EXCEPT ![p] = s]
                              /\ ~Exists \/ ctr.own => s = 0
<1>1. CASE Exists /\ ~ctr.own
  <2>0. ctr.id <= MaxIds BY <1>1 DEF IInv, TInv
  <2>1. ctr.id \in 0..MaxIds BY <2>0, TypeFacts
  <2> QED BY <1>1, <2>1 DEF Seen
<1>2. CASE ~(Exists /\ ~ctr.own)
  <2>1. seen' = [seen EXCEPT ![p] = 0] BY <1>2 DEF Seen
  <2>2. 0 \in 0..MaxIds BY MaxIds \in Nat
  <2> QED BY <2>1, <2>2
<1> QED BY <1>1, <1>2

\* A caller whose inspect found the cluster's label changes no container it
\* has seen as someone else's.
LEMMA HitFacts ==
  ASSUME IInv, NEW p \in Procs, pc[p] \in {"command", "rmStopped", "rmMismatch"}, Hit(p)
  PROVE  UNCHANGED foreignHit
<1>1. seen[p] = 0 BY DEF IInv, SeenInv
<1>2. ~(Exists /\ ~ctr.own /\ ctr.id = seen[p]) BY <1>1, TypeFacts
<1> QED BY <1>2 DEF Hit

\* rm --force.
LEMMA RmFacts ==
  ASSUME IInv, NEW p \in Procs, pc[p] \in {"command", "rmStopped", "rmMismatch"},
         RmOk(p) \/ RmError(p), UNCHANGED nextId
  PROVE  /\ UNCHANGED foreignHit /\ faults' \in 0..MaxFaults
         /\ Removed \/ (Kept /\ UNCHANGED ctr)
         /\ RmOk(p) => ctr' = NoCtr
<1>1. UNCHANGED foreignHit BY HitFacts DEF RmOk, RmError
<1>2. faults' \in 0..MaxFaults BY FaultFacts DEF RmOk, RmError
<1>3. Removed \/ (Kept /\ UNCHANGED ctr) BY KeptFacts DEF RmOk, RmError, Removed
<1> QED BY <1>1, <1>2, <1>3 DEF RmOk

\* What the invariant says of a caller at work.
LEMMA AtFacts ==
  ASSUME IInv, NEW p \in Procs, pc[p] \in Recovering \cup {"command"}
  PROVE  /\ 0 < before[p].id /\ before[p].id < nextId
         /\ before[p].id \in Nat /\ before[p].spec \in Specs
         /\ foreign = 0 => before[p].spec = "pinned"
         /\ pc[p] \in Recovering => op[p] = "replace" /\ (ctr = NoCtr \/ ctr.id > before[p].id)
<1>1. before[p] \in SpecRecs BY DEF IInv, TInv, TypeOK, SpecRecs
<1>2. 0 < before[p].id /\ before[p].id < nextId BY DEF IInv, IdInv
<1>3. before[p] # NoSpec BY <1>2 DEF NoSpec
<1> QED BY <1>1, <1>2, <1>3 DEF SpecRecs, IInv, IdInv, LossInv

-----------------------------------------------------------------------------
(* One lemma per action. *)

LEMMA OwnedContainerIInv == ASSUME IInv, NEW p \in Procs, OwnedContainer(p) PROVE IInv'
<1>u. UNCHANGED <<op, cancelled, foreign, foreignHit, ctr, nextId, late, stranded>>
  BY DEF OwnedContainer, Quiet
<1>0. Seen(p) BY DEF OwnedContainer
<1>1. PICK s \in 0..MaxIds : seen' = [seen EXCEPT ![p] = s] /\ (~Exists \/ ctr.own => s = 0)
  BY <1>0, SeenFacts
<1>2. PICK r \in Reasons : r = stranded[p] /\ stranded' = [stranded EXCEPT ![p] = r]
  BY <1>u, SameStranded
<1>3. Kept BY <1>u, KeptFacts
<1>4. faults' \in 0..MaxFaults BY FaultFacts DEF OwnedContainer
<1>5. before[p] = NoSpec BY DEF OwnedContainer, IInv, IdInv
<1>6. CASE UNCHANGED before /\ Goto(p, "err")
  <2>1. PICK b \in SpecRecs : b = NoSpec /\ before' = [before EXCEPT ![p] = b]
    BY <1>5, <1>6, SameBefore
  <2>2. "err" \in Pcs \ {"idle"} BY DEF Pcs
  <2>3. pc' = [pc EXCEPT ![p] = "err"] BY <1>6 DEF Goto
  <2> QED BY <1>u, <1>1, <1>2, <1>3, <1>4, <2>1, <2>2, <2>3, CallerMove DEF Recovering
<1>7. CASE /\ Exists /\ ctr.own /\ Goto(p, "command")
           /\ before' = [before EXCEPT ![p] = [id |-> ctr.id, spec |-> ctr.spec]]
  <2>1. PICK b \in SpecRecs : /\ before' = [before EXCEPT ![p] = b]
                              /\ b.id = ctr.id /\ b.spec = ctr.spec
    <3>1. [id |-> ctr.id, spec |-> ctr.spec] \in SpecRecs BY TypeFacts DEF SpecRecs
    <3> QED BY <3>1, <1>7
  <2>2. "command" \in Pcs \ {"idle"} BY DEF Pcs
  <2>3. pc' = [pc EXCEPT ![p] = "command"] BY <1>7 DEF Goto
  <2>4. 0 < b.id /\ b.id < nextId /\ s = 0 BY <1>7, <1>1, <2>1, TypeFacts
  <2>5. foreign = 0 => b.spec = "pinned" BY <1>7, <2>1 DEF IInv, LossInv
  <2> QED BY <1>u, <1>1, <1>2, <1>3, <1>4, <2>1, <2>2, <2>3, <2>4, <2>5, CallerMove
          DEF Recovering
<1> QED BY <1>6, <1>7 DEF OwnedContainer

LEMMA DeleteIInv == ASSUME IInv, NEW p \in Procs, Delete(p) PROVE IInv'
<1>u. /\ pc[p] = "command" /\ op[p] = "delete"
      /\ UNCHANGED <<op, cancelled, foreign, nextId, late, before, stranded, seen>>
  BY DEF Delete, Quiet
<1>1. PICK b \in SpecRecs : b = before[p] /\ before' = [before EXCEPT ![p] = b]
  BY <1>u, SameBefore
<1>2. PICK r \in Reasons : r = stranded[p] /\ stranded' = [stranded EXCEPT ![p] = r]
  BY <1>u, SameStranded
<1>3. PICK s \in 0..MaxIds : s = seen[p] /\ seen' = [seen EXCEPT ![p] = s]
  BY <1>u, SameSeen
<1>4. /\ UNCHANGED foreignHit /\ faults' \in 0..MaxFaults /\ (Removed \/ Kept)
  BY <1>u, RmFacts, KeptFacts, FaultFacts DEF Delete
<1>5. PICK l \in Pcs \ {"idle"} : pc' = [pc EXCEPT ![p] = l] /\ l \in {"ok", "err"}
  BY DEF Delete, Goto, Pcs
<1>6. foreign = 0 => b.spec = "pinned" BY <1>u, <1>1, AtFacts
<1>8. /\ l \notin Recovering \cup {"command"} /\ l \notin Recovering
      /\ l \notin {"command", "rmStopped", "rmMismatch"}
  BY <1>5 DEF Recovering
<1>9. late' \subseteq late \cup {b.spec} /\ UNCHANGED <<op, cancelled, foreign, foreignHit>>
  BY <1>u, <1>4
<1>10. /\ l \in {"command", "rmStopped", "rmMismatch"} => s = 0
       /\ l \in Recovering \cup {"command"} => 0 < b.id /\ b.id < nextId
       /\ l \in Recovering => op[p] = "replace" /\ (ctr' = NoCtr \/ ctr'.id > b.id)
       /\ op[p] = "replace" /\ l = "err" /\ b # NoSpec => r # "no"
       /\ ~Exists' => op[p] # "replace" \/ l # "ok"
  BY <1>u, <1>8
<1> QED BY <1>1, <1>2, <1>3, <1>4, <1>5, <1>6, <1>9, <1>10, CallerMove

LEMMA PowerIInv == ASSUME IInv, NEW p \in Procs, Power(p) PROVE IInv'
<1>u. /\ pc[p] = "command" /\ op[p] # "replace"
      /\ UNCHANGED <<op, cancelled, foreign, nextId, late, before, stranded, seen>>
  BY DEF Power, Quiet
<1>1. PICK b \in SpecRecs : b = before[p] /\ before' = [before EXCEPT ![p] = b]
  BY <1>u, SameBefore
<1>2. PICK r \in Reasons : r = stranded[p] /\ stranded' = [stranded EXCEPT ![p] = r]
  BY <1>u, SameStranded
<1>3. PICK s \in 0..MaxIds : s = seen[p] /\ seen' = [seen EXCEPT ![p] = s]
  BY <1>u, SameSeen
<1>4. Kept
  <2>1. CASE UNCHANGED ctr BY <2>1, <1>u, KeptFacts
  <2>2. CASE ~UNCHANGED ctr
    <3>1. PICK x \in Statuses \ {"none"} : Exists /\ ctr' = [ctr EXCEPT !.st = x]
      <4> DEFINE y == IF op[p] = "stop" /\ ctr.st \in {"nonet", "running"} THEN "exited"
                      ELSE IF op[p] = "start" /\ ctr.st \in {"exited", "partial"} THEN "created"
                      ELSE ctr.st
      <4>1. Exists /\ ctr' = [ctr EXCEPT !.st = y] BY <2>2 DEF Power
      <4>2. y \in Statuses \ {"none"} BY <4>1, TypeFacts DEF Ctrs, Statuses
      <4> QED BY <4>1, <4>2
    <3>2. /\ ctr' \in Ctrs /\ ctr'.id = ctr.id /\ ctr'.own = ctr.own /\ ctr'.spec = ctr.spec
          /\ ctr'.st = x
      BY <3>1, TypeFacts DEF Ctrs
    <3>3. ctr.id > 0 /\ NoCtr.id = 0 BY <3>1, TypeFacts
    <3>4. ctr' # NoCtr BY <3>2, <3>3
    <3> QED BY <1>u, <3>1, <3>2, <3>4 DEF Kept, Exists
  <2> QED BY <2>1, <2>2
<1>5. UNCHANGED foreignHit /\ faults' \in 0..MaxFaults
  BY <1>u, HitFacts, FaultFacts DEF Power
<1>6. PICK l \in Pcs \ {"idle"} : pc' = [pc EXCEPT ![p] = l] /\ l \in {"ok", "err"}
  BY DEF Power, Goto, Pcs
<1>7. foreign = 0 => b.spec = "pinned" BY <1>u, <1>1, AtFacts
<1>8. /\ l \notin Recovering \cup {"command"} /\ l \notin Recovering
      /\ l \notin {"command", "rmStopped", "rmMismatch"}
  BY <1>6 DEF Recovering
<1>9. late' \subseteq late \cup {b.spec} /\ UNCHANGED <<op, cancelled, foreign, foreignHit>>
  BY <1>u, <1>5
<1>10. /\ l \in {"command", "rmStopped", "rmMismatch"} => s = 0
       /\ l \in Recovering \cup {"command"} => 0 < b.id /\ b.id < nextId
       /\ l \in Recovering => op[p] = "replace" /\ (ctr' = NoCtr \/ ctr'.id > b.id)
       /\ op[p] = "replace" /\ l = "err" /\ b # NoSpec => r # "no"
       /\ ~Exists' => op[p] # "replace" \/ l # "ok"
  BY <1>u, <1>8
<1> QED BY <1>1, <1>2, <1>3, <1>4, <1>5, <1>6, <1>7, <1>9, <1>10, CallerMove

LEMMA RemoveIInv ==
  ASSUME IInv, NEW p \in Procs, Terminate(p) \/ RemoveStopped(p) \/ RemoveMismatch(p)
  PROVE  IInv'
<1>u. /\ pc[p] \in {"command", "rmStopped", "rmMismatch"} /\ op[p] = "replace"
      /\ UNCHANGED <<op, cancelled, foreign, nextId, late, before, seen>>
  BY DEF Terminate, RemoveStopped, RemoveMismatch, Quiet, IInv, IdInv, Recovering
<1>1. PICK b \in SpecRecs : b = before[p] /\ before' = [before EXCEPT ![p] = b]
  BY <1>u, SameBefore
<1>3. PICK s \in 0..MaxIds : s = seen[p] /\ seen' = [seen EXCEPT ![p] = s]
  BY <1>u, SameSeen
<1>4. /\ UNCHANGED foreignHit /\ faults' \in 0..MaxFaults
      /\ Removed \/ (Kept /\ UNCHANGED ctr)
      /\ RmOk(p) => ctr' = NoCtr
  BY <1>u, RmFacts DEF Terminate, RemoveStopped, RemoveMismatch
<1>5. /\ foreign = 0 => b.spec = "pinned"
      /\ 0 < b.id /\ b.id < nextId
      /\ pc[p] # "command" => ctr = NoCtr \/ ctr.id > b.id
  BY <1>u, <1>1, AtFacts DEF Recovering
<1>6. CASE UNCHANGED stranded
  <2>1. PICK r \in Reasons : r = stranded[p] /\ stranded' = [stranded EXCEPT ![p] = r]
    BY <1>6, SameStranded
  <2>2. PICK l \in Pcs \ {"idle"} : pc' = [pc EXCEPT ![p] = l] /\ l \in {"downtime", "tick", "err"}
                                   /\ (l = "err" => stranded' = [stranded EXCEPT ![p] = "remove"])
                                   /\ (pc[p] = "command" /\ l # "err" => RmOk(p))
    BY DEF Terminate, RemoveStopped, RemoveMismatch, Goto, Pcs
  <2>3. l = "err" => r # "no"
    <3>1. stranded \in [Procs -> Reasons] BY DEF IInv, TInv, TypeOK, Reasons
    <3>2. l = "err" => stranded'[p] = "remove" BY <2>2, <3>1
    <3>3. stranded'[p] = r BY <2>1, <3>1
    <3> QED BY <3>2, <3>3
  <2>4. l # "err" => ctr' = NoCtr \/ ctr'.id > b.id
    BY <1>4, <1>5, <2>2 DEF Removed
  <2>5. /\ l \notin {"command", "rmStopped", "rmMismatch"} /\ l # "ok"
        /\ l \in Recovering => l # "err"
    BY <2>2 DEF Recovering
  <2> QED BY <1>u, <1>1, <1>3, <1>4, <1>5, <2>1, <2>2, <2>3, <2>4, <2>5, CallerMove
<1>7. CASE ~UNCHANGED stranded
  <2>1. stranded' = [stranded EXCEPT ![p] = "remove"] /\ "remove" \in Reasons
    BY <1>7 DEF Terminate, RemoveStopped, RemoveMismatch, Reasons
  <2>2. pc' = [pc EXCEPT ![p] = "err"] /\ "err" \in Pcs \ {"idle"}
    BY <1>7 DEF Terminate, RemoveStopped, RemoveMismatch, Goto, Pcs
  <2> QED BY <1>u, <1>1, <1>3, <1>4, <1>5, <2>1, <2>2, CallerMove DEF Recovering
<1> QED BY <1>6, <1>7

LEMMA WaitIInv == ASSUME IInv, NEW p \in Procs, Downtime(p) \/ Tick(p) PROVE IInv'
<1>u. /\ pc[p] \in Recovering /\ pc' = [pc EXCEPT ![p] = "restore"]
      /\ UNCHANGED <<op, cancelled, foreign, foreignHit, ctr, nextId, late, before, stranded,
                     faults, seen>>
  BY DEF Downtime, Tick, Quiet, Goto, Recovering
<1>1. PICK b \in SpecRecs : b = before[p] /\ before' = [before EXCEPT ![p] = b]
  BY <1>u, SameBefore
<1>2. PICK r \in Reasons : r = stranded[p] /\ stranded' = [stranded EXCEPT ![p] = r]
  BY <1>u, SameStranded
<1>3. PICK s \in 0..MaxIds : s = seen[p] /\ seen' = [seen EXCEPT ![p] = s]
  BY <1>u, SameSeen
<1>4. Kept /\ faults' \in 0..MaxFaults BY <1>u, KeptFacts, FaultFacts
<1>5. /\ 0 < b.id /\ b.id < nextId /\ op[p] = "replace" /\ (ctr' = NoCtr \/ ctr'.id > b.id)
      /\ foreign = 0 => b.spec = "pinned"
  BY <1>u, <1>1, AtFacts
<1>6. "restore" \in Pcs \ {"idle"} /\ "restore" \notin {"command", "rmStopped", "rmMismatch"}
  BY DEF Pcs
<1>7. late' \subseteq late \cup {b.spec} /\ UNCHANGED <<op, cancelled, foreign, foreignHit>>
  BY <1>u
<1>8. pc' = [pc EXCEPT ![p] = "restore"] BY <1>u
<1> QED BY <1>1, <1>2, <1>3, <1>4, <1>5, <1>6, <1>7, <1>8, CallerMove

LEMMA BudgetExpiresIInv == ASSUME IInv, NEW p \in Procs, BudgetExpires(p) PROVE IInv'
<1>u. /\ pc[p] \in Recovering /\ pc' = [pc EXCEPT ![p] = "err"]
      /\ stranded' = [stranded EXCEPT ![p] = "budget"]
      /\ UNCHANGED <<op, cancelled, foreign, foreignHit, ctr, nextId, late, before, faults, seen>>
  BY DEF BudgetExpires, Quiet, Goto, Recovering
<1>1. PICK b \in SpecRecs : b = before[p] /\ before' = [before EXCEPT ![p] = b]
  BY <1>u, SameBefore
<1>3. PICK s \in 0..MaxIds : s = seen[p] /\ seen' = [seen EXCEPT ![p] = s]
  BY <1>u, SameSeen
<1>4. Kept /\ faults' \in 0..MaxFaults BY <1>u, KeptFacts, FaultFacts
<1>5. foreign = 0 => b.spec = "pinned" BY <1>u, <1>1, AtFacts
<1>6. /\ "err" \in Pcs \ {"idle"} /\ "err" \notin {"command", "rmStopped", "rmMismatch"}
      /\ "err" \notin Recovering \cup {"command"} /\ "err" \notin Recovering /\ "budget" \in Reasons
  BY DEF Pcs, Recovering, Reasons
<1>7. late' \subseteq late \cup {b.spec} BY <1>u
<1> QED BY <1>u, <1>1, <1>3, <1>4, <1>5, <1>6, <1>7, CallerMove

\* What one round of restoreContainer decides.  The container it removed is
\* not there any more, so it never gives up on finding it again.
LEMMA RestoreDecides ==
  ASSUME IInv, NEW p \in Procs, RestoreInspect(p)
  PROVE  \E l \in Pcs \ {"idle", "err", "command"} :
           /\ pc' = [pc EXCEPT ![p] = l]
           /\ l \in {"rmStopped", "rmMismatch"} => ctr.own
           /\ l = "ok" => /\ Exists /\ ctr.own /\ ctr.st = "running"
                          /\ ctr.id > before[p].id /\ ctr.spec = before[p].spec
<1>u. pc[p] = "restore" BY DEF RestoreInspect
<1>1. /\ ctr = NoCtr \/ ctr.id > before[p].id
      /\ before[p].id \in Nat /\ ctr.id \in Nat /\ before[p].id > 0
  BY <1>u, AtFacts, TypeFacts DEF Recovering
<1>2. CASE Fault /\ Goto(p, "run")
  <2>1. pc' = [pc EXCEPT ![p] = "run"] BY <1>2 DEF Goto
  <2>2. "run" \in Pcs \ {"idle", "err", "command"} BY DEF Pcs
  <2> QED BY <2>1, <2>2
<1>3. CASE Goto(p, NextOf(Status(p)))
  <2>0. pc' = [pc EXCEPT ![p] = NextOf(Status(p))] BY <1>3 DEF Goto
  <2>1. CASE ~Exists \/ ~ctr.own
    <3>1. NextOf(Status(p)) = "run" BY <2>1 DEF Status, NextOf
    <3> QED BY <2>0, <3>1 DEF Pcs
  <2>2. CASE Exists /\ ctr.own
    <3>0. ctr.id # before[p].id /\ ctr.id > before[p].id BY <2>2, <1>1 DEF Exists
    <3>1. CASE ctr.st \in {"created", "partial", "nonet"}
      <4>1. NextOf(Status(p)) = "tick" BY <2>2, <3>1 DEF Status, NextOf
      <4> QED BY <2>0, <4>1 DEF Pcs
    <3>2. CASE ctr.st = "exited"
      <4>1. NextOf(Status(p)) = "rmStopped" BY <2>2, <3>2 DEF Status, NextOf
      <4> QED BY <2>0, <4>1, <2>2 DEF Pcs
    <3>3. CASE ctr.st = "running" /\ ctr.spec # before[p].spec
      <4>1. NextOf(Status(p)) = "rmMismatch" BY <2>2, <3>3, <3>0 DEF Status, NextOf
      <4> QED BY <2>0, <4>1, <2>2 DEF Pcs
    <3>4. CASE ctr.st = "running" /\ ctr.spec = before[p].spec
      <4>1. NextOf(Status(p)) = "ok" BY <2>2, <3>4, <3>0 DEF Status, NextOf
      <4> QED BY <2>0, <4>1, <2>2, <3>0, <3>4 DEF Pcs
    <3>5. ctr.st \in Statuses /\ ctr.st # "none" BY <2>2, TypeFacts DEF Ctrs
    <3> QED BY <3>1, <3>2, <3>3, <3>4, <3>5 DEF Statuses
  <2> QED BY <2>1, <2>2
<1> QED BY <1>2, <1>3 DEF RestoreInspect

LEMMA RestoreInspectIInv == ASSUME IInv, NEW p \in Procs, RestoreInspect(p) PROVE IInv'
<1>u. /\ pc[p] \in Recovering
      /\ UNCHANGED <<op, cancelled, foreign, foreignHit, ctr, nextId, late, before, stranded>>
  BY DEF RestoreInspect, Quiet, Recovering
<1>0. Seen(p) BY DEF RestoreInspect
<1>1. PICK b \in SpecRecs : b = before[p] /\ before' = [before EXCEPT ![p] = b]
  BY <1>u, SameBefore
<1>2. PICK r \in Reasons : r = stranded[p] /\ stranded' = [stranded EXCEPT ![p] = r]
  BY <1>u, SameStranded
<1>3. PICK s \in 0..MaxIds : seen' = [seen EXCEPT ![p] = s] /\ (~Exists \/ ctr.own => s = 0)
  BY <1>0, SeenFacts
<1>4. Kept /\ faults' \in 0..MaxFaults BY <1>u, KeptFacts, FaultFacts DEF RestoreInspect
<1>5. PICK l \in Pcs \ {"idle", "err", "command"} :
        /\ pc' = [pc EXCEPT ![p] = l]
        /\ l \in {"rmStopped", "rmMismatch"} => ctr.own
        /\ l = "ok" => Exists
  BY RestoreDecides
<1>6. /\ 0 < b.id /\ b.id < nextId /\ op[p] = "replace" /\ (ctr' = NoCtr \/ ctr'.id > b.id)
      /\ foreign = 0 => b.spec = "pinned"
  BY <1>u, <1>1, AtFacts
<1>7. late' \subseteq late \cup {b.spec} /\ UNCHANGED <<op, cancelled, foreign, foreignHit>>
  BY <1>u
<1>8. /\ l \in {"command", "rmStopped", "rmMismatch"} => s = 0
      /\ l # "err" /\ l \in Pcs \ {"idle"}
  BY <1>3, <1>5
<1>9. ~Exists' => l # "ok" BY <1>5, <1>u DEF Exists
<1> QED BY <1>1, <1>2, <1>3, <1>4, <1>5, <1>6, <1>7, <1>8, <1>9, CallerMove

LEMMA RunIInv == ASSUME IInv, NEW p \in Procs, Run(p) PROVE IInv'
<1>u. /\ pc[p] \in Recovering /\ pc' = [pc EXCEPT ![p] = "tick"]
      /\ UNCHANGED <<op, cancelled, foreign, foreignHit, before, stranded, seen>>
  BY DEF Run, Quiet, Goto, Recovering
<1>1. PICK b \in SpecRecs : b = before[p] /\ before' = [before EXCEPT ![p] = b]
  BY <1>u, SameBefore
<1>2. PICK r \in Reasons : r = stranded[p] /\ stranded' = [stranded EXCEPT ![p] = r]
  BY <1>u, SameStranded
<1>3. PICK s \in 0..MaxIds : s = seen[p] /\ seen' = [seen EXCEPT ![p] = s]
  BY <1>u, SameSeen
<1>b. b.spec \in Specs BY DEF SpecRecs
<1>4. Kept \/ Created(TRUE, b.spec)
  <2>1. CASE CreateCtr(TRUE, b.spec) BY <2>1, <1>b, CreateFacts
  <2>2. CASE UNCHANGED <<ctr, nextId>> BY <2>2, KeptFacts
  <2>3. CASE /\ ~Exists /\ nextId <= MaxIds /\ nextId' = nextId + 1
             /\ ctr' = [NewCtr(TRUE, b.spec) EXCEPT !.st = "partial"]
    <3>1. ctr' = [id |-> nextId, own |-> TRUE, spec |-> b.spec, st |-> "partial"]
      BY <2>3 DEF NewCtr
    <3>2. [id |-> nextId, own |-> TRUE, spec |-> b.spec, st |-> "partial"] \in Ctrs
      BY <1>b, TypeFacts DEF Ctrs, Statuses
    <3>3. /\ ctr' \in Ctrs /\ ctr'.id = nextId /\ ctr'.own = TRUE /\ ctr'.spec = b.spec
          /\ ctr'.st # "none"
      BY <3>1, <3>2
    <3> QED BY <2>3, <3>3 DEF Created
  <2> QED BY <1>1, <2>1, <2>2, <2>3 DEF Run
<1>5. faults' \in 0..MaxFaults BY FaultFacts DEF Run
<1>6. late' \subseteq late \cup {b.spec} BY <1>1 DEF Run
<1>7. /\ 0 < b.id /\ b.id < nextId /\ b.id \in Nat /\ op[p] = "replace"
      /\ ctr = NoCtr \/ ctr.id > b.id
      /\ foreign = 0 => b.spec = "pinned"
  BY <1>u, <1>1, AtFacts
<1>8. ctr' = NoCtr \/ ctr'.id > b.id BY <1>4, <1>7, <1>b, MoveFacts
<1>9. "tick" \in Pcs \ {"idle"} /\ "tick" \notin {"command", "rmStopped", "rmMismatch"}
  BY DEF Pcs
<1>10. pc' = [pc EXCEPT ![p] = "tick"] /\ UNCHANGED <<op, cancelled, foreign, foreignHit>>
  BY <1>u
<1> QED BY <1>1, <1>2, <1>3, <1>4, <1>5, <1>6, <1>7, <1>8, <1>9, <1>10, CallerMove

LEMMA RuntimeIInv ==
  ASSUME IInv,
         \/ CtrStarts \/ CtrNetworked \/ CtrExits
         \/ \E s \in late : LateRun(s)
         \/ \E own \in BOOLEAN : ForeignRun(own)
         \/ \E p \in Procs : CallerCancels(p)
         \/ UNCHANGED vars
  PROVE  IInv'
<1>t. /\ cancelled \in [Procs -> BOOLEAN] /\ foreign \in 0..MaxForeign /\ late \subseteq Specs
  BY DEF IInv, TInv, TypeOK
<1>1. CASE CtrStarts \/ CtrNetworked \/ CtrExits
  <2>1. PICK from \in Statuses, to \in Statuses \ {"none"} : CtrStep(from, to)
    BY <1>1 DEF CtrStarts, CtrNetworked, CtrExits, Statuses
  <2>2. faults' \in 0..MaxFaults BY <1>1, FaultFacts DEF CtrStarts, CtrNetworked, CtrExits
  <2>3. Kept
    <3>1. Exists /\ ctr' = [ctr EXCEPT !.st = to] BY <2>1 DEF CtrStep
    <3>2. ctr' \in Ctrs /\ ctr'.id = ctr.id /\ ctr'.own = ctr.own /\ ctr'.spec = ctr.spec
          /\ ctr'.st = to
      BY <3>1, TypeFacts DEF Ctrs
    <3>3. ctr.id > 0 /\ NoCtr.id = 0 BY <3>1, TypeFacts
    <3>4. ctr' # NoCtr BY <3>2, <3>3
    <3> QED BY <2>1, <3>1, <3>2, <3>4 DEF Kept, Exists, CtrStep
  <2> QED BY <1>t, <2>1, <2>2, <2>3, RuntimeMove DEF CtrStep
<1>2. ASSUME NEW s \in late, LateRun(s) PROVE IInv'
  <2>1. s \in Specs /\ CreateCtr(TRUE, s) BY <1>2, <1>t DEF LateRun
  <2>2. Kept \/ Created(TRUE, s) BY <2>1, CreateFacts
  <2>3. foreign = 0 => s = "pinned" BY <1>2 DEF IInv, LossInv
  <2>4. faults' \in 0..MaxFaults BY <1>2, FaultFacts DEF LateRun
  <2>5. /\ UNCHANGED <<pc, op, before, cancelled, stranded, foreign, foreignHit, seen>>
        /\ late' \subseteq late
    BY <1>2 DEF LateRun
  <2> QED BY <1>t, <2>1, <2>2, <2>3, <2>4, <2>5, RuntimeMove
<1>3. ASSUME NEW own \in BOOLEAN, ForeignRun(own) PROVE IInv'
  <2>1. "other" \in Specs /\ CreateCtr(own, "other") BY <1>3 DEF ForeignRun, Specs
  <2>2. Kept \/ Created(own, "other") BY <2>1, CreateFacts
  <2>3. foreign' \in 0..MaxForeign /\ foreign' # 0 BY <1>3, <1>t DEF ForeignRun
  <2>4. faults' \in 0..MaxFaults BY <1>3, FaultFacts DEF ForeignRun
  <2>5. UNCHANGED <<pc, op, before, cancelled, stranded, late, foreignHit, seen>>
    BY <1>3 DEF ForeignRun
  <2> QED BY <1>t, <2>1, <2>2, <2>3, <2>4, <2>5, RuntimeMove
<1>4. ASSUME NEW p \in Procs, CallerCancels(p) PROVE IInv'
  <2>1. /\ UNCHANGED <<ctr, nextId, late, pc, op, before, stranded, faults, foreign, foreignHit, seen>>
        /\ cancelled' \in [Procs -> BOOLEAN]
    BY <1>4, <1>t DEF CallerCancels
  <2>2. Kept /\ faults' \in 0..MaxFaults BY <2>1, KeptFacts, FaultFacts
  <2> QED BY <1>t, <2>1, <2>2, RuntimeMove
<1>5. CASE UNCHANGED vars
  <2>1. UNCHANGED <<ctr, nextId, late, pc, op, before, cancelled, stranded, faults, foreign,
                    foreignHit, seen>>
    BY <1>5 DEF vars
  <2>2. Kept /\ faults' \in 0..MaxFaults BY <2>1, KeptFacts, FaultFacts
  <2> QED BY <1>t, <2>1, <2>2, RuntimeMove
<1> QED BY <1>1, <1>2, <1>3, <1>4, <1>5

LEMMA StepIInv == ASSUME IInv, [Next]_vars PROVE IInv'
<1>1. ASSUME NEW p \in Procs, Work(p) PROVE IInv'
  BY <1>1, OwnedContainerIInv, DeleteIInv, PowerIInv, RemoveIInv, WaitIInv, RestoreInspectIInv,
     RunIInv DEF Work
<1>2. ASSUME NEW p \in Procs, BudgetExpires(p) PROVE IInv' BY <1>2, BudgetExpiresIInv
<1>3. ASSUME \/ \E p \in Procs : CallerCancels(p)
             \/ CtrStarts \/ CtrNetworked \/ CtrExits
             \/ \E s \in late : LateRun(s)
             \/ \E own \in BOOLEAN : ForeignRun(own)
             \/ UNCHANGED vars
      PROVE  IInv'
  BY <1>3, RuntimeIInv
<1> QED BY <1>1, <1>2, <1>3 DEF Next, Finished

LEMMA Invariance == Spec => []IInv
BY InitIInv, StepIInv, PTL DEF Spec

-----------------------------------------------------------------------------
(* The theorems. *)

\* The variables keep their types, for any number of callers; in particular
\* the runtime never gives out an ID twice.
THEOREM TypeCorrect == Spec => []TypeOK
<1>1. IInv => TypeOK BY DEF IInv, TInv
<1> QED BY <1>1, Invariance, PTL

\* ReplaceMachine that has removed the container ends with an error only when
\* the recovery budget is used up or a removal failed, never because its
\* caller cancelled, and never because it finds the old container again.
THEOREM CancelSafe == Spec => []CancelNeverStrands
<1>1. IInv => CancelNeverStrands BY DEF IInv
<1> QED BY <1>1, Invariance, PTL

\* No command of the provider changes a container that its caller inspected
\* and that lacks the cluster's label.
THEOREM OnlyOwned == Spec => []OnlyOwnedTouched
<1>1. IInv => OnlyOwnedTouched BY DEF IInv, SeenInv, OnlyOwnedTouched
<1> QED BY <1>1, Invariance, PTL

\* Replacements that all return nil leave the member's container in place
\* with its identity, however many callers, crashes and late runs there were.
THEOREM NothingLost == Spec => []NoSilentLoss
<1>1. IInv => NoSilentLoss BY DEF IInv, LossInv, NoSilentLoss
<1> QED BY <1>1, Invariance, PTL

\* Only the comparison in restoreContainer lets a replacement return nil.
LEMMA NilByRestore ==
  ASSUME IInv, Next, NEW p \in Procs, op[p] = "replace", pc[p] # "ok", pc'[p] = "ok"
  PROVE  RestoreInspect(p)
<1>t. pc \in [Procs -> Pcs] BY DEF IInv, TInv, TypeOK, Pcs
<1>1. ASSUME UNCHANGED pc PROVE FALSE BY <1>1
<1>2. ASSUME NEW q \in Procs, NEW l, Goto(q, l) PROVE q = p /\ l = "ok"
  BY <1>2, <1>t DEF Goto
<1>3. ASSUME NEW q \in Procs, Work(q) \/ BudgetExpires(q) PROVE RestoreInspect(p)
  <2>1. CASE RestoreInspect(q)
    <3>1. PICK l : Goto(q, l) BY <2>1 DEF RestoreInspect
    <3> QED BY <2>1, <3>1, <1>2
  <2>2. CASE Delete(q) \/ Power(q)
    <3>1. PICK l : Goto(q, l) BY <2>2 DEF Delete, Power
    <3>2. q = p BY <3>1, <1>2
    <3> QED BY <2>2, <3>2 DEF Delete, Power
  <2>3. CASE OwnedContainer(q) BY <2>3, <1>2 DEF OwnedContainer
  <2>4. CASE Terminate(q) \/ RemoveStopped(q) \/ RemoveMismatch(q)
    BY <2>4, <1>2 DEF Terminate, RemoveStopped, RemoveMismatch
  <2>5. CASE Downtime(q) \/ Tick(q) \/ Run(q) \/ BudgetExpires(q)
    <3>1. PICK l \in {"restore", "tick", "err"} : Goto(q, l)
      BY <2>5 DEF Downtime, Tick, Run, BudgetExpires
    <3> QED BY <3>1, <1>2
  <2> QED BY <1>3, <2>1, <2>2, <2>3, <2>4, <2>5 DEF Work
<1>4. CASE \/ \E q \in Procs : CallerCancels(q)
           \/ CtrStarts \/ CtrNetworked \/ CtrExits
           \/ \E s \in late : LateRun(s)
           \/ \E own \in BOOLEAN : ForeignRun(own)
           \/ Finished
  BY <1>4, <1>1
     DEF CallerCancels, CtrStarts, CtrNetworked, CtrExits, CtrStep, LateRun, ForeignRun, Finished,
         vars
<1> QED BY <1>3, <1>4 DEF Next

\* "a nil error always means the member was replaced": the container accepted
\* is a newer one than the one removed, labelled, running, of that identity.
THEOREM NilMeansReplaced == Spec => ReplacedMeansReplaced
<1>1. ASSUME IInv, [Next]_vars
      PROVE  [\A p \in Procs : op[p] = "replace" /\ pc[p] # "ok" /\ pc'[p] = "ok" =>
                /\ ctr'.id > before[p].id
                /\ ctr'.own /\ ctr'.st = "running" /\ ctr'.spec = before[p].spec]_vars
  <2> SUFFICES ASSUME Next, NEW p \in Procs, op[p] = "replace", pc[p] # "ok", pc'[p] = "ok"
               PROVE  /\ ctr'.id > before[p].id
                      /\ ctr'.own /\ ctr'.st = "running" /\ ctr'.spec = before[p].spec
    BY <1>1
  <2>1. RestoreInspect(p) BY <1>1, NilByRestore
  <2>2. UNCHANGED ctr BY <2>1 DEF RestoreInspect
  <2>3. PICK l : /\ pc' = [pc EXCEPT ![p] = l]
                 /\ l = "ok" => /\ ctr.own /\ ctr.st = "running"
                                /\ ctr.id > before[p].id /\ ctr.spec = before[p].spec
    BY <1>1, <2>1, RestoreDecides
  <2>4. pc'[p] = l BY <1>1, <2>3 DEF IInv, TInv, TypeOK
  <2> QED BY <2>2, <2>3, <2>4
<1> QED BY <1>1, Invariance, PTL DEF Spec, ReplacedMeansReplaced
=============================================================================
