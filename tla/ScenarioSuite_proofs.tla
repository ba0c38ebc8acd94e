----------------------- MODULE ScenarioSuite_proofs ------------------------
(***************************************************************************)
(* The proof that a scenario of the conformance suite, against an etcd     *)
(* that answers or misbehaves in any of the modelled ways, changes no key  *)
(* that is not under its own prefix: ForeignKeysUntouched of ScenarioSuite *)
(* for every set of scenarios and breaches, every MaxTxnOps up to etcd's   *)
(* default and every number of foreign writes, compactions and lost        *)
(* connections.                                                            *)
(*                                                                         *)
(* The inductive invariant IInv says that the store is well formed, that   *)
(* no foreign key has a lease (so that no lease that ends takes one        *)
(* along), and that the call the scenario makes next names only its own    *)
(* keys (SafeCall).  It stands on two results:                             *)
(*   OutcomesQuiet  no outcome of a call on its own keys, the breaches     *)
(*                  included, changes a foreign key;                       *)
(*   ProgramsSafe   whatever the answers are, every call of every one of   *)
(*                  the 93 scenarios is such a call, in every attempt.     *)
(***************************************************************************)
EXTENDS ScenarioSuite, FiniteSetTheorems, SequenceTheorems, WellFoundedInduction, TLAPS

-----------------------------------------------------------------------------
(* What a change of the store may be *)

\* The keys of a scenario: its three attempts start at 10, 40 and 70 and reach at most
\* MaxTxnOps + 1 keys further.
OwnKeys == 10 .. 199

\* The two versions of the store agree on the foreign keys.
SameForeign(m, n) ==
    \A k \in ForeignKeys : /\ k \in DOMAIN m <=> k \in DOMAIN n
                           /\ k \in DOMAIN m => n[k] = m[k]

\* No foreign key is attached to a lease.
Unleased(m) == \A k \in ForeignKeys \cap DOMAIN m : m[k].lease = 0

\* The store is a record of these fields.
StoreFields == {"rev", "compacted", "hist", "leases", "wasLive", "watchers", "breach"}
IsStore(s) == s = [f \in StoreFields |-> s[f]]
IsSequence(q) == \E V : q \in Seq(V)

\* What every store of the suite satisfies: one version of the keys per revision, and no lease
\* that could take a foreign key along.
StoreOK(s) ==
    /\ IsStore(s)
    /\ s.rev \in Nat \ {0}
    /\ IsSequence(s.hist) /\ Len(s.hist) = s.rev
    /\ IsSequence(s.leases)
    /\ Unleased(Latest(s))

\* The step from store s to store t leaves the foreign keys alone.
Quiet(s, t) == StoreOK(t) /\ SameForeign(Latest(s), Latest(t))

\* Agreeing on the foreign keys is transitive: Txn applies its operations one after another.
LEMMA SameForeignTransitive ==
  ASSUME NEW m, NEW n, NEW o, SameForeign(m, n), SameForeign(n, o)
  PROVE  SameForeign(m, o)
BY DEF SameForeign

\* A version that agrees with one without leased foreign keys has none either.
LEMMA SameForeignUnleased ==
  ASSUME NEW m, NEW n, SameForeign(m, n), Unleased(m)
  PROVE  Unleased(n)
BY DEF SameForeign, Unleased

\* Appending keeps a sequence a sequence: the revision history and the lease table grow so.
LEMMA AppendIsSequence ==
  ASSUME NEW q, NEW e, IsSequence(q)
  PROVE  /\ IsSequence(Append(q, e)) /\ Len(Append(q, e)) = Len(q) + 1
         /\ Append(q, e)[Len(q) + 1] = e
<1>1. PICK V : q \in Seq(V) BY DEF IsSequence
<1>2. q \in Seq(V \cup {e}) /\ e \in V \cup {e} BY <1>1, SeqMonotonic
<1>3. Append(q, e) \in Seq(V \cup {e}) BY <1>2
<1>4. QED BY <1>2, <1>3 DEF IsSequence

\* Replacing an entry keeps a sequence a sequence: a lease's record changes so.
LEMMA ExceptIsSequence ==
  ASSUME NEW q, NEW i, NEW e, IsSequence(q)
  PROVE  IsSequence([q EXCEPT ![i] = e])
<1>1. PICK V : q \in Seq(V) BY DEF IsSequence
<1>2. q \in Seq(V \cup {e}) /\ e \in V \cup {e} BY <1>1, SeqMonotonic
<1>3. [q EXCEPT ![i] = e] \in Seq(V \cup {e})
  <2>1. CASE i \in DOMAIN q BY <1>2, <2>1
  <2>2. CASE i \notin DOMAIN q
    <3>1. q = [j \in 1 .. Len(q) |-> q[j]] BY <1>2
    <3>2. [q EXCEPT ![i] = e] = q BY <2>2, <3>1
    <3>3. QED BY <1>2, <3>2
  <2>3. QED BY <2>1, <2>2
<1>4. QED BY <1>3 DEF IsSequence

\* A commit (etcd's new revision) of keys that agree with the latest on the foreign ones.
LEMMA CommitQuiet ==
  ASSUME NEW s, NEW m, NEW dirty, StoreOK(s), SameForeign(Latest(s), m)
  PROVE  Quiet(s, Commit(s, m, dirty))
<1>1. CASE ~dirty
  BY <1>1 DEF Commit, Quiet, SameForeign
<1>2. CASE dirty
  <2> DEFINE t == Commit(s, m, dirty)
  <2>1. t = [s EXCEPT !.rev = @ + 1, !.hist = Append(@, m)] BY <1>2 DEF Commit
  <2>2. IsStore(t) /\ t.rev = s.rev + 1 /\ t.hist = Append(s.hist, m) /\ t.leases = s.leases
    BY <2>1 DEF StoreOK, IsStore, StoreFields
  <2>3. Latest(t) = m BY <2>2, AppendIsSequence DEF Latest, StoreOK
  <2>4. StoreOK(t) BY <2>2, <2>3, AppendIsSequence, SameForeignUnleased DEF StoreOK
  <2>5. QED BY <2>3, <2>4 DEF Quiet
<1>3. QED BY <1>1, <1>2

\* A put or a deletion inside a transaction that names only keys of the scenario.
SafeOp(c) == /\ c.op = "put" => c.key \in OwnKeys
             /\ c.op = "delete" => c.lo \in OwnKeys /\ c.hi \in OwnKeys

\* Applying one operation on the scenario's keys (etcd's applyPut, applyDeleteRange) leaves
\* the foreign keys as they are.
LEMMA OpResultQuiet ==
  ASSUME NEW s, NEW m, NEW c, SafeOp(c)
  PROVE  SameForeign(m, OpResult(s, m, c).map)
<1>1. CASE c.op = "put"
  <2>1. OpResult(s, m, c) = PutResult(s, m, c) BY <1>1 DEF OpResult
  <2>2. \E new : PutResult(s, m, c).map =
                   [k \in DOMAIN m \cup {c.key} |-> IF k = c.key THEN new ELSE m[k]]
    BY DEF PutResult
  <2>3. c.key \notin ForeignKeys BY <1>1 DEF SafeOp, ForeignKeys, OwnKeys
  <2>4. QED BY <2>1, <2>2, <2>3 DEF SameForeign
<1>2. CASE c.op = "delete"
  <2>1. OpResult(s, m, c) = DeleteResult(s, m, c) BY <1>2 DEF OpResult
  <2>2. \/ DeleteResult(s, m, c).map = m
        \/ DeleteResult(s, m, c).map = [k \in DOMAIN m \ KeysIn(s, m, c) |-> m[k]]
    BY DEF DeleteResult
  <2>3. KeysIn(s, m, c) \cap ForeignKeys = {} BY <1>2 DEF SafeOp, ForeignKeys, OwnKeys, KeysIn
  <2>4. QED BY <2>1, <2>2, <2>3 DEF SameForeign
<1>3. CASE c.op \notin {"put", "delete"}
  <2>1. OpResult(s, m, c).map = m BY <1>3 DEF OpResult
  <2>2. QED BY <2>1 DEF SameForeign
<1>4. QED BY <1>1, <1>2, <1>3

\* A change of the other fields (leases, watchers, compaction) is no change of a key.
LEMMA OtherFieldsQuiet ==
  ASSUME NEW s, NEW t, StoreOK(s), IsStore(t), t.rev = s.rev, t.hist = s.hist,
         IsSequence(t.leases)
  PROVE  Quiet(s, t)
<1>1. Latest(t) = Latest(s) BY DEF Latest
<1>2. QED BY <1>1 DEF Quiet, StoreOK, SameForeign

\* A lease that ends, revoked or expired, deletes the keys attached to it, and no foreign key
\* is attached to any.
LEMMA EndLeaseQuiet ==
  ASSUME NEW s, NEW l, StoreOK(s), l # 0
  PROVE  Quiet(s, EndLease(s, l))
<1> DEFINE gone == IF s.breach = "leasesLeak" THEN {} ELSE Attached(s, l)
           t == [s EXCEPT !.wasLive = Live(s), !.leases[l].live = FALSE]
           m == [k \in DOMAIN Latest(s) \ gone |-> Latest(s)[k]]
<1>1. EndLease(s, l) = Commit(t, m, gone # {}) BY DEF EndLease
<1>2. /\ IsStore(t) /\ t.rev = s.rev /\ t.hist = s.hist
      /\ t.leases = [s.leases EXCEPT ![l] = [@ EXCEPT !.live = FALSE]]
  BY DEF StoreOK, IsStore, StoreFields
<1>3. Quiet(s, t)
  <2>1. PICK e : t.leases = [s.leases EXCEPT ![l] = e] BY <1>2
  <2> HIDE DEF t
  <2>0. IsSequence(s.leases) BY DEF StoreOK
  <2>9. IsSequence([s.leases EXCEPT ![l] = e]) BY ONLY <2>0, ExceptIsSequence
  <2>2. IsSequence(t.leases) BY <2>1, <2>9
  <2>3. QED BY <1>2, <2>2, OtherFieldsQuiet
<1>4. gone \cap ForeignKeys = {} BY DEF StoreOK, Unleased, Attached
<1>5. SameForeign(Latest(s), m) BY <1>4 DEF SameForeign
<1>6. Latest(t) = Latest(s) BY <1>2 DEF Latest
<1>7. Quiet(t, Commit(t, m, gone # {}))
  BY <1>3, <1>5, <1>6, CommitQuiet DEF Quiet
<1>8. QED BY <1>1, <1>6, <1>7 DEF Quiet

\* Induction over the naturals, for a set instead of a predicate.
LEMMA SetInduction ==
  ASSUME NEW T, 0 \in T, \A n \in Nat : n \in T => n + 1 \in T
  PROVE  Nat \subseteq T
<1> DEFINE U == {n \in Nat : n \notin T}
           R == OpToRel(<, Nat)
<1> SUFFICES ASSUME U # {} PROVE FALSE OBVIOUS
<1>1. IsWellFoundedOn(R, Nat) BY NatLessThanWellFounded
<1>2. PICK u \in U : \A v \in U : ~(<<v, u>> \in R)
  <2>1. U \subseteq Nat OBVIOUS
  <2> HIDE DEF U, R
  <2> QED BY <1>1, <2>1, WFMin
<1>3. \A v \in U : ~(v < u) BY <1>2 DEF OpToRel
<1>4. u # 0 /\ u - 1 \in Nat OBVIOUS
<1>5. u - 1 \in T BY <1>3, <1>4
<1>6. QED BY <1>4, <1>5

\* Time that passes ends the leases that are due, one after another.
LEMMA ElapseQuiet ==
  ASSUME NEW s, NEW n, StoreOK(s)
  PROVE  Quiet(s, Elapse(s, n))
<1> DEFINE E == Expiring(s, n)
           Ended(t, l) == IF l \in E THEN EndLease(t, l) ELSE t
           Is(f, b) == f = [l \in 0 .. b |-> IF l = 0 THEN s ELSE Ended(f[l - 1], l)]
           N == Len(s.leases)
           after == CHOOSE f : Is(f, N)
<1>1. N \in Nat BY DEF StoreOK, IsSequence
<1>2. Elapse(s, n) = after[N] BY DEF Elapse
<1>3. \A b \in Nat : \E f : Is(f, b)
  <2> HIDE DEF E, Ended
  <2> DEFINE T == {b \in Nat : \E f : Is(f, b)}
  <2>1. 0 \in T
    <3>1. Is([l \in 0 .. 0 |-> s], 0) OBVIOUS
    <3>2. QED BY <3>1
  <2>2. ASSUME NEW b \in Nat, b \in T PROVE b + 1 \in T
    <3>1. PICK f : Is(f, b) BY <2>2
    <3> DEFINE g == [l \in 0 .. b + 1 |-> IF l = 0 THEN s ELSE Ended(f[l - 1], l)]
    <3>2. \A l \in 1 .. b + 1 : g[l - 1] = f[l - 1] BY <3>1
    <3>3. Is(g, b + 1)
      <4>1. ASSUME NEW l \in 0 .. b + 1
            PROVE  g[l] = IF l = 0 THEN s ELSE Ended(g[l - 1], l)
        <5>1. CASE l = 0 BY <5>1
        <5>2. CASE l # 0
          <6>1. l \in 1 .. b + 1 BY <5>2
          <6>2. g[l] = Ended(f[l - 1], l) BY <5>2
          <6>3. QED BY <3>2, <5>2, <6>1, <6>2
        <5>3. QED BY <5>1, <5>2
      <4>2. DOMAIN g = 0 .. b + 1 /\ g = [l \in 0 .. b + 1 |-> g[l]] OBVIOUS
      <4> HIDE DEF g
      <4>3. QED BY <4>1, <4>2
    <3>4. \E h : Is(h, b + 1)
      <4> HIDE DEF Is, g
      <4>1. QED BY <3>3
    <3>5. QED BY <3>4
  <2>3. QED
    <3> HIDE DEF T
    <3>1. Nat \subseteq T BY <2>1, <2>2, SetInduction
    <3> USE DEF T
    <3>2. QED BY <3>1
<1>4. Is(after, N) BY <1>1, <1>3
<1>5. \A b \in Nat : b <= N => Quiet(s, after[b])
  <2> HIDE DEF N, after
  <2> DEFINE T == {b \in Nat : b <= N => Quiet(s, after[b])}
  <2>1. 0 \in T
    <3>1. after[0] = s BY <1>4, <1>1
    <3>2. QED BY <3>1 DEF Quiet, SameForeign
  <2>2. ASSUME NEW b \in Nat, b \in T, b + 1 <= N PROVE Quiet(s, after[b + 1])
    <3>1. Quiet(s, after[b]) BY <2>2, <1>1
    <3>2. after[b + 1] = Ended(after[b], b + 1) BY <2>2, <1>4, <1>1
    <3>3. Quiet(after[b], after[b + 1])
      BY <3>1, <3>2, EndLeaseQuiet DEF Quiet, SameForeign
    <3>4. QED BY <3>1, <3>3, SameForeignTransitive DEF Quiet
  <2>3. QED
    <3>1. \A b \in Nat : b \in T => b + 1 \in T BY <2>2
    <3> HIDE DEF T
    <3>2. Nat \subseteq T BY <2>1, <3>1, SetInduction
    <3> USE DEF T
    <3>3. QED BY <3>2
<1>6. Quiet(s, after[N])
  <2> HIDE DEF N, after
  <2> QED BY <1>1, <1>5
<1>7. QED BY <1>2, <1>6

\* The operations of a transaction without nested ones.
SafeOps(ops) == Len(ops) \in Nat /\ \A i \in 1 .. Len(ops) : SafeOp(ops[i])

\* A branch of operations, applied in order; a server that breaks up the transaction
\* ("splitTxn") commits after every one of them.
LEMMA BranchQuiet ==
  ASSUME NEW s, NEW m, NEW ops, StoreOK(s), SameForeign(Latest(s), m), SafeOps(ops)
  PROVE  LET b == Branch(s, m, ops, OpResult)
         IN  StoreOK(b.s) /\ SameForeign(m, Latest(b.s)) /\ SameForeign(m, b.map)
<1> DEFINE base == [s |-> s, map |-> m, dirty |-> FALSE, resps |-> <<>>]
           Applied(acc, c) ==
             LET x == OpResult(acc.s, acc.map, c)
                 split == acc.s.breach = "splitTxn" /\ x.dirty
             IN  [s |-> IF split THEN Commit(acc.s, x.map, TRUE) ELSE acc.s,
                  map |-> x.map, dirty |-> (acc.dirty \/ x.dirty) /\ ~split,
                  resps |-> Append(acc.resps, x.resp)]
           Is(f, b) == f = [i \in 0 .. b |-> IF i = 0 THEN base ELSE Applied(f[i - 1], ops[i])]
           N == Len(ops)
           after == CHOOSE f : Is(f, N)
           OK(acc) == StoreOK(acc.s) /\ SameForeign(m, Latest(acc.s)) /\ SameForeign(m, acc.map)
<1>1. N \in Nat /\ \A i \in 1 .. N : SafeOp(ops[i]) BY DEF SafeOps
<1>2. Branch(s, m, ops, OpResult) = after[N] BY DEF Branch
<1>3. \A b \in Nat : \E f : Is(f, b)
  <2> HIDE DEF base, Applied
  <2> DEFINE T == {b \in Nat : \E f : Is(f, b)}
  <2>1. 0 \in T
    <3>1. Is([i \in 0 .. 0 |-> base], 0) OBVIOUS
    <3>2. QED BY <3>1
  <2>2. ASSUME NEW b \in Nat, b \in T PROVE b + 1 \in T
    <3>1. PICK f : Is(f, b) BY <2>2
    <3> DEFINE g == [i \in 0 .. b + 1 |-> IF i = 0 THEN base ELSE Applied(f[i - 1], ops[i])]
    <3>2. \A i \in 1 .. b + 1 : g[i - 1] = f[i - 1] BY <3>1
    <3>3. Is(g, b + 1)
      <4>1. ASSUME NEW i \in 0 .. b + 1
            PROVE  g[i] = IF i = 0 THEN base ELSE Applied(g[i - 1], ops[i])
        <5>1. CASE i = 0 BY <5>1
        <5>2. CASE i # 0
          <6>1. i \in 1 .. b + 1 BY <5>2
          <6>2. g[i] = Applied(f[i - 1], ops[i]) BY <5>2
          <6>3. QED BY <3>2, <5>2, <6>1, <6>2
        <5>3. QED BY <5>1, <5>2
      <4>2. DOMAIN g = 0 .. b + 1 /\ g = [i \in 0 .. b + 1 |-> g[i]] OBVIOUS
      <4> HIDE DEF g
      <4>3. QED BY <4>1, <4>2
    <3>4. \E h : Is(h, b + 1)
      <4> HIDE DEF Is, g
      <4>1. QED BY <3>3
    <3>5. QED BY <3>4
  <2>3. QED
    <3> HIDE DEF T
    <3>1. Nat \subseteq T BY <2>1, <2>2, SetInduction
    <3> USE DEF T
    <3>2. QED BY <3>1
<1>4. Is(after, N) BY <1>1, <1>3
<1>5. \A b \in Nat : b <= N => OK(after[b])
  <2> DEFINE T == {b \in Nat : b <= N => OK(after[b])}
  <2>1. 0 \in T
    <3>1. after[0] = base
      <4> HIDE DEF N, after, Applied, base
      <4>1. QED BY <1>4, <1>1
    <3>2. OK(base) BY DEF SameForeign
    <3> HIDE DEF after, OK
    <3>3. QED BY <3>1, <3>2
  <2>2. ASSUME NEW b \in Nat, b \in T, b + 1 <= N PROVE OK(after[b + 1])
    <3> DEFINE acc == after[b]
               x == OpResult(acc.s, acc.map, ops[b + 1])
    <3>1. OK(acc)
      <4> HIDE DEF N, after, OK
      <4>1. QED BY <2>2, <1>1
    <3>2. after[b + 1] = Applied(acc, ops[b + 1])
      <4> HIDE DEF N, after, Applied, base
      <4>1. QED BY <2>2, <1>4, <1>1
    <3>3. SafeOp(ops[b + 1])
      <4> HIDE DEF N, OK, after, T
      <4>1. QED BY <2>2, <1>1
    <3> HIDE DEF after, acc, N
    <3>4. SameForeign(Latest(acc.s), acc.map) BY <3>1 DEF SameForeign
    <3>5. SameForeign(acc.map, x.map) BY <3>1, <3>3, <3>4, OpResultQuiet
    <3> HIDE DEF x
    <3>6. SameForeign(m, x.map) BY <3>1, <3>5, SameForeignTransitive
    <3>7. SameForeign(Latest(acc.s), x.map) BY <3>4, <3>5, SameForeignTransitive
    <3>8. Quiet(acc.s, Commit(acc.s, x.map, TRUE)) BY <3>1, <3>7, CommitQuiet
    <3>9. SameForeign(m, Latest(Commit(acc.s, x.map, TRUE)))
      BY <3>1, <3>8, SameForeignTransitive DEF Quiet
    <3>10. /\ Applied(acc, ops[b + 1]).map = x.map
           /\ Applied(acc, ops[b + 1]).s \in {acc.s, Commit(acc.s, x.map, TRUE)}
      BY DEF x
    <3> HIDE DEF Applied
    <3>11. OK(Applied(acc, ops[b + 1])) BY <3>1, <3>6, <3>8, <3>9, <3>10 DEF Quiet
    <3> HIDE DEF OK
    <3>12. QED BY <3>2, <3>11
  <2>3. QED
    <3>1. \A b \in Nat : b \in T => b + 1 \in T
      <4> HIDE DEF OK, after, N
      <4>1. QED BY <2>2
    <3> HIDE DEF T
    <3>2. Nat \subseteq T BY <2>1, <3>1, SetInduction
    <3> USE DEF T
    <3> HIDE DEF OK, after, N
    <3>3. QED BY <3>2
<1>6. OK(after[N])
  <2> HIDE DEF OK, N, after
  <2> QED BY <1>1, <1>5
<1>7. QED
  <2> HIDE DEF N, after
  <2> QED BY <1>2, <1>6

\* An operation of a branch, which may be a transaction itself.
SafeNested(c) == IF c.op = "txn" THEN SafeOps(c.then) /\ SafeOps(c.else) ELSE SafeOp(c)

\* The operations of a branch.
SafeBranch(ops) == Len(ops) \in Nat /\ \A i \in 1 .. Len(ops) : SafeNested(ops[i])

\* An operation of a branch, a nested transaction included, leaves the foreign keys alone.
LEMMA NestedResultQuiet ==
  ASSUME NEW s, NEW m, NEW c, StoreOK(s), SameForeign(Latest(s), m), SafeNested(c)
  PROVE  SameForeign(m, NestedResult(s, m, c).map)
<1>1. CASE c.op = "txn"
  <2> DEFINE ops == Taken(s, m, c)
  <2>1. SafeOps(ops) BY <1>1 DEF SafeNested, Taken
  <2>2. NestedResult(s, m, c).map = Branch(s, m, ops, OpResult).map BY <1>1 DEF NestedResult
  <2> HIDE DEF ops
  <2>3. SameForeign(m, Branch(s, m, ops, OpResult).map) BY <2>1, BranchQuiet
  <2>4. QED BY <2>2, <2>3
<1>2. CASE c.op # "txn"
  BY <1>2, OpResultQuiet DEF NestedResult, SafeNested
<1>3. QED BY <1>1, <1>2

\* BranchQuiet for a branch that holds nested transactions.
LEMMA NestedBranchQuiet ==
  ASSUME NEW s, NEW m, NEW ops, StoreOK(s), SameForeign(Latest(s), m), SafeBranch(ops)
  PROVE  LET b == Branch(s, m, ops, NestedResult)
         IN  StoreOK(b.s) /\ SameForeign(m, Latest(b.s)) /\ SameForeign(m, b.map)
<1> DEFINE base == [s |-> s, map |-> m, dirty |-> FALSE, resps |-> <<>>]
           Applied(acc, c) ==
             LET x == NestedResult(acc.s, acc.map, c)
                 split == acc.s.breach = "splitTxn" /\ x.dirty
             IN  [s |-> IF split THEN Commit(acc.s, x.map, TRUE) ELSE acc.s,
                  map |-> x.map, dirty |-> (acc.dirty \/ x.dirty) /\ ~split,
                  resps |-> Append(acc.resps, x.resp)]
           Is(f, b) == f = [i \in 0 .. b |-> IF i = 0 THEN base ELSE Applied(f[i - 1], ops[i])]
           N == Len(ops)
           after == CHOOSE f : Is(f, N)
           OK(acc) == StoreOK(acc.s) /\ SameForeign(m, Latest(acc.s)) /\ SameForeign(m, acc.map)
<1>1. N \in Nat /\ \A i \in 1 .. N : SafeNested(ops[i]) BY DEF SafeBranch
<1>2. Branch(s, m, ops, NestedResult) = after[N] BY DEF Branch
<1>3. \A b \in Nat : \E f : Is(f, b)
  <2> HIDE DEF base, Applied
  <2> DEFINE T == {b \in Nat : \E f : Is(f, b)}
  <2>1. 0 \in T
    <3>1. Is([i \in 0 .. 0 |-> base], 0) OBVIOUS
    <3>2. QED BY <3>1
  <2>2. ASSUME NEW b \in Nat, b \in T PROVE b + 1 \in T
    <3>1. PICK f : Is(f, b) BY <2>2
    <3> DEFINE g == [i \in 0 .. b + 1 |-> IF i = 0 THEN base ELSE Applied(f[i - 1], ops[i])]
    <3>2. \A i \in 1 .. b + 1 : g[i - 1] = f[i - 1] BY <3>1
    <3>3. Is(g, b + 1)
      <4>1. ASSUME NEW i \in 0 .. b + 1
            PROVE  g[i] = IF i = 0 THEN base ELSE Applied(g[i - 1], ops[i])
        <5>1. CASE i = 0 BY <5>1
        <5>2. CASE i # 0
          <6>1. i \in 1 .. b + 1 BY <5>2
          <6>2. g[i] = Applied(f[i - 1], ops[i]) BY <5>2
          <6>3. QED BY <3>2, <5>2, <6>1, <6>2
        <5>3. QED BY <5>1, <5>2
      <4>2. DOMAIN g = 0 .. b + 1 /\ g = [i \in 0 .. b + 1 |-> g[i]] OBVIOUS
      <4> HIDE DEF g
      <4>3. QED BY <4>1, <4>2
    <3>4. \E h : Is(h, b + 1)
      <4> HIDE DEF Is, g
      <4>1. QED BY <3>3
    <3>5. QED BY <3>4
  <2>3. QED
    <3> HIDE DEF T
    <3>1. Nat \subseteq T BY <2>1, <2>2, SetInduction
    <3> USE DEF T
    <3>2. QED BY <3>1
<1>4. Is(after, N) BY <1>1, <1>3
<1>5. \A b \in Nat : b <= N => OK(after[b])
  <2> DEFINE T == {b \in Nat : b <= N => OK(after[b])}
  <2>1. 0 \in T
    <3>1. after[0] = base
      <4> HIDE DEF N, after, Applied, base
      <4>1. QED BY <1>4, <1>1
    <3>2. OK(base) BY DEF SameForeign
    <3> HIDE DEF after, OK
    <3>3. QED BY <3>1, <3>2
  <2>2. ASSUME NEW b \in Nat, b \in T, b + 1 <= N PROVE OK(after[b + 1])
    <3> DEFINE acc == after[b]
               x == NestedResult(acc.s, acc.map, ops[b + 1])
    <3>1. OK(acc)
      <4> HIDE DEF N, after, OK
      <4>1. QED BY <2>2, <1>1
    <3>2. after[b + 1] = Applied(acc, ops[b + 1])
      <4> HIDE DEF N, after, Applied, base
      <4>1. QED BY <2>2, <1>4, <1>1
    <3>3. SafeNested(ops[b + 1])
      <4> HIDE DEF N, OK, after, T
      <4>1. QED BY <2>2, <1>1
    <3> HIDE DEF after, acc, N
    <3>4. SameForeign(Latest(acc.s), acc.map) BY <3>1 DEF SameForeign
    <3>5. SameForeign(acc.map, x.map) BY <3>1, <3>3, <3>4, NestedResultQuiet
    <3> HIDE DEF x
    <3>6. SameForeign(m, x.map) BY <3>1, <3>5, SameForeignTransitive
    <3>7. SameForeign(Latest(acc.s), x.map) BY <3>4, <3>5, SameForeignTransitive
    <3>8. Quiet(acc.s, Commit(acc.s, x.map, TRUE)) BY <3>1, <3>7, CommitQuiet
    <3>9. SameForeign(m, Latest(Commit(acc.s, x.map, TRUE)))
      BY <3>1, <3>8, SameForeignTransitive DEF Quiet
    <3>10. /\ Applied(acc, ops[b + 1]).map = x.map
           /\ Applied(acc, ops[b + 1]).s \in {acc.s, Commit(acc.s, x.map, TRUE)}
      BY DEF x
    <3> HIDE DEF Applied
    <3>11. OK(Applied(acc, ops[b + 1])) BY <3>1, <3>6, <3>8, <3>9, <3>10 DEF Quiet
    <3> HIDE DEF OK
    <3>12. QED BY <3>2, <3>11
  <2>3. QED
    <3>1. \A b \in Nat : b \in T => b + 1 \in T
      <4> HIDE DEF OK, after, N
      <4>1. QED BY <2>2
    <3> HIDE DEF T
    <3>2. Nat \subseteq T BY <2>1, <3>1, SetInduction
    <3> USE DEF T
    <3> HIDE DEF OK, after, N
    <3>3. QED BY <3>2
<1>6. OK(after[N])
  <2> HIDE DEF OK, N, after
  <2> QED BY <1>1, <1>5
<1>7. QED
  <2> HIDE DEF N, after
  <2> QED BY <1>2, <1>6

\* A call that writes only keys of the scenario, or the empty key, which etcd refuses.
SafeCall(c) ==
    /\ c.op = "put" => c.key \in {0} \cup OwnKeys
    /\ c.op = "delete" => c.lo = 0 \/ (c.lo \in OwnKeys /\ c.hi \in OwnKeys)
    /\ c.op = "txn" => SafeBranch(c.then) /\ SafeBranch(c.else)

\* A call that changes nothing, as reads and refused requests do.
LEMMA QuietReflexive ==
  ASSUME NEW s, StoreOK(s)
  PROVE  Quiet(s, s)
BY DEF Quiet, SameForeign

\* A change of the watchers or of the compacted revision changes no key.
LEMMA WatchersQuiet ==
  ASSUME NEW s, NEW t, StoreOK(s), IsStore(t), t.rev = s.rev, t.hist = s.hist,
         t.leases = s.leases
  PROVE  Quiet(s, t)
BY OtherFieldsQuiet DEF StoreOK

\* A client that sees a revision in a header changes no key.
LEMMA ShownQuiet ==
  ASSUME NEW s, NEW n, StoreOK(s)
  PROVE  Quiet(s, Shown(s, n))
<1>1. /\ IsStore(Shown(s, n)) /\ Shown(s, n).rev = s.rev /\ Shown(s, n).hist = s.hist
      /\ Shown(s, n).leases = s.leases
  BY DEF StoreOK, IsStore, StoreFields, Shown
<1>2. QED BY <1>1, WatchersQuiet

\* Two steps that leave the foreign keys alone, one after the other.
LEMMA QuietTransitive ==
  ASSUME NEW s, NEW t, NEW u, Quiet(s, t), Quiet(t, u)
  PROVE  Quiet(s, u)
BY SameForeignTransitive DEF Quiet

\* A watcher that is closed changes no key.
LEMMA ClosedQuiet ==
  ASSUME NEW s, NEW i, StoreOK(s)
  PROVE  Quiet(s, Closed(s, i))
BY WatchersQuiet DEF StoreOK, IsStore, StoreFields, Closed

\* Delivering events to a watcher changes no key.
LEMMA DeliveredQuiet ==
  ASSUME NEW s, NEW i, NEW n, StoreOK(s)
  PROVE  Quiet(s, Delivered(s, i, n).s)
<1> DEFINE w == s.watchers[i]
           t == [s EXCEPT !.watchers[i].next = Revs(s, w)[n] + 1, !.watchers[i].synced = TRUE]
<1>1. IsStore(t) /\ t.rev = s.rev /\ t.hist = s.hist /\ t.leases = s.leases
  BY DEF StoreOK, IsStore, StoreFields
<1>2. Delivered(s, i, n).s \in {Closed(s, i), Shown(t, s.rev)} BY DEF Delivered
<1> HIDE DEF t
<1>3. Quiet(s, t) BY <1>1, WatchersQuiet
<1>4. Quiet(s, Shown(t, s.rev)) BY <1>3, ShownQuiet, QuietTransitive DEF Quiet
<1>5. QED BY <1>2, <1>4, ClosedQuiet

\* Delivering a progress notification changes no key.
LEMMA ProgressedQuiet ==
  ASSUME NEW s, NEW i, NEW n, StoreOK(s)
  PROVE  Quiet(s, Progressed(s, i, n).s)
<1> DEFINE t == [s EXCEPT !.watchers[i].progress = @ - 1]
<1>1. IsStore(t) /\ t.rev = s.rev /\ t.hist = s.hist /\ t.leases = s.leases
  BY DEF StoreOK, IsStore, StoreFields
<1>2. Progressed(s, i, n).s = Shown(t, n) BY DEF Progressed
<1> HIDE DEF t
<1>3. Quiet(s, t) BY <1>1, WatchersQuiet
<1>4. QED BY <1>2, <1>3, ShownQuiet, QuietTransitive DEF Quiet

\* Whatever a watcher receives, no key changes.
LEMMA DeliveriesQuiet ==
  ASSUME NEW s, NEW i, StoreOK(s), NEW o \in Deliveries(s, i)
  PROVE  Quiet(s, o.s)
<1> DEFINE created == [s EXCEPT !.watchers[i].created = FALSE]
<1>1. \/ o.s \in {s, Closed(s, i), created}
      \/ \E n : o = Delivered(s, i, n)
      \/ \E n : o = Progressed(s, i, n)
  BY DEF Deliveries, Answer
<1>2. Quiet(s, created) BY WatchersQuiet DEF StoreOK, IsStore, StoreFields
<1> HIDE DEF created
<1>3. QED BY <1>1, <1>2, ClosedQuiet, DeliveredQuiet, ProgressedQuiet, QuietReflexive

\* Granting a lease (lessor.Grant) adds it to the table, without keys.
LEMMA GrantQuiet ==
  ASSUME NEW s, NEW c, StoreOK(s), NEW o \in GrantOutcomes(s, c)
  PROVE  Quiet(s, o.s)
<1> DEFINE ttl == IF c.ttl = 0 THEN 1 ELSE c.ttl
           t == [s EXCEPT !.wasLive = Live(s), !.leases = Append(@, NewLease(ttl))]
<1>1. o.s \in {s, t}
  <2> DEFINE granted == [Say(s, "grant") EXCEPT !.lease = Len(s.leases) + 1, !.ttl = ttl]
  <2>1. \E e : o \in Answer(s, e) \cup Answer(t, granted)
    BY DEF GrantOutcomes
  <2>2. QED BY <2>1 DEF Answer
<1>2. IsStore(t) /\ t.rev = s.rev /\ t.hist = s.hist /\ t.leases = Append(s.leases, NewLease(ttl))
  BY DEF StoreOK, IsStore, StoreFields
<1> HIDE DEF t
<1>3. IsSequence(t.leases) BY <1>2, AppendIsSequence DEF StoreOK
<1>4. QED BY <1>1, <1>2, <1>3, OtherFieldsQuiet, QuietReflexive

\* Revoking a lease (lessor.Revoke) deletes only the keys attached to it.
LEMMA RevokeQuiet ==
  ASSUME NEW s, NEW l, StoreOK(s), NEW o \in RevokeOutcomes(s, l)
  PROVE  Quiet(s, o.s)
<1>1. o.s = s \/ (o.s = EndLease(s, l) /\ l \in Live(s))
  BY DEF RevokeOutcomes, Answer, Gone
<1>2. l \in Live(s) => l # 0 BY DEF Live, StoreOK, IsSequence
<1>3. QED BY <1>1, <1>2, EndLeaseQuiet, QuietReflexive

\* Renewing a lease changes its record only.
LEMMA LeaseRecordQuiet ==
  ASSUME NEW s, NEW t, NEW l, NEW e, StoreOK(s), IsStore(t), t.rev = s.rev, t.hist = s.hist,
         t.leases = [s.leases EXCEPT ![l] = e]
  PROVE  Quiet(s, t)
<1>1. IsSequence(s.leases) BY DEF StoreOK
<1>2. IsSequence([s.leases EXCEPT ![l] = e]) BY ONLY <1>1, ExceptIsSequence
<1>3. QED BY <1>2, OtherFieldsQuiet

\* A keep-alive stream on a lease changes its record only.
LEMMA KeepAliveQuiet ==
  ASSUME NEW s, NEW l, StoreOK(s), NEW o \in KeepAliveOutcomes(s, l)
  PROVE  Quiet(s, o.s)
<1> DEFINE t == [s EXCEPT !.leases[l].kept = TRUE, !.leases[l].buffered = 1]
<1>1. o.s \in {s, t} BY DEF KeepAliveOutcomes, Answer
<1>2. /\ IsStore(t) /\ t.rev = s.rev /\ t.hist = s.hist
      /\ t.leases = [[s.leases EXCEPT ![l].kept = TRUE] EXCEPT ![l].buffered = 1]
  BY DEF StoreOK, IsStore, StoreFields
<1>3. \E d, e : t.leases = [[s.leases EXCEPT ![l] = d] EXCEPT ![l] = e] BY <1>2
<1> HIDE DEF t
<1>4. IsSequence(t.leases)
  <2>1. PICK d, e : t.leases = [[s.leases EXCEPT ![l] = d] EXCEPT ![l] = e] BY <1>3
  <2>2. IsSequence(s.leases) BY DEF StoreOK
  <2>3. IsSequence([s.leases EXCEPT ![l] = d]) BY ONLY <2>2, ExceptIsSequence
  <2>4. IsSequence([[s.leases EXCEPT ![l] = d] EXCEPT ![l] = e]) BY ONLY <2>3, ExceptIsSequence
  <2>5. QED BY <2>1, <2>4
<1>5. QED BY <1>1, <1>2, <1>4, OtherFieldsQuiet, QuietReflexive

\* The answers a keep-alive stream buffers are part of the lease's record.
LEMMA BufferedQuiet ==
  ASSUME NEW s, NEW l, NEW n, StoreOK(s)
  PROVE  /\ \A o \in RecvAliveOutcomes(s, l) : Quiet(s, o.s)
         /\ \A o \in AwaitBufferedOutcomes(s, l, n) : Quiet(s, o.s)
<1> DEFINE t(b) == [s EXCEPT !.leases[l].buffered = b]
<1>1. ASSUME NEW b PROVE Quiet(s, t(b))
  <2>1. /\ IsStore(t(b)) /\ t(b).rev = s.rev /\ t(b).hist = s.hist
        /\ t(b).leases = [s.leases EXCEPT ![l].buffered = b]
    BY DEF StoreOK, IsStore, StoreFields
  <2>2. PICK e : t(b).leases = [s.leases EXCEPT ![l] = e] BY <2>1
  <2> HIDE DEF t
  <2>3. QED BY <2>1, <2>2, LeaseRecordQuiet
<1>2. \A o \in RecvAliveOutcomes(s, l) : o.s \in {s, t(s.leases[l].buffered - 1)}
  BY DEF RecvAliveOutcomes, Answer
<1>3. \A o \in AwaitBufferedOutcomes(s, l, n) : o.s \in {s, t(n)}
  BY DEF AwaitBufferedOutcomes, Answer
<1> HIDE DEF t
<1>4. QED BY <1>1, <1>2, <1>3, QuietReflexive

\* Every outcome of every call of the lease API.
LEMMA LeaseOutcomesQuiet ==
  ASSUME NEW s, NEW c, StoreOK(s), c.op \in LeaseOps, NEW o \in LeaseOutcomes(s, c)
  PROVE  Quiet(s, o.s)
<1>1. \/ o \in GrantOutcomes(s, c) \/ o \in RevokeOutcomes(s, c.lease)
      \/ o \in KeepAliveOutcomes(s, c.lease) \/ o \in RecvAliveOutcomes(s, c.lease)
      \/ o \in AwaitBufferedOutcomes(s, c.lease, c.count)
      \/ o.s \in {s, Elapse(s, c.ttl)}
  BY DEF LeaseOutcomes, LeasesOutcomes, Answer, LeaseOps
<1>2. QED
  BY <1>1, GrantQuiet, RevokeQuiet, KeepAliveQuiet, BufferedQuiet, ElapseQuiet, QuietReflexive

\* A transaction, one revision or several.
LEMMA TxnQuiet ==
  ASSUME NEW s, NEW c, StoreOK(s), SafeBranch(c.then), SafeBranch(c.else),
         NEW o \in TxnOutcomes(s, c)
  PROVE  Quiet(s, o.s)
<1> DEFINE m == Latest(s)
           ops == Taken(s, m, c)
           b == Branch(s, m, ops, NestedResult)
<1>1. o.s = Commit(b.s, b.map, b.dirty) BY DEF TxnOutcomes, Answer
<1>2. SafeBranch(ops) BY DEF Taken
<1>3. StoreOK(b.s) /\ SameForeign(m, Latest(b.s)) /\ SameForeign(m, b.map)
  <2> SameForeign(m, m) BY DEF SameForeign
  <2> HIDE DEF ops
  <2> QED BY <1>2, NestedBranchQuiet
<1> HIDE DEF b
<1>4. SameForeign(Latest(b.s), b.map) BY <1>3 DEF SameForeign
<1>5. Quiet(b.s, o.s) BY <1>1, <1>3, <1>4, CommitQuiet
<1>6. QED BY <1>3, <1>5, SameForeignTransitive DEF Quiet

\* Opening, cancelling and closing watchers.
LEMMA WatchOutcomesQuiet ==
  ASSUME NEW s, NEW c, StoreOK(s), NEW o \in WatchOutcomes(s, c)
  PROVE  Quiet(s, o.s)
<1>1. o.s = [s EXCEPT !.watchers = Watchers(s, c)] BY DEF WatchOutcomes, Answer
<1>2. IsStore(o.s) /\ o.s.rev = s.rev /\ o.s.hist = s.hist /\ o.s.leases = s.leases
  BY <1>1 DEF StoreOK, IsStore, StoreFields
<1>3. QED BY <1>2, WatchersQuiet

\* A compaction forgets revisions, not keys.
LEMMA CompactQuiet ==
  ASSUME NEW s, NEW c, StoreOK(s), NEW o \in CompactOutcomes(s, c)
  PROVE  Quiet(s, o.s)
<1>1. o.s = s \/ o.s = [s EXCEPT !.compacted = c.rev] BY DEF CompactOutcomes, Answer
<1>2. IsStore(o.s) /\ o.s.rev = s.rev /\ o.s.hist = s.hist /\ o.s.leases = s.leases
  BY <1>1 DEF StoreOK, IsStore, StoreFields
<1>3. QED BY <1>2, WatchersQuiet

\* What the suite relies on: no outcome of a call on the scenario's keys, the breaches of the
\* server included, changes a foreign key or attaches one to a lease.
LEMMA OutcomesQuiet ==
  ASSUME NEW s, NEW c, StoreOK(s), SafeCall(c), NEW o \in Outcomes(s, c)
  PROVE  Quiet(s, o.s)
<1>1. CASE RequestError(s, c) # "none"
  <2>1. o.s = s BY <1>1 DEF Outcomes, Answer
  <2>2. QED BY <2>1, QuietReflexive
<1>2. CASE RequestError(s, c) = "none" /\ c.op \in {"put", "delete"}
  <2> DEFINE x == OpResult(s, Latest(s), c)
  <2>1. o.s = Commit(s, x.map, x.dirty) BY <1>2 DEF Outcomes, Written, Answer, LeaseOps, WatchOps
  <2>2. c.op = "put" => c.key # 0
    BY <1>2 DEF RequestError, ErrorOf
  <2>3. c.op = "delete" => c.lo # 0
    BY <1>2 DEF RequestError, ErrorOf
  <2>4. SafeOp(c) BY <2>2, <2>3 DEF SafeCall, SafeOp
  <2>5. SameForeign(Latest(s), x.map) BY <2>4, OpResultQuiet
  <2> HIDE DEF x
  <2>6. QED BY <2>1, <2>5, CommitQuiet
<1>3. CASE RequestError(s, c) = "none" /\ c.op = "txn"
  <2>1. o \in TxnOutcomes(s, c) BY <1>3 DEF Outcomes, LeaseOps, WatchOps
  <2>2. QED BY <1>3, <2>1, TxnQuiet DEF SafeCall
<1>4. CASE RequestError(s, c) = "none" /\ c.op \notin {"put", "delete", "txn"}
  <2>1. \/ o \in GetOutcomes(s, c) \/ o \in CompactOutcomes(s, c)
        \/ c.op \in LeaseOps /\ o \in LeaseOutcomes(s, c)
        \/ c.op \in WatchOps /\ o \in WatchOutcomes(s, c)
        \/ o \in HashOutcomes(s, c) \/ o \in Deliveries(s, c.watcher)
    BY <1>4 DEF Outcomes
  <2>2. o \in GetOutcomes(s, c) \/ o \in HashOutcomes(s, c) => o.s = s
    BY DEF GetOutcomes, HashOutcomes, Answer
  <2>3. QED
    BY <2>1, <2>2, CompactQuiet, LeaseOutcomesQuiet, WatchOutcomesQuiet, DeliveriesQuiet,
      QuietReflexive
<1>5. QED BY <1>1, <1>2, <1>3, <1>4

-----------------------------------------------------------------------------
(* The calls and the steps of a scenario *)

\* The keys that scenarios name one by one; only the transactions with MaxTxnOps operations
\* reach further.
TestKeys == 10 .. 110

\* Where the keys of an attempt start.
FirstKeys == {10, 40, 70}

\* A request that writes nothing under any answer.
Harmless(c) == "op" \in DOMAIN c /\ c.op \notin {"put", "delete", "txn"}

\* A step of a scenario whose call is safe.
SafeStep(st) == "call" \in DOMAIN st /\ SafeCall(st.call)

\* A part of a scenario, all of whose steps are safe.
SafePart(p) == \E V : p \in Seq(V) /\ \A st \in V : SafeStep(st)

\* A scenario, all of whose steps are safe; it makes a call at least.
SafeProgram(p) == SafePart(p) /\ Len(p) >= 1

\* A put of one of the scenario's keys.
IsPut(c) == /\ {"op", "key"} \subseteq DOMAIN c /\ c.op = "put" /\ c.key \in OwnKeys

\* Puts of the scenario's keys, with their options; the empty key is refused.
LEMMA PutCalls ==
  /\ \A k, v : k \in TestKeys => IsPut(Put(k, v))
  /\ \A v : SafeCall(Put(0, v))
  /\ \A c, o : IsPut(c) => IsPut(With(c, o))
  /\ \A c, l : IsPut(c) => IsPut(WithLease(c, l))
  /\ \A c : IsPut(c) => SafeCall(c) /\ SafeNested(c) /\ SafeOp(c)
BY DEF IsPut, Put, With, WithLease, SafeCall, SafeNested, SafeOp, TestKeys, OwnKeys

\* A deletion within the scenario's keys.
IsDelete(c) ==
    {"op", "lo", "hi"} \subseteq DOMAIN c /\ c.op = "delete" /\ c.lo \in OwnKeys /\ c.hi \in OwnKeys

\* Deletions of the scenario's keys: one, a range or a prefix, never "from key" without end.
LEMMA DeleteCalls ==
  /\ \A k : k \in TestKeys => IsDelete(Delete(k))
  /\ \A c, o : IsDelete(c) => IsDelete(With(c, o))
  /\ \A c, e : IsDelete(c) /\ e \in TestKeys => IsDelete(WithRange(c, e))
  /\ \A k : k \in TestKeys => IsDelete(WithPrefix(Delete(k)))
  /\ \A c : IsDelete(c) => SafeCall(c) /\ SafeNested(c) /\ SafeOp(c)
  /\ SafeCall(Delete(0))
BY DEF IsDelete, Delete, With, WithRange, WithPrefix, SafeCall, SafeNested, SafeOp, TestKeys,
  OwnKeys, Width

\* The requests that write nothing.
LEMMA Requests ==
  /\ \A k : Harmless(Get(k)) /\ Harmless(Watch(k))
  /\ \A n : Harmless(Compact(n)) /\ Harmless(Grant(n)) /\ Harmless(Sleep(n)) /\ Harmless(HashKV(n))
  /\ \A l : /\ Harmless(Revoke(l)) /\ Harmless(TimeToLive(l)) /\ Harmless(KeepAliveOnce(l))
            /\ Harmless(KeepAlive(l)) /\ Harmless(RecvAlive(l)) /\ Harmless(AwaitTTL(l))
  /\ \A l, n : Harmless(AwaitBuffered(l, n))
  /\ \A w : Harmless(Recv(w)) /\ Harmless(Cancel(w))
  /\ Harmless(Leases) /\ Harmless(CloseWatcher) /\ Harmless(RequestProgress)
BY DEF Harmless, Get, Watch, Compact, Grant, Sleep, HashKV, Revoke, TimeToLive, KeepAliveOnce,
       KeepAlive, RecvAlive, AwaitTTL, AwaitBuffered, Recv, Cancel, Leases, CloseWatcher,
         RequestProgress

\* The options of clientv3 (op.go) keep such a request harmless.
LEMMA Options ==
  /\ \A c, o : Harmless(c) => Harmless(With(c, o))
  /\ \A c, n : Harmless(c) => Harmless(WithRange(c, n)) /\ Harmless(WithRev(c, n))
  /\ \A c, n : Harmless(c) => Harmless(WithLimit(c, n))
  /\ \A c : Harmless(c) => Harmless(WithPrefix(c)) /\ Harmless(WithFromKey(c))
  /\ \A c, b, o : Harmless(c) => Harmless(WithSort(c, b, o))
  /\ \A c, n : Harmless(c) => /\ Harmless([c EXCEPT !.minMod = n])
                              /\ Harmless([c EXCEPT !.maxMod = n])
                              /\ Harmless([c EXCEPT !.minCreate = n])
                              /\ Harmless([c EXCEPT !.maxCreate = n])
  /\ \A c : Harmless(c) => SafeCall(c) /\ SafeNested(c) /\ SafeOp(c)
BY DEF Harmless, With, WithRange, WithRev, WithLimit, WithPrefix, WithFromKey, WithSort,
  SafeCall, SafeNested, SafeOp

\* The forms of a step: what the scenario does with the answer does not matter here.
LEMMA Steps ==
  /\ \A c, ok : SafeCall(c) => SafeStep(Step(c, ok)) /\ SafeStep(Unguarded(c, ok))
  /\ \A c, ok : SafeCall(c) => SafeStep(UnguardedEvent(c, ok))
  /\ \A c, e : SafeCall(c) => SafeStep(Fails(c, e)) /\ SafeStep(Tolerates(c, e))
  /\ \A c : SafeCall(c) => SafeStep(Do(c)) /\ SafeStep(BestEffort(c))
  /\ \A w : SafeStep(Silence(w))
<1>1. /\ \A c, ok : SafeCall(c) => SafeStep(Step(c, ok)) /\ SafeStep(Unguarded(c, ok))
      /\ \A c, ok : SafeCall(c) => SafeStep(UnguardedEvent(c, ok))
      /\ \A c, e : SafeCall(c) => SafeStep(Fails(c, e)) /\ SafeStep(Tolerates(c, e))
      /\ \A c : SafeCall(c) => SafeStep(Do(c)) /\ SafeStep(BestEffort(c))
  BY DEF SafeStep, Step, Unguarded, UnguardedEvent, Fails, Tolerates, Do, BestEffort
<1>2. \A w : SafeCall(Recv(w)) BY Requests, Options
<1>3. \A w : SafeStep(Silence(w)) BY <1>1, <1>2 DEF Silence
<1>4. QED BY <1>1, <1>3

\* A step whose accepted errors or check are given separately.
LEMMA Adjusted ==
  \A st, e : SafeStep(st) => /\ SafeStep([st EXCEPT !.errs = e])
                            /\ SafeStep([st EXCEPT !.ok = e])
                            /\ SafeStep([st EXCEPT !.silent = e])
                            /\ SafeStep(Unreported(st))
BY DEF SafeStep, Unreported

\* Parts of scenarios, one after another.
LEMMA Parts ==
  /\ SafePart(<<>>)
  /\ \A p, q : SafePart(p) /\ SafePart(q) => SafePart(p \o q)
  /\ \A p, q : SafeProgram(p) /\ SafePart(q) => SafeProgram(p \o q)
  /\ \A p : SafeProgram(p) => SafePart(p)
<1>1. SafePart(<<>>)
  <2> DEFINE V == {}
  <2>1. <<>> \in Seq(V) /\ \A st \in V : SafeStep(st) OBVIOUS
  <2> HIDE DEF V
  <2>2. QED BY <2>1 DEF SafePart
<1>2. ASSUME NEW p, NEW q, SafePart(p), SafePart(q)
      PROVE  SafePart(p \o q) /\ (Len(p) >= 1 => Len(p \o q) >= 1)
  <2>1. PICK V : p \in Seq(V) /\ \A st \in V : SafeStep(st) BY <1>2 DEF SafePart
  <2>2. PICK W : q \in Seq(W) /\ \A st \in W : SafeStep(st) BY <1>2 DEF SafePart
  <2>3. p \in Seq(V \cup W) /\ q \in Seq(V \cup W) BY <2>1, <2>2, SeqMonotonic
  <2>4. /\ p \o q \in Seq(V \cup W) /\ Len(p \o q) = Len(p) + Len(q)
        /\ Len(p) \in Nat /\ Len(q) \in Nat
    BY <2>3
  <2>5. \A st \in V \cup W : SafeStep(st) BY <2>1, <2>2
  <2>6. QED BY <2>4, <2>5 DEF SafePart
<1>3. QED BY <1>1, <1>2 DEF SafeProgram

\* A loop of safe steps, whatever the number of its rounds.
LEMMA Loop ==
  ASSUME NEW n \in Nat, NEW f, f = [i \in 1 .. n |-> f[i]], \A i \in 1 .. n : SafeStep(f[i])
  PROVE  SafePart(f) /\ (n >= 1 => SafeProgram(f))
<1> DEFINE V == {f[i] : i \in 1 .. n}
<1>1. f \in [1 .. n -> V] OBVIOUS
<1>2. f \in Seq(V) /\ Len(f) = n BY <1>1
<1>3. \A st \in V : SafeStep(st) OBVIOUS
<1>4. QED BY <1>2, <1>3 DEF SafePart, SafeProgram

\* The bounds of the scenarios' loops.
LEMMA Small ==
  /\ 1 \in 1 .. 8 /\ 2 \in 1 .. 8 /\ 3 \in 1 .. 8 /\ 4 \in 1 .. 8
  /\ 5 \in 1 .. 8 /\ 6 \in 1 .. 8 /\ 8 \in 1 .. 8 /\ Many \in 1 .. 8
BY DEF Many

\* Transactions whose branches are safe, to the number of operations the scenarios use.
LEMMA TxnCalls ==
  /\ SafeBranch(<<>>) /\ SafeOps(<<>>)
  /\ \A a : SafeNested(a) => SafeBranch(<<a>>)
  /\ \A a, b : SafeNested(a) /\ SafeNested(b) => SafeBranch(<<a, b>>)
  /\ \A a, b, c : SafeNested(a) /\ SafeNested(b) /\ SafeNested(c) => SafeBranch(<<a, b, c>>)
  /\ \A a : SafeOp(a) => SafeOps(<<a>>)
  /\ \A c, p, q : SafeOps(p) /\ SafeOps(q) => SafeNested(Txn(c, p, q))
  /\ \A c, p, q : SafeBranch(p) /\ SafeBranch(q) => SafeCall(Txn(c, p, q))
<1>1. SafeBranch(<<>>) /\ SafeOps(<<>>) BY DEF SafeBranch, SafeOps
<1>2. \A a : SafeNested(a) => SafeBranch(<<a>>) BY DEF SafeBranch
<1>3. \A a, b : SafeNested(a) /\ SafeNested(b) => SafeBranch(<<a, b>>) BY DEF SafeBranch
<1>4. \A a, b, c : SafeNested(a) /\ SafeNested(b) /\ SafeNested(c) => SafeBranch(<<a, b, c>>)
  BY DEF SafeBranch
<1>5. \A a : SafeOp(a) => SafeOps(<<a>>) BY DEF SafeOps
<1>6. \A c, p, q : SafeOps(p) /\ SafeOps(q) => SafeNested(Txn(c, p, q)) BY DEF SafeNested, Txn
<1>7. \A c, p, q : SafeBranch(p) /\ SafeBranch(q) => SafeCall(Txn(c, p, q)) BY DEF SafeCall, Txn
<1>8. QED BY <1>1, <1>2, <1>3, <1>4, <1>5, <1>6, <1>7

\* Loop for the bounds of the scenarios.
LEMMA Loops ==
  \A n, f : n \in 1 .. 8 /\ f = [i \in 1 .. n |-> f[i]] /\ (\A i \in 1 .. n : SafeStep(f[i]))
            => SafeProgram(f)
<1> SUFFICES ASSUME NEW n \in 1 .. 8, NEW f, f = [i \in 1 .. n |-> f[i]],
                    \A i \in 1 .. n : SafeStep(f[i])
             PROVE  SafeProgram(f)
  OBVIOUS
<1> QED BY Loop

\* The keys a scenario names lie in its attempt's range.
LEMMA Keys ==
  ASSUME NEW K \in FirstKeys
  PROVE  /\ {K, K + 1, K + 2, K + 3, K + 4, K + 5, K + 6, K + 7, K + 8} \subseteq TestKeys
         /\ K + Width \in TestKeys
         /\ {K + 10, K + 20} \subseteq TestKeys
         /\ \A i \in 1 .. 8 : /\ K + i \in TestKeys /\ K + 10 + i \in TestKeys
                              /\ K + 20 + i \in TestKeys
         /\ {K + 10 + 1, K + 10 + 2, K + 10 + 3, K + 10 + 4, K + 10 + 5} \subseteq TestKeys
         /\ K + 10 + Width \in TestKeys
BY DEF FirstKeys, TestKeys, Width

\* The loops that put K + 1, ..., K + n.
LEMMA PutLoops ==
  \A B, n, v : (\A i \in 1 .. 8 : B + i \in TestKeys) /\ n \in 1 .. 8 => SafeProgram(Puts(B, n, v))
<1> SUFFICES ASSUME NEW B, NEW n \in 1 .. 8, NEW v, \A i \in 1 .. 8 : B + i \in TestKeys
             PROVE  SafeProgram(Puts(B, n, v))
  OBVIOUS
<1>1. ASSUME NEW i \in 1 .. n PROVE SafeStep(Do(Put(B + i, v)))
  BY PutCalls, Steps
<1>2. Puts(B, n, v) = [i \in 1 .. n |-> Do(Put(B + i, v))] BY DEF Puts
<1>3. QED BY <1>1, <1>2, Loop

\* A round of a loop is one of the first eight.
LEMMA Within == \A n \in 1 .. 8 : \A i \in 1 .. n : i \in 1 .. 8
OBVIOUS

\* A scenario written out step by step.
LEMMA ByStep ==
  ASSUME NEW n \in 1 .. 16, NEW p, p = [i \in 1 .. n |-> p[i]], \A i \in 1 .. n : SafeStep(p[i])
  PROVE  SafeProgram(p)
BY Loop

\* One step.
LEMMA Tuple1 ==
  \A a1 :
    SafeStep(a1)
    => SafeProgram(<<a1>>)
BY SMT, ByStep

\* Two steps written one after another.
LEMMA Tuple2 ==
  \A a1, a2 :
    SafeStep(a1) /\ SafeStep(a2)
    => SafeProgram(<<a1, a2>>)
BY SMT, ByStep

\* Three steps written one after another.
LEMMA Tuple3 ==
  \A a1, a2, a3 :
    SafeStep(a1) /\ SafeStep(a2) /\ SafeStep(a3)
    => SafeProgram(<<a1, a2, a3>>)
BY SMT, ByStep

\* Four steps written one after another.
LEMMA Tuple4 ==
  \A a1, a2, a3, a4 :
    SafeStep(a1) /\ SafeStep(a2) /\ SafeStep(a3) /\ SafeStep(a4)
    => SafeProgram(<<a1, a2, a3, a4>>)
BY SMT, ByStep

\* Five steps written one after another.
LEMMA Tuple5 ==
  \A a1, a2, a3, a4, a5 :
    SafeStep(a1) /\ SafeStep(a2) /\ SafeStep(a3) /\ SafeStep(a4) /\ SafeStep(a5)
    => SafeProgram(<<a1, a2, a3, a4, a5>>)
BY SMT, ByStep

\* Six steps written one after another.
LEMMA Tuple6 ==
  \A a1, a2, a3, a4, a5, a6 :
    /\ SafeStep(a1) /\ SafeStep(a2) /\ SafeStep(a3) /\ SafeStep(a4) /\ SafeStep(a5)
    /\ SafeStep(a6)
    => SafeProgram(<<a1, a2, a3, a4, a5, a6>>)
BY SMT, ByStep

\* Seven steps written one after another.
LEMMA Tuple7 ==
  \A a1, a2, a3, a4, a5, a6, a7 :
    /\ SafeStep(a1) /\ SafeStep(a2) /\ SafeStep(a3) /\ SafeStep(a4) /\ SafeStep(a5)
    /\ SafeStep(a6) /\ SafeStep(a7)
    => SafeProgram(<<a1, a2, a3, a4, a5, a6, a7>>)
BY SMT, ByStep

\* Eight steps written one after another.
LEMMA Tuple8 ==
  \A a1, a2, a3, a4, a5, a6, a7, a8 :
    /\ SafeStep(a1) /\ SafeStep(a2) /\ SafeStep(a3) /\ SafeStep(a4) /\ SafeStep(a5)
    /\ SafeStep(a6) /\ SafeStep(a7) /\ SafeStep(a8)
    => SafeProgram(<<a1, a2, a3, a4, a5, a6, a7, a8>>)
BY SMT, ByStep

\* Nine steps written one after another.
LEMMA Tuple9 ==
  \A a1, a2, a3, a4, a5, a6, a7, a8, a9 :
    /\ SafeStep(a1) /\ SafeStep(a2) /\ SafeStep(a3) /\ SafeStep(a4) /\ SafeStep(a5)
    /\ SafeStep(a6) /\ SafeStep(a7) /\ SafeStep(a8) /\ SafeStep(a9)
    => SafeProgram(<<a1, a2, a3, a4, a5, a6, a7, a8, a9>>)
BY SMT, ByStep

\* Thirteen steps written one after another.
LEMMA Tuple13 ==
  \A a1, a2, a3, a4, a5, a6, a7, a8, a9, a10, a11, a12, a13 :
    /\ SafeStep(a1) /\ SafeStep(a2) /\ SafeStep(a3) /\ SafeStep(a4) /\ SafeStep(a5)
    /\ SafeStep(a6) /\ SafeStep(a7) /\ SafeStep(a8) /\ SafeStep(a9) /\ SafeStep(a10)
    /\ SafeStep(a11) /\ SafeStep(a12) /\ SafeStep(a13)
    => SafeProgram(<<a1, a2, a3, a4, a5, a6, a7, a8, a9, a10, a11, a12, a13>>)
BY SMT, ByStep

\* A set of numbers that is not empty has a least element.
LEMMA LeastElement == \A T : T \subseteq Nat /\ T # {} => \E x \in T : \A y \in T : x <= y
<1> SUFFICES ASSUME NEW T, T \subseteq Nat, T # {} PROVE \E x \in T : \A y \in T : x <= y
  OBVIOUS
<1> DEFINE R == OpToRel(<, Nat)
<1>1. PICK x \in T : \A y \in T : ~(<<y, x>> \in R)
  <2>1. IsWellFoundedOn(R, Nat) BY NatLessThanWellFounded
  <2> HIDE DEF R
  <2>2. QED BY <2>1, WFMin
<1>2. \A y \in T : ~(y < x) BY <1>1 DEF OpToRel
<1>3. QED BY <1>2

\* A loop that ends at the first hit, or after m rounds.
LEMMA LeastInBound ==
  \A m \in 1 .. 8 : \A S : S \subseteq 1 .. m => Min({m} \cup S) \in 1 .. 8
<1> SUFFICES ASSUME NEW m \in 1 .. 8, NEW S, S \subseteq 1 .. m
             PROVE  Min({m} \cup S) \in 1 .. 8
  OBVIOUS
<1> DEFINE T == {m} \cup S
<1>1. T \subseteq Nat /\ T # {} /\ T \subseteq 1 .. 8 OBVIOUS
<1>2. \E x \in T : \A y \in T : x <= y
  <2> HIDE DEF T
  <2>1. QED BY <1>1, LeastElement
<1>3. Min(T) \in T BY <1>2 DEF Min
<1>4. QED BY <1>1, <1>3

\* Such a loop of safe steps is safe.
LEMMA BoundedLoops ==
  \A m, S, f : /\ m \in 1 .. 8 /\ S \subseteq 1 .. m
               /\ f = [i \in 1 .. Min({m} \cup S) |-> f[i]]
               /\ \A i \in 1 .. Min({m} \cup S) : SafeStep(f[i])
               => SafePart(f)
BY Zenon, LeastInBound, Loops, Parts

\* The loops that receive from a watcher until they have seen enough.
LEMMA Receiving ==
  \A S, f : /\ S \subseteq 1 .. MaxReceives
            /\ f = [i \in 1 .. Min({MaxReceives} \cup S) |-> f[i]]
            /\ \A i \in 1 .. Min({MaxReceives} \cup S) : SafeStep(f[i])
            => SafePart(f)
<1>1. MaxReceives \in 1 .. 8 BY DEF MaxReceives
<1>2. QED BY Zenon, <1>1, BoundedLoops

\* The loop that requests progress until the watcher has caught up.
LEMMA Progressing == \A r, from, w, rev : SafePart(Progress(r, from, w, rev))
<1> SUFFICES ASSUME NEW r, NEW from, NEW w, NEW rev PROVE SafePart(Progress(r, from, w, rev))
  OBVIOUS
<1> DEFINE n == ProgressAttempts(r, from, rev)
<1>1. n \in 1 .. 8
  <2> DEFINE S == {k \in 1 .. maxProgressRetries :
                     r[from + 2 * k].rev >= rev \/ r[from + 2 * k] = NoResp}
  <2>1. S \subseteq 1 .. maxProgressRetries /\ maxProgressRetries \in 1 .. 8 BY
  DEF maxProgressRetries
  <2>2. n = Min({maxProgressRetries} \cup S) BY DEF ProgressAttempts
  <2> HIDE DEF S, n
  <2>3. QED BY <2>1, <2>2, LeastInBound
<1>2. SafeStep(Do(RequestProgress)) /\ \A ok : SafeStep(Step(Recv(w), ok))
  BY Requests, Options, Steps
<1> DEFINE f == [i \in 1 .. 2 * n |->
                   IF i % 2 = 1 THEN Do(RequestProgress)
                   ELSE Step(Recv(w), /\ IsProgressNotify(r[from + i])
                                      /\ r[from + i].rev >= rev \/ i < 2 * maxProgressRetries)]
<1>3. \A i \in 1 .. 2 * n : SafeStep(f[i])
  <2> HIDE DEF n
  <2>1. QED BY <1>2
<1>4. f = [i \in 1 .. 2 * n |-> f[i]] OBVIOUS
<1>5. SafePart(f)
  <2>1. 2 * n \in Nat BY <1>1
  <2> HIDE DEF f, n
  <2>2. QED BY <1>3, <1>4, <2>1, Loop
<1>6. QED BY <1>5 DEF Progress

-----------------------------------------------------------------------------
(* Longer shapes that several scenarios share *)

\* The calls that most scenarios make.
LEMMA CommonCalls ==
  /\ \A k, v : k \in TestKeys => SafeCall(Put(k, v))
  /\ \A k, v, l : k \in TestKeys => SafeCall(Leased(k, v, l))
  /\ \A k : k \in TestKeys => SafeCall(Delete(k))
  /\ \A k : SafeCall(Get(k))
  /\ \A k, n : SafeCall(WithRev(Get(k), n)) /\ SafeCall(WithRev(Watch(k), n))
  /\ \A n : SafeCall(Compact(n)) /\ SafeCall(Grant(n))
  /\ \A l : SafeCall(Revoke(l)) /\ SafeCall(TimeToLive(l))
  /\ \A l : SafeCall(KeepAlive(l)) /\ SafeCall(RecvAlive(l))
  /\ \A w : SafeCall(Recv(w))
BY Zenon, PutCalls, DeleteCalls, Requests, Options DEF Leased

\* The watcher that the i-th delivery belongs to, of three.
LEMMA Thirds == \A i \in 1 .. 6 : 1 + ((i - 1) % 3) \in 1 .. 8
OBVIOUS

\* waitForKeysToExpire: wait, then read every key.
LEMMA Expiry ==
  /\ \A k, n, r, from : SafePart(waitForKeysToExpire(<<k>>, n, r, from))
  /\ \A j, k, n, r, from : SafePart(waitForKeysToExpire(<<j, k>>, n, r, from))
<1>1. ASSUME NEW ks, NEW n, NEW r, NEW from, DOMAIN ks = 1 .. Len(ks), Len(ks) \in Nat
      PROVE  SafePart(waitForKeysToExpire(ks, n, r, from))
  <2> DEFINE f == [i \in DOMAIN ks |-> Step(Get(ks[i]), None(r[from + 1 + i]))]
  <2>1. \A i \in 1 .. Len(ks) : SafeStep(f[i]) BY <1>1, Requests, Options, Steps
  <2>2. f = [i \in 1 .. Len(ks) |-> f[i]] BY <1>1
  <2> HIDE DEF f
  <2>3. SafePart(f) BY <1>1, <2>1, <2>2, Loop
  <2>4. SafePart(<< Do(Sleep(n)) >>) BY Zenon, Requests, Options, Steps, Tuple1, Parts
  <2>5. SafePart(<< Do(Sleep(n)) >> \o f) BY <2>3, <2>4, Parts
  <2>6. QED BY <2>5 DEF f, waitForKeysToExpire
<1>2. QED BY <1>1

\* A branch of as many puts as the server allows, or more.
LEMMA LongBranch ==
  \A n, F : n \in Nat /\ F = [i \in 1 .. n |-> F[i]] /\ (\A i \in 1 .. n : SafeNested(F[i]))
            => SafeBranch(F)
<1> SUFFICES ASSUME NEW n \in Nat, NEW F, F = [i \in 1 .. n |-> F[i]],
                    \A i \in 1 .. n : SafeNested(F[i])
             PROVE  SafeBranch(F)
  OBVIOUS
<1> DEFINE W == {F[i] : i \in 1 .. n}
<1>1. F \in [1 .. n -> W] OBVIOUS
<1>2. F \in Seq(W) /\ Len(F) = n BY <1>1
<1>3. QED BY <1>2 DEF SafeBranch

\* The second half of RunWatchOrderingGuarantee, puts and deletions mixed.
LEMMA MixedOperationsSafe ==
  ASSUME NEW K \in FirstKeys
  PROVE  \A r, from : SafePart(MixedOperations(K + 10, r, from))
BY Zenon, Keys, Steps, PutCalls, DeleteCalls, Requests, Options, Parts, Receiving, Tuple7
DEF MixedOperations, Notified, ReceiveLoop, Receives

\* The fourteen reads of RunGetWithRange.
LEMMA RangeReadsSafe == \A K, r : SafeProgram(RangeReads(K, r))
<1> SUFFICES ASSUME NEW K, NEW r PROVE SafeProgram(RangeReads(K, r)) OBVIOUS
<1>1. /\ \A k, e : SafeCall(WithRange(Get(k), e)) /\ SafeCall(WithFromKey(Get(k)))
      /\ \A k, e, b, o : SafeCall(WithSort(WithRange(Get(k), e), b, o))
      /\ \A k, e, o : SafeCall(With(WithRange(Get(k), e), o))
      /\ \A k, e, n : SafeCall(WithRev(WithRange(Get(k), e), n))
      /\ \A k, e, n, o : SafeCall(With(WithRev(WithRange(Get(k), e), n), o))
  BY Zenon, Requests, Options
<1>2. RangeReads(K, r) = [i \in 1 .. 14 |-> RangeReads(K, r)[i]]
  BY SMT DEF RangeReads
<1>3. /\ SafeStep(RangeReads(K, r)[1]) /\ SafeStep(RangeReads(K, r)[2])
      /\ SafeStep(RangeReads(K, r)[3]) /\ SafeStep(RangeReads(K, r)[4])
      /\ SafeStep(RangeReads(K, r)[5]) /\ SafeStep(RangeReads(K, r)[6])
      /\ SafeStep(RangeReads(K, r)[7])
  BY SMTT(30), <1>1 DEF RangeReads, Step, SafeStep
<1>4. /\ SafeStep(RangeReads(K, r)[8]) /\ SafeStep(RangeReads(K, r)[9])
      /\ SafeStep(RangeReads(K, r)[10]) /\ SafeStep(RangeReads(K, r)[11])
      /\ SafeStep(RangeReads(K, r)[12]) /\ SafeStep(RangeReads(K, r)[13])
      /\ SafeStep(RangeReads(K, r)[14])
  BY SMTT(30), <1>1 DEF RangeReads, Step, SafeStep
<1>5. QED BY <1>2, <1>3, <1>4, ByStep

-----------------------------------------------------------------------------
(* Every scenario keeps to its own keys *)

\* The scenarios of puts and gets: whatever the answers r, every call is safe.
LEMMA KvProgramsSafe ==
  ASSUME NEW id \in KvScenarios, NEW K \in FirstKeys, NEW r
  PROVE  SafeProgram(KvRunner(id, K, r))
<1>1. SafeProgram(RunPutEmptyKeyShouldError(K, r))
  BY Zenon, Keys, Tuple1, Steps, PutCalls, Requests, Options DEF RunPutEmptyKeyShouldError
<1>2. SafeProgram(RunPutLargeShouldError(K, r))
  BY Zenon, Keys, Tuple2, Steps, PutCalls, Requests, Options DEF RunPutLargeShouldError
<1>3. SafeProgram(RunPutAndGetWithLatestRevision(K, r))
  BY Zenon, Keys, Tuple2, Steps, PutCalls, Requests, Options DEF RunPutAndGetWithLatestRevision
<1>4. SafeProgram(RunPutAndGetWithOldRevision(K, r))
  BY Zenon, Keys, Tuple3, Steps, PutCalls, Requests, Options DEF RunPutAndGetWithOldRevision
<1>5. SafeProgram(RunPutAndGetWithPrefix(K, r))
  BY Zenon, Keys, Tuple4, Steps, PutCalls, Requests, Options DEF RunPutAndGetWithPrefix
<1>6. SafeProgram(RunPutAndGetWithFromKey(K, r))
  BY Zenon, Keys, Tuple4, Steps, PutCalls, Requests, Options DEF RunPutAndGetWithFromKey
<1>7. SafeProgram(RunPutAndGetWithNamespace(K, r))
  BY Zenon, Keys, Tuple3, Steps, PutCalls, Requests, Options DEF RunPutAndGetWithNamespace
<1>8. SafeProgram(RunPutAndGetWithSort(K, r))
  BY Zenon, Keys, Parts, Tuple1, Tuple2, Steps, DeleteCalls, Requests, Options, PutLoops,
    Small DEF RunPutAndGetWithSort
<1>9. SafeProgram(RunPutAndGetWithOp(K, r))
  BY Zenon, Keys, Tuple2, Steps, PutCalls, Requests, Options DEF RunPutAndGetWithOp
<1>10. SafeProgram(RunPutAndDelete(K, r))
  BY Zenon, Keys, Tuple5, Steps, PutCalls, DeleteCalls, Requests, Options DEF RunPutAndDelete
<1>11. SafeProgram(RunPutAndDeleteWithPrefix(K, r))
  BY Zenon, Keys, Parts, Tuple2, Steps, DeleteCalls, Requests, Options, PutLoops, Small
  DEF RunPutAndDeleteWithPrefix
<1>12. SafeProgram(RunPutAndDeleteAndGetWithOldRevision(K, r))
  BY ZenonT(60), Keys, Tuple7, Steps, PutCalls, DeleteCalls, Requests, Options
  DEF RunPutAndDeleteAndGetWithOldRevision
<1>13. SafeProgram(RunPutLinearizability(K, r))
  BY Zenon, Keys, Parts, Tuple1, Steps, PutCalls, Loops, Small, Within, Requests, Options
  DEF RunPutLinearizability
<1>14. SafeProgram(RunPutWithIgnoreValue(K, r))
  BY Zenon, Keys, Tuple4, Steps, PutCalls, Requests, Options DEF RunPutWithIgnoreValue
<1>15. SafeProgram(RunPutWithPrevKv(K, r))
  <2>1. /\ \A v : SafeCall(With(Put(K, v), "prevKV")) /\ SafeCall(With(Put(K + 10, v), "prevKV"))
        /\ \A v, l : SafeCall(WithLease(With(Put(K + 20, v), "prevKV"), l))
    BY Zenon, Keys, PutCalls
  <2>7. RunPutWithPrevKv(K, r) = [i \in 1 .. 8 |-> RunPutWithPrevKv(K, r)[i]]
    BY SMT DEF RunPutWithPrevKv
  <2>8. \A i \in 1 .. 8 : SafeStep(RunPutWithPrevKv(K, r)[i])
    BY SMT, <2>1, Keys, CommonCalls DEF RunPutWithPrevKv, Step, Do, SafeStep
  <2>9. QED BY <2>7, <2>8, ByStep
<1>16. SafeProgram(RunGetEmptyKey(K, r))
  BY Zenon, Keys, Tuple1, Steps, Requests, Options DEF RunGetEmptyKey
<1>17. SafeProgram(RunGetWithPrefix(K, r))
  BY Zenon, Keys, Parts, Tuple1, Steps, Requests, Options, PutLoops, Small DEF RunGetWithPrefix
<1>18. SafeProgram(RunGetWithFromKey(K, r))
  BY Zenon, Keys, Parts, Tuple1, Steps, Requests, Options, PutLoops, Small DEF RunGetWithFromKey
<1>19. SafeProgram(RunGetWithKeysOnly(K, r))
  BY Zenon, Keys, Parts, Tuple3, Steps, Loops, Small, Within, Requests, Options, PutLoops,
    Small DEF RunGetWithKeysOnly
<1>20. SafeProgram(RunGetWithLimitAndCount(K, r))
  <2>1. \A i \in 1 .. 5 : K + i \in TestKeys BY Keys, Small, Within
  <2>2. QED BY ZenonT(40), <2>1, Keys, PutCalls, Requests, Options, Steps, Loops, Small, Parts,
    Tuple3 DEF RunGetWithLimitAndCount
<1>21. SafeProgram(RunGetWithRevisionFilters(K, r))
  BY ZenonT(60), Keys, Tuple7, Steps, PutCalls, Requests, Options DEF RunGetWithRevisionFilters
<1>22. SafeProgram(RunGetWithRequireLeader(K, r))
  BY Zenon, Keys, Tuple5, Steps, PutCalls, Requests, Options DEF RunGetWithRequireLeader
<1>23. QED
  BY <1>1, <1>2, <1>3, <1>4, <1>5, <1>6, <1>7, <1>8, <1>9, <1>10, <1>11, <1>12, <1>13, <1>14,
    <1>15, <1>16, <1>17, <1>18, <1>19, <1>20, <1>21, <1>22
  DEF KvScenarios, KvRunner

\* The scenarios of ranges, deletions, compaction and revisions.
LEMMA HistoryProgramsSafe ==
  ASSUME NEW id \in HistoryScenarios, NEW K \in FirstKeys, NEW r
  PROVE  SafeProgram(HistoryRunner(id, K, r))
<1>1. SafeProgram(RunGetWithContinueToken(K, r))
  <2>1. /\ SafeProgram(Puts(K, 6, 1)) /\ \A v : SafeCall(Put(K + 8, v))
        /\ \A c, n, o, b, d : Harmless(c) => SafeCall(WithSort(With(WithLimit(c, n), o), b, d))
        /\ \A c, n : Harmless(c) => SafeCall(WithLimit(c, n))
        /\ \A k, e, n : Harmless(WithRev(WithRange(Get(k), e), n))
        /\ Harmless(WithPrefix(Get(K)))
        /\ \A c, n, o, v : Harmless(c) => SafeCall(WithRev(With(WithLimit(c, n), o), v))
    BY Zenon, Keys, PutCalls, Requests, Options, PutLoops, Small
  <2>2. QED BY SMT, <2>1, Steps, Parts, Tuple6 DEF RunGetWithContinueToken
<1>2. SafeProgram(RunGetWithRange(K, r))
  <2>1. \A i \in 1 .. 8 : K + rangePuts[i] \in TestKeys
    <3>1. \A i \in 1 .. 8 : rangePuts[i] \in 1 .. 8 BY DEF rangePuts
    <3>2. QED BY Zenon, <3>1, Keys
  <2>2. QED
    BY ZenonT(40), <2>1, Keys, PutCalls, DeleteCalls, Requests, Options, Steps, Loops, Small,
       RangeReadsSafe, Parts, Tuple2
    DEF RunGetWithRange
<1>3. SafeProgram(RunDeleteEmptyKey(K, r))
  BY Zenon, Keys, Tuple1, Steps, DeleteCalls, Requests, Options DEF RunDeleteEmptyKey
<1>4. SafeProgram(RunDeleteAllWithFromKey(K, r))
  BY Zenon, Keys, Parts, Tuple3, Steps, DeleteCalls, Requests, Options, PutLoops, Small
  DEF RunDeleteAllWithFromKey
<1>5. SafeProgram(RunDeleteAllWithPrefix(K, r))
  BY Zenon, Keys, Parts, Tuple3, Steps, DeleteCalls, Requests, Options, PutLoops, Small
  DEF RunDeleteAllWithPrefix
<1>6. SafeProgram(RunDeleteWithPrecondition(K, r))
  BY ZenonT(60), Keys, Tuple5, Steps, PutCalls, DeleteCalls, TxnCalls, Requests, Options
  DEF RunDeleteWithPrecondition
<1>7. SafeProgram(RunDeleteWithPrevKv(K, r))
  BY ZenonT(60), Keys, Tuple8, Steps, PutCalls, DeleteCalls, Requests, Options
  DEF RunDeleteWithPrevKv
<1>8. SafeProgram(RunDeleteWithRange(K, r))
  <2>1. /\ \A n : SafeCall(Compact(n))
        /\ SafeProgram(Puts(K, 4, 0)) /\ SafeProgram(Puts(K + 10, 5, 0))
        /\ SafeCall(WithPrefix(Get(K))) /\ SafeCall(WithPrefix(Get(K + 10)))
        /\ SafeCall(WithPrefix(Delete(K))) /\ SafeCall(WithRange(Delete(K + 2), K + 4))
        /\ SafeCall(WithRange(Delete(K + 10 + 1), K + 10 + 3))
        /\ SafeCall(WithRange(Delete(K + 10 + 3), K + 10 + 5))
        /\ SafeCall(WithRange(Delete(K + 10 + 3), K + 10 + Width))
        /\ SafeCall(WithPrefix(Delete(K + 10)))
    BY Zenon, Keys, PutLoops, Small, DeleteCalls, Requests, Options
  <2>2. QED BY SMT, <2>1, Steps, Parts, Tuple2 DEF RunDeleteWithRange
<1>9. SafeProgram(RunCompact(K, r))
  <2>1. RunCompact(K, r) = [i \in 1 .. 16 |-> RunCompact(K, r)[i]]
    BY SMT DEF RunCompact
  <2>2. \A i \in 1 .. 16 : SafeStep(RunCompact(K, r)[i])
    BY SMT, Keys, CommonCalls DEF RunCompact, Step, Do, Fails, SafeStep
  <2>3. QED BY <2>1, <2>2, ByStep
<1>10. SafeProgram(RunCompactRevisionRetention(K, r))
  BY Zenon, Keys, Parts, Tuple7, Steps, PutCalls, Loops, Small, Within, Requests, Options
  DEF RunCompactRevisionRetention
<1>11. SafeProgram(RunErrorCompacted(K, r))
  BY Zenon, Keys, Tuple8, Steps, PutCalls, Requests, Options DEF RunErrorCompacted
<1>12. SafeProgram(RunErrorFutureRev(K, r))
  <2>1. /\ RunErrorFutureRev(K, r) = [i \in 1 .. 6 |-> RunErrorFutureRev(K, r)[i]]
        /\ \A i \in 1 .. 6 : SafeStep(RunErrorFutureRev(K, r)[i])
    BY SMT, Keys, CommonCalls DEF RunErrorFutureRev, Step, Do, Fails, SafeStep
  <2>3. QED BY <2>1, ByStep
<1>13. SafeProgram(RunHeaderRevisionMonotonic(K, r))
  BY ZenonT(60), Keys, Parts, Tuple3, Tuple5, Steps, PutCalls, DeleteCalls, TxnCalls, Requests,
    Options, PutLoops, Small DEF RunHeaderRevisionMonotonic
<1>14. SafeProgram(RunModRevisionConsistency(K, r))
  <2>1. RunModRevisionConsistency(K, r) = [i \in 1 .. 13 |-> RunModRevisionConsistency(K, r)[i]]
    BY SMT DEF RunModRevisionConsistency
  <2>2. \A i \in 1 .. 13 : SafeStep(RunModRevisionConsistency(K, r)[i])
    BY SMT, Keys, CommonCalls DEF RunModRevisionConsistency, Step, Do, Unguarded, SafeStep
  <2>3. QED BY <2>1, <2>2, ByStep
<1>15. QED
  BY <1>1, <1>2, <1>3, <1>4, <1>5, <1>6, <1>7, <1>8, <1>9, <1>10, <1>11, <1>12, <1>13, <1>14
  DEF HistoryScenarios, HistoryRunner

\* The scenarios of transactions.
LEMMA TxnProgramsSafe ==
  ASSUME NEW id \in TxnScenarios, NEW K \in FirstKeys, NEW r
  PROVE  SafeProgram(TxnRunner(id, K, r))
<1>1. SafeProgram(RunTxnErrorDuplicateKey(K, r))
  BY Zenon, Keys, Tuple1, Steps, PutCalls, TxnCalls, Requests, Options DEF RunTxnErrorDuplicateKey
<1>2. SafeProgram(RunTxnErrorTooManyOps(K, r))
  <2>2. MaxTxnOps + 1 \in Nat /\ \A i \in 1 .. MaxTxnOps + 1 : K + i \in OwnKeys
    BY KVAssumption DEF FirstKeys, OwnKeys
  <2>3. \A i, v : K + i \in OwnKeys => SafeNested(Put(K + i, v))
    BY DEF Put, SafeNested, SafeOp
  <2>5. QED BY Zenon, LongBranch, <2>2, <2>3, Steps, TxnCalls, Tuple1 DEF RunTxnErrorTooManyOps
<1>3. SafeProgram(RunTxnPutOne(K, r))
  BY Zenon, Keys, Tuple4, Steps, PutCalls, TxnCalls, Requests, Options DEF RunTxnPutOne
<1>4. SafeProgram(RunTxnPutMultiple(K, r))
  <2>2. MaxTxnOps - 1 \in Nat /\ \A i \in 1 .. MaxTxnOps - 1 : K + i \in OwnKeys
    BY KVAssumption DEF FirstKeys, OwnKeys
  <2>3. \A i, v : K + i \in OwnKeys => SafeNested(Put(K + i, v))
    BY DEF Put, SafeNested, SafeOp
  <2>4. SafeStep(Do(Get(K))) /\ \A b, o, ok : SafeStep(Step(WithSort(WithPrefix(Get(K)), b, o), ok))
    BY Zenon, Requests, Options, Steps
  <2>5. QED BY Zenon, LongBranch, <2>2, <2>3, <2>4, Steps, TxnCalls, Tuple3 DEF RunTxnPutMultiple
<1>5. SafeProgram(RunTxnNested(K, r))
  BY Zenon, Keys, Tuple3, Steps, PutCalls, TxnCalls, Requests, Options DEF RunTxnNested
<1>6. SafeProgram(RunTxnKeyExists(K, r))
  BY Zenon, Keys, Tuple3, Steps, PutCalls, DeleteCalls, TxnCalls, Requests, Options
  DEF RunTxnKeyExists
<1>7. SafeProgram(RunTxnKeyMissing(K, r))
  BY Zenon, Keys, Tuple2, Steps, PutCalls, TxnCalls, Requests, Options DEF RunTxnKeyMissing
<1>8. SafeProgram(RunTxnCompareRange(K, r))
  BY Zenon, Keys, Tuple5, Steps, PutCalls, TxnCalls, Requests, Options DEF RunTxnCompareRange
<1>9. SafeProgram(RunTxnCompareModrevision(K, r))
  BY Zenon, Keys, Tuple4, Steps, PutCalls, TxnCalls, Requests, Options
  DEF RunTxnCompareModrevision
<1>10. SafeProgram(RunTxnCompareCreaterevision(K, r))
  <2>1. /\ \A c, v : SafeCall(Txn(c, <<Put(K, v)>>, <<>>))
        /\ \A c, v : SafeCall(Txn(c, <<Put(K, v)>>, <<Get(K)>>))
        /\ \A c, v : SafeCall(Txn(c, <<Put(K + 10, v)>>, <<>>))
    BY Zenon, Keys, PutCalls, Requests, Options, TxnCalls
  <2>7. RunTxnCompareCreaterevision(K, r) = [i \in 1 .. 6 |-> RunTxnCompareCreaterevision(K, r)[i]]
    BY SMT DEF RunTxnCompareCreaterevision
  <2>8. \A i \in 1 .. 6 : SafeStep(RunTxnCompareCreaterevision(K, r)[i])
    BY SMT, <2>1, Keys, CommonCalls DEF RunTxnCompareCreaterevision, Step, Unguarded, SafeStep
  <2>9. QED BY <2>7, <2>8, ByStep
<1>11. SafeProgram(RunTxnCompareVersion(K, r))
  <2>1. /\ \A c, v : SafeCall(Txn(c, <<Put(K, v)>>, <<>>))
        /\ \A c, v : SafeCall(Txn(c, <<Put(K, v)>>, <<Get(K)>>))
        /\ \A c, v : SafeCall(Txn(c, <<Put(K + 10, v)>>, <<>>))
    BY Zenon, Keys, PutCalls, Requests, Options, TxnCalls
  <2>7. RunTxnCompareVersion(K, r) = [i \in 1 .. 9 |-> RunTxnCompareVersion(K, r)[i]]
    BY SMT DEF RunTxnCompareVersion
  <2>8. \A i \in 1 .. 9 : SafeStep(RunTxnCompareVersion(K, r)[i])
    BY SMT, <2>1, Keys, CommonCalls DEF RunTxnCompareVersion, Step, Do, Unguarded, SafeStep
  <2>9. QED BY <2>7, <2>8, ByStep
<1>12. SafeProgram(RunTxnCompareValue(K, r))
  <2>1. /\ \A c, v : SafeCall(Txn(c, <<Put(K, v)>>, <<>>))
        /\ \A c : SafeCall(Txn(c, <<Delete(K)>>, <<>>))
        /\ \A c : SafeCall(Txn(c, <<Delete(K)>>, <<Get(K)>>))
    BY Zenon, Keys, PutCalls, DeleteCalls, Requests, Options, TxnCalls
  <2>2. /\ RunTxnCompareValue(K, r) = [i \in 1 .. 9 |-> RunTxnCompareValue(K, r)[i]]
        /\ \A i \in 1 .. 9 : SafeStep(RunTxnCompareValue(K, r)[i])
    BY SMT, <2>1, Keys, CommonCalls DEF RunTxnCompareValue, Step, Do, Unguarded, SafeStep
  <2>3. QED BY <2>2, ByStep
<1>13. SafeProgram(RunTxnCompareLease(K, r))
  BY ZenonT(60), Keys, Tuple9, Steps, PutCalls, TxnCalls, Requests, Options DEF RunTxnCompareLease
<1>14. SafeProgram(RunTxnMultiOpAtomicity(K, r))
  <2>0. /\ K + 4 + 0 \in TestKeys /\ K + 6 + 0 \in TestKeys
        /\ K + 4 + 1 \in TestKeys /\ K + 6 + 1 \in TestKeys
    BY DEF FirstKeys, TestKeys
  <2>1. /\ SafeCall(WithPrefix(Get(K))) /\ SafeCall(Put(K + 3, 1))
        /\ SafeCall(Txn(<<>>, <<Put(K + 1, 1), Put(K + 2, 1)>>, <<>>))
        /\ SafeCall(Txn(<<>>, <<Put(K + 1, 2), Get(K + 2), Delete(K + 3)>>, <<>>))
        /\ SafeCall(Txn(<<>>, <<Put(K + 4 + 0, 1), Put(K + 6 + 0, 1)>>, <<>>))
        /\ SafeCall(Txn(<<>>, <<Put(K + 4 + 1, 1), Put(K + 6 + 1, 1)>>, <<>>))
    BY Zenon, <2>0, Keys, PutCalls, DeleteCalls, Requests, Options, TxnCalls
  <2>2. /\ RunTxnMultiOpAtomicity(K, r) = [i \in 1 .. 6 |-> RunTxnMultiOpAtomicity(K, r)[i]]
        /\ \A i \in 1 .. 6 : SafeStep(RunTxnMultiOpAtomicity(K, r)[i])
    BY SMT, <2>1 DEF RunTxnMultiOpAtomicity, Step, Do, SafeStep
  <2>4. QED BY <2>2, ByStep
<1>15. QED
  BY <1>1, <1>2, <1>3, <1>4, <1>5, <1>6, <1>7, <1>8, <1>9, <1>10, <1>11, <1>12, <1>13, <1>14
  DEF TxnScenarios, TxnRunner

\* The scenarios of watchers.
LEMMA WatchProgramsSafe ==
  ASSUME NEW id \in WatchScenarios, NEW K \in FirstKeys, NEW r
  PROVE  SafeProgram(WatchRunner(id, K, r))
<1>1. SafeProgram(RunWatchAndPut(K, r))
  BY Zenon, Keys, Tuple3, Steps, PutCalls, Requests, Options DEF RunWatchAndPut
<1>2. SafeProgram(RunWatchAndPutWithIgnoreValue(K, r))
  BY Zenon, Keys, Tuple5, Steps, PutCalls, Requests, Options DEF RunWatchAndPutWithIgnoreValue
<1>3. SafeProgram(RunWatchAndPutWithNamespace(K, r))
  BY Zenon, Keys, Tuple6, Steps, PutCalls, Requests, Options DEF RunWatchAndPutWithNamespace
<1>4. SafeProgram(RunWatchAndPutWithOldRevision(K, r))
  BY ZenonT(60), Keys, Tuple8, Steps, PutCalls, Requests, Options
  DEF RunWatchAndPutWithOldRevision
<1>5. SafeProgram(RunWatchBookmarkDelivery(K, r))
  BY ZenonT(60), Keys, Parts, Tuple3, Tuple4, Steps, PutCalls, Receiving, Requests, Options
  DEF RunWatchBookmarkDelivery, ReceiveLoop, Receives, Notified
<1>6. SafeProgram(RunWatchCancelClose(K, r))
  BY Zenon, Keys, Tuple3, Steps, Requests, Options DEF RunWatchCancelClose
<1>7. SafeProgram(RunWatchCancelImmediate(K, r))
  BY Zenon, Keys, Tuple9, Steps, Requests, Options DEF RunWatchCancelImmediate, Notified
<1>8. SafeProgram(RunWatchCancelInflight(K, r))
  BY Zenon, Keys, Parts, Tuple1, Tuple4, Steps, PutCalls, Requests, Options
  DEF RunWatchCancelInflight
<1>9. SafeProgram(RunWatchCancelInit(K, r))
  BY Zenon, Keys, Tuple3, Steps, Requests, Options DEF RunWatchCancelInit
<1>10. SafeProgram(RunWatchCancelOverlappingContext(K, r))
  BY Zenon, Keys, Parts, Tuple1, Tuple3, Steps, PutCalls, Requests, Options
  DEF RunWatchCancelOverlappingContext
<1>11. SafeProgram(RunWatchEmptyKey(K, r))
  BY Zenon, Keys, Tuple5, Steps, PutCalls, Adjusted, Requests, Options DEF RunWatchEmptyKey
<1>12. SafeProgram(RunWatchEventType(K, r))
  BY ZenonT(40), Keys, Parts, Tuple6, Steps, PutCalls, DeleteCalls, Receiving, Requests,
    Options DEF RunWatchEventType, ReceiveLoop, Receives
<1>13. SafeProgram(RunWatchInitialEvents(K, r))
  BY ZenonT(60), Keys, Parts, Tuple1, Tuple2, Steps, PutCalls, Receiving, Requests, Options,
    PutLoops, Small DEF RunWatchInitialEvents, ReceiveLoop, Receives, Notified
<1>14. SafeProgram(RunWatchOrderingGuarantee(K, r))
  BY ZenonT(30), MixedOperationsSafe, Keys, Steps, PutCalls, Requests, Options, Parts, Receiving,
    Tuple6 DEF RunWatchOrderingGuarantee, ReceiveLoop, Receives, Notified
<1>15. SafeProgram(RunWatchResumeAfterDisconnect(K, r))
  BY ZenonT(60), Keys, Parts, Tuple4, Tuple13, Steps, PutCalls, Receiving, Adjusted, Requests,
    Options DEF RunWatchResumeAfterDisconnect, ReceiveLoop, Receives
<1>16. SafeProgram(RunWatchWithCompactedRevision(K, r))
  <2>1. /\ \A v : SafeStep(Do(Put(K, v)))
        /\ \A n : SafeStep(Do(Compact(n)))
        /\ \A n : SafeStep(Do(WithRev(Watch(K), n)))
        /\ \A n, e : SafeStep(Fails(Compact(n), e))
        /\ \A n, e : SafeStep(Fails(Recv(n), e))
    BY Zenon, Keys, PutCalls, Requests, Options, Steps
  <2>2. SafeStep([Fails(Recv(1), "ErrCompacted") EXCEPT !.ok = r[4].compactRev = r[1].rev])
    BY Zenon, <2>1, Adjusted
  <2>3. QED BY ZenonT(40), <2>1, <2>2, Tuple6 DEF RunWatchWithCompactedRevision
<1>17. SafeProgram(RunWatchWithCreatedNotification(K, r))
  BY Zenon, Keys, Tuple2, Steps, Requests, Options DEF RunWatchWithCreatedNotification, Notified
<1>18. SafeProgram(RunWatchWithFilter(K, r))
  BY Zenon, Keys, Tuple8, Steps, PutCalls, DeleteCalls, Requests, Options DEF RunWatchWithFilter
<1>a. SafeProgram(LargePuts(K))
  <2>1. \A i \in 1 .. 3 : SafeStep(Unreported(Do(Put(K + i, Big))))
    <3> TAKE i \in 1 .. 3
    <3>1. K + i \in TestKeys BY Zenon, Keys, Small, Within
    <3>2. SafeStep(Do(Put(K + i, Big))) BY Zenon, <3>1, PutCalls, Steps
    <3>3. QED BY Zenon, <3>2, Adjusted
  <2>2. QED BY Zenon, <2>1, Loops, Small DEF LargePuts
<1>19. SafeProgram(RunWatchWithFragmentedLargeResponse(K, r))
  BY ZenonT(60), <1>a, Keys, Parts, Tuple1, Steps, Loops, Small, Within, Receiving, Requests, Options
  DEF RunWatchWithFragmentedLargeResponse, ReceiveLoop, Receives
<1>20. SafeProgram(RunWatchWithMultipleWatchers(K, r))
  <2> DEFINE Hangs(i) == r[i].err = "timeout"
             Receive(w, i, ok) ==
                 Unreported([Tolerates(Recv(w), "timeout") EXCEPT !.ok = Hangs(i) \/ ok])
             KeyWatcher(w) == [i \in 1 .. 2 |->
                 Receive(w, 8 + 2 * w + i, Event(r[8 + 2 * w + i], 1).kv.val = 10 * w + i)]
             prefixed == EventsOf(Received(r, 16, 4))
             finished == \A i \in 11 .. 20 : ~Hangs(i)
             Watches == << Do(Watch(K + 1)), Do(Watch(K + 2)), Do(Watch(K + 3)),
                           Do(WithRange(Watch(K + 2), K + 4)) >>
             Updates == [i \in 1 .. 6 |->
                 LET w == 1 + ((i - 1) % 3) IN Do(Put(K + w, 10 * w + ((i + 2) \div 3)))]
             Prefixed == [i \in 1 .. 4 |-> Receive(4, 16 + i, i = 4 =>
                 /\ Len(prefixed) = 4
                 /\ {prefixed[j].kv.val : j \in 1 .. 4} = {21, 22, 31, 32})]
             Quieted == << [Silence(4) EXCEPT !.silent = ~Hangs(21), !.ok = finished] >>
  <2>1. SafeProgram(Watches) BY Zenon, Keys, Requests, Options, Steps, Tuple4
  <2>2. SafeProgram(Updates) BY Zenon, Thirds, Keys, PutCalls, Steps, Loops, Small
  <2>3. \A w, i, ok : SafeStep(Receive(w, i, ok))
    <3>1. \A w : SafeStep(Tolerates(Recv(w), "timeout")) BY Zenon, Requests, Options, Steps
    <3>2. QED BY Zenon, <3>1, Adjusted
  <2> HIDE DEF Receive
  <2>4. \A w : SafeProgram(KeyWatcher(w)) BY Zenon, <2>3, Loops, Small
  <2>5. SafeProgram(Prefixed) BY Zenon, <2>3, Loops, Small
  <2>6. SafeProgram(Quieted)
    <3>1. SafeStep([[Silence(4) EXCEPT !.silent = ~Hangs(21)] EXCEPT !.ok = finished])
      BY Zenon, Steps, Adjusted
    <3>2. [[Silence(4) EXCEPT !.silent = ~Hangs(21)] EXCEPT !.ok = finished]
            = [Silence(4) EXCEPT !.silent = ~Hangs(21), !.ok = finished]
      OBVIOUS
    <3>3. QED BY Zenon, <3>1, <3>2, Tuple1
  <2>7. RunWatchWithMultipleWatchers(K, r)
          = Watches \o Updates \o KeyWatcher(1) \o KeyWatcher(2) \o KeyWatcher(3)
            \o Prefixed \o Quieted
    BY Zenon DEF RunWatchWithMultipleWatchers, Receive
  <2> HIDE DEF KeyWatcher, Watches, Updates, Prefixed, Quieted
  <2>8. QED BY Zenon, <2>1, <2>2, <2>4, <2>5, <2>6, <2>7, Parts
<1>21. SafeProgram(RunWatchWithPrefix(K, r))
  BY Zenon, Keys, Parts, Tuple1, Tuple2, Steps, PutCalls, Requests, Options DEF RunWatchWithPrefix
<1>22. SafeProgram(RunWatchWithPrevKv(K, r))
  BY Zenon, Keys, Tuple7, Steps, PutCalls, DeleteCalls, Requests, Options DEF RunWatchWithPrevKv
<1>23. SafeProgram(RunWatchWithProgressNotify(K, r))
  BY Zenon, Keys, Tuple6, Steps, PutCalls, Requests, Options DEF RunWatchWithProgressNotify
<1>24. SafeProgram(RunWatchWithRange(K, r))
  BY ZenonT(60), Keys, Parts, Tuple1, Tuple2, Steps, PutCalls, Requests, Options
  DEF RunWatchWithRange
<1>25. SafeProgram(RunWatchWithRequestProgress(K, r))
  BY ZenonT(60), Keys, Parts, Tuple4, Tuple6, Steps, PutCalls, Progressing, Requests, Options
  DEF RunWatchWithRequestProgress
<1>26. SafeProgram(RunWatchWithTooLargeResponse(K, r))
  BY Zenon, <1>a, Keys, Parts, Tuple1, Tuple3, Steps, Requests, Options
  DEF RunWatchWithTooLargeResponse
<1>27. QED
  BY <1>1, <1>2, <1>3, <1>4, <1>5, <1>6, <1>7, <1>8, <1>9, <1>10, <1>11, <1>12, <1>13, <1>14,
    <1>15, <1>16, <1>17, <1>18, <1>19, <1>20, <1>21, <1>22, <1>23, <1>24, <1>25, <1>26
  DEF WatchScenarios, WatchRunner

\* The scenarios of leases, of the mirror and of the hash.
LEMMA LeaseProgramsSafe ==
  ASSUME NEW id \in LeaseScenarios, NEW K \in FirstKeys, NEW r
  PROVE  SafeProgram(LeaseRunner(id, K, r))
<1>1. SafeProgram(RunLeaseExpirationAutoDelete(K, r))
  <2>1. \A i \in 1 .. 3 : K + i \in TestKeys BY Keys, Small, Within
  <2>2. QED BY ZenonT(40), <2>1, Keys, PutCalls, Requests, Options, Steps, Loops, Small, Parts,
    Tuple1, Tuple6 DEF RunLeaseExpirationAutoDelete, Leased
<1>2. SafeProgram(RunLeaseGrantTTLBounds(K, r))
  <2>1. /\ \A n : SafeCall(Grant(n)) /\ SafeCall(Revoke(n)) /\ SafeCall(TimeToLive(n))
    BY Zenon, Requests, Options
  <2>2. \A l, ok : SafeStep(Step(TimeToLive(l), ok)) /\ SafeStep(BestEffort(Revoke(l)))
    BY Zenon, <2>1, Steps
  <2>3. \A p : /\ p = [i \in 1 .. 4 |-> BestEffort(Revoke(r[i].lease))] => SafePart(p)
               /\ \A l : p = << BestEffort(Revoke(l)) >> => SafePart(p)
    <3>1. SafeProgram([i \in 1 .. 4 |-> BestEffort(Revoke(r[i].lease))])
       BY Zenon, <2>2, Loops, Small
    <3>2. \A l : SafeProgram(<< BestEffort(Revoke(l)) >>)
       BY Zenon, <2>2, Tuple1
    <3>3. QED BY Zenon, <3>1, <3>2, Parts
  <2>4. ASSUME NEW p, p = << Step(Grant(1), r[1].ttl >= 1), Step(Grant(60), r[2].ttl = 60),
         Step(Grant(3600), r[3].ttl = 3600), Step(Grant(86400), r[4].ttl = 86400),
         [Step(Grant(0), r[5].err = "none" => r[5].ttl >= 1)
          EXCEPT !.errs = {"none", "ErrLeaseTTL"}] >>
         PROVE SafeProgram(p)
    <3>1. /\ p = [i \in 1 .. 5 |-> p[i]]
          /\ \A i \in 1 .. 5 : SafeStep(p[i])
      BY SMT, <2>1, <2>4 DEF Step, SafeStep
    <3>2. QED BY <3>1, ByStep
  <2>5. QED BY SMTT(30), <2>2, <2>3, <2>4, Parts, Tuple1 DEF RunLeaseGrantTTLBounds
<1>3. SafeProgram(RunLeaseKeepaliveRevoke(K, r))
  BY ZenonT(60), Keys, Parts, Tuple2, Steps, Loops, Small, Within, Receiving, Requests,
    Options DEF RunLeaseKeepaliveRevoke, Receives
<1>4. SafeProgram(RunLeaseList(K, r))
  BY ZenonT(60), Keys, Parts, Tuple5, Steps, Loops, Small, Within, Requests, Options
  DEF RunLeaseList
<1>5. SafeProgram(RunLeaseTooLarge(K, r))
  BY Zenon, Keys, Tuple1, Steps, Requests, Options DEF RunLeaseTooLarge
<1>6. SafeProgram(RunPutWithIgnoreLease(K, r))
  BY Zenon, Keys, Tuple5, Steps, PutCalls, Requests, Options DEF RunPutWithIgnoreLease, Leased
<1>7. SafeProgram(RunPutWithLeaseAndRevoke(K, r))
  BY ZenonT(60), Keys, Tuple6, Steps, PutCalls, Requests, Options
  DEF RunPutWithLeaseAndRevoke, Leased
<1>8. SafeProgram(RunPutWithLeaseAttach(K, r))
  <2>1. RunPutWithLeaseAttach(K, r) = [i \in 1 .. 12 |-> RunPutWithLeaseAttach(K, r)[i]]
    BY SMT DEF RunPutWithLeaseAttach
  <2>2. \A i \in 1 .. 12 : SafeStep(RunPutWithLeaseAttach(K, r)[i])
    BY SMT, Keys, CommonCalls DEF RunPutWithLeaseAttach, Step, Do, Unguarded, BestEffort, SafeStep
  <2>3. QED BY <2>1, <2>2, ByStep
<1>9. SafeProgram(RunPutWithLeaseNotFound(K, r))
  BY SMT, Keys, CommonCalls, Steps, Tuple1 DEF RunPutWithLeaseNotFound
<1>10. SafeProgram(RunPutWithLeaseKeepalive(K, r))
  <2>1. RunPutWithLeaseKeepalive(K, r) = [i \in 1 .. 9 |-> RunPutWithLeaseKeepalive(K, r)[i]]
    BY SMT DEF RunPutWithLeaseKeepalive
  <2>2. \A i \in 1 .. 9 : SafeStep(RunPutWithLeaseKeepalive(K, r)[i])
    BY SMT, Keys, CommonCalls DEF RunPutWithLeaseKeepalive, Step, Do, SafeStep
  <2>3. QED BY <2>1, <2>2, ByStep
<1>11. SafeProgram(RunPutWithLeaseKeepaliveFullResponseQueue(K, r))
  BY Zenon, Keys, Tuple5, Steps, Requests, Options DEF RunPutWithLeaseKeepaliveFullResponseQueue
<1>12. SafeProgram(RunPutWithLeaseKeepaliveOnce(K, r))
  <2>1. /\ \A n : SafeCall(Grant(n)) /\ SafeCall(KeepAliveOnce(n)) /\ SafeCall(TimeToLive(n))
        /\ \A n : SafeCall(AwaitTTL(n)) /\ SafeCall(Sleep(n))
        /\ \A k : SafeCall(Get(k)) /\ \A v, l : SafeCall(Leased(K, v, l))
    BY Zenon, Keys, PutCalls, Requests, Options DEF Leased
  <2>2. QED BY SMT, <2>1, Steps, Parts, Tuple8, Expiry
  DEF RunPutWithLeaseKeepaliveOnce, waitForLeaseTTL
<1>13. SafeProgram(RunPutWithLeaseKeepaliveOneSecond(K, r))
  BY Zenon, Keys, Parts, Tuple2, Steps, Loops, Small, Within, Requests, Options
  DEF RunPutWithLeaseKeepaliveOneSecond
<1>14. SafeProgram(RunPutWithLeaseTimeToLive(K, r))
  <2>1. /\ \A n : SafeCall(Grant(n)) /\ SafeCall(TimeToLive(n)) /\ SafeCall(Leases)
        /\ \A k : SafeCall(Get(k)) /\ \A v : SafeCall(Put(K + 1, v))
        /\ \A v, l : SafeCall(Leased(K + 1, v, l)) /\ SafeCall(Leased(K + 2, v, l))
        /\ \A v, l : SafeCall(Leased(K + 3, v, l))
    BY Zenon, Keys, PutCalls, Requests, Options DEF Leased
  <2>2. /\ \A k : SafeStep(Do(Get(k))) /\ \A j, ok : SafeStep(Step(Get(j), ok))
        /\ \A n : SafeStep(Do(Grant(n))) /\ \A ok : SafeStep(Step(Leases, ok))
        /\ \A n, ok : SafeStep(Step(TimeToLive(n), ok))
        /\ \A v : SafeStep(Unreported(Do(Put(K + 1, v))))
        /\ \A v, l : SafeStep(Unreported(Do(Leased(K + 1, v, l))))
        /\ \A v, l : SafeStep(Unreported(Do(Leased(K + 2, v, l))))
        /\ \A v, l : SafeStep(Unreported(Do(Leased(K + 3, v, l))))
    BY Zenon, <2>1, Steps, Adjusted
  <2> DEFINE Check(i, v, l) == One(r[i], v) /\ First(r[i]).lease = l
             TTL(i, keys) == r[i].ttl <= 15 /\ r[i].keys = keys
             OneKey == << Unreported(Do(Put(K + 1, 1))), Step(Get(K + 1), Check(2, 1, 0)),
                 Do(Grant(15)),
                 Unreported(Do(Leased(K + 1, 1, r[3].lease))),
                 Step(Get(K + 1), Check(5, 1, r[3].lease)),
                 Step(Leases, r[3].lease \in r[6].leases),
                 Step(TimeToLive(r[3].lease), TTL(7, {K + 1})) >>
             TwoKeys == << Do(Grant(15)),
                 Unreported(Do(Leased(K + 2, 1, r[10].lease))),
                 Step(Get(K + 2), Check(12, 1, r[10].lease)),
                 Unreported(Do(Leased(K + 3, 1, r[10].lease))),
                 Step(Get(K + 3), Check(14, 1, r[10].lease)),
                 Step(Leases, r[10].lease \in r[15].leases),
                 Step(TimeToLive(r[10].lease), TTL(16, {K + 2, K + 3})) >>
  <2>3. RunPutWithLeaseTimeToLive(K, r)
          = OneKey \o waitForKeysToExpire(<<K + 1>>, 50, r, 7)
            \o TwoKeys \o waitForKeysToExpire(<<K + 2, K + 3>>, 50, r, 16)
    BY Zenon DEF RunPutWithLeaseTimeToLive
  <2> HIDE DEF Check, TTL
  <2>4. SafeProgram(OneKey) BY Zenon, <2>2, Tuple7
  <2>5. SafeProgram(TwoKeys) BY Zenon, <2>2, Tuple7
  <2> HIDE DEF OneKey, TwoKeys
  <2>6. QED BY Zenon, <2>3, <2>4, <2>5, Parts, Expiry
<1>15. SafeProgram(RunMirrorSyncBase(K, r))
  <2>1. \A i \in 1 .. 4 : K + i \in TestKeys BY Keys, Small, Within
  <2>2. QED BY Zenon, <2>1, PutCalls, Requests, Options, Steps, Loops, Small, Parts, Tuple1,
    Tuple2 DEF RunMirrorSyncBase
<1>16. SafeProgram(RunMirrorSyncUpdates(K, r))
  BY Zenon, Keys, Tuple6, Steps, PutCalls, Requests, Options DEF RunMirrorSyncUpdates
<1>17. SafeProgram(RunMaintenanceHashKv(K, r))
  BY Zenon, Keys, Parts, Steps, Loops, Small, Within, Requests, Options, PutLoops, Small
  DEF RunMaintenanceHashKv
<1>18. QED
  BY <1>1, <1>2, <1>3, <1>4, <1>5, <1>6, <1>7, <1>8, <1>9, <1>10, <1>11, <1>12, <1>13, <1>14,
    <1>15, <1>16, <1>17
  DEF LeaseScenarios, LeaseRunner

\* IDStringToRunnerFunc: every scenario of the suite, from every first key, under every answer.
LEMMA ProgramsSafe ==
  \A n \in AllScenarios, K \in FirstKeys : \A r : SafeProgram(IDStringToRunnerFunc(n, K, r))
BY KvProgramsSafe, HistoryProgramsSafe, TxnProgramsSafe, WatchProgramsSafe, LeaseProgramsSafe
DEF AllScenarios, IDStringToRunnerFunc

-----------------------------------------------------------------------------
(* The suite *)

\* The inductive invariant.  ForeignKeysUntouched is about one step; that the step is harmless
\* depends on the call the scenario has prepared (SafeCall) and on the leases (StoreOK).
IInv ==
    /\ StoreOK(store)
    /\ scenario \in AllScenarios
    /\ attempt \in 1 .. 3
    /\ IsSequence(resps)
    /\ foreign \in Nat
    /\ verdict = "running" => SafeCall(call)

\* What SafeProgram says of the call at each place.
LEMMA ElementSafe ==
  ASSUME NEW p, SafeProgram(p)
  PROVE  Len(p) \in Nat \ {0} /\ \A i \in 1 .. Len(p) : SafeCall(p[i].call)
<1>1. PICK V : p \in Seq(V) /\ \A st \in V : SafeStep(st) BY DEF SafeProgram, SafePart
<1>2. Len(p) \in Nat \ {0} BY <1>1 DEF SafeProgram
<1>3. \A i \in 1 .. Len(p) : p[i] \in V BY <1>1
<1>4. QED BY <1>1, <1>2, <1>3 DEF SafeStep

\* The calls of an attempt, as far as the answers decide them.
LEMMA ProgramSafe ==
  ASSUME NEW n \in AllScenarios, NEW i \in 1 .. 3, NEW rs
  PROVE  SafeProgram(Program(n, i, rs))
<1>1. FirstKey(i) \in FirstKeys BY DEF FirstKey, FirstKeys
<1>2. QED BY <1>1, ProgramsSafe DEF Program

\* The call an attempt starts with.
LEMMA FirstCallSafe ==
  ASSUME NEW n \in AllScenarios, NEW i \in 1 .. 3
  PROVE  SafeCall(FirstCall(n, i))
BY ProgramSafe, ElementSafe DEF FirstCall

\* After an answer, accepted or not, the next call of a scenario that goes on is safe.
LEMMA NextCallSafe ==
  ASSUME IInv, NEW resp, Answered(resp)
  PROVE  IsSequence(resps') /\ (verdict' = "running" => SafeCall(call'))
<1> DEFINE rs == Append(resps, resp)
           program == Program(scenario, attempt, rs)
<1>1. /\ resps' = rs /\ verdict' = Judge(program, rs)
      /\ call' = IF verdict' = "running" THEN program[Len(rs) + 1].call ELSE call
  BY DEF Answered
<1>2. SafeProgram(program) BY ProgramSafe DEF IInv
<1>3. IsSequence(rs) BY AppendIsSequence DEF IInv
<1>4. Len(rs) \in Nat
  <2> HIDE DEF rs
  <2>1. QED BY <1>3 DEF IsSequence
<1>5. ASSUME verdict' = "running" PROVE SafeCall(call')
  <2>1. Len(rs) < Len(program) BY <1>1, <1>5 DEF Judge
  <2> HIDE DEF rs, program
  <2>2. Len(program) \in Nat /\ \A i \in 1 .. Len(program) : SafeCall(program[i].call)
    BY <1>2, ElementSafe
  <2>3. Len(rs) + 1 \in 1 .. Len(program) BY <1>4, <2>1, <2>2
  <2>4. QED BY <1>1, <1>5, <2>2, <2>3
<1>6. QED BY <1>1, <1>3, <1>5

\* The store the suite finds, with one foreign key in it.
LEMMA NewStoreOK ==
  ASSUME NEW b
  PROVE  StoreOK(NewStore([k \in {1} |-> Fresh(1, 1, 1)], b))
<1> DEFINE m == [k \in {1} |-> Fresh(1, 1, 1)]
           s == NewStore(m, b)
<1>1. IsStore(s) BY DEF IsStore, StoreFields, NewStore
<1>2. s.rev = 1 /\ s.hist = <<m>> /\ s.leases = <<>> BY DEF NewStore
<1>3. Unleased(m) BY DEF Unleased, Fresh
<1> HIDE DEF m, s
<1>4. <<m>> \in Seq({m}) /\ <<>> \in Seq({}) /\ Len(<<m>>) = 1 /\ <<m>>[1] = m OBVIOUS
<1>5. Latest(s) = m BY <1>2, <1>4 DEF Latest
<1>6. StoreOK(s)
  <2>1. IsSequence(s.hist) /\ IsSequence(s.leases)
    BY <1>2, <1>4 DEF IsSequence
  <2>2. QED BY <1>1, <1>2, <1>3, <1>4, <1>5, <2>1 DEF StoreOK
<1>7. QED BY <1>6 DEF s, m

\* Every initial state satisfies the inductive invariant.
LEMMA IInvInit == Init => IInv
<1> SUFFICES ASSUME Init PROVE IInv OBVIOUS
<1>1. scenario \in AllScenarios BY SuiteAssumption DEF Init
<1>2. StoreOK(store) BY NewStoreOK DEF Init
<1>3. SafeCall(call) BY <1>1, FirstCallSafe DEF Init
<1>4. IsSequence(resps)
  <2>1. <<>> \in Seq({}) OBVIOUS
  <2>2. QED BY <2>1 DEF Init, IsSequence
<1>5. QED BY <1>1, <1>2, <1>3, <1>4 DEF Init, IInv

\* The suite's own steps: a call answered or timed out, a retry, and the expiry of a lease,
\* which can only be the suite's.
LEMMA OwnStepQuiet ==
  ASSUME IInv, Call \/ CallTimesOut \/ LeaseExpires \/ Retry
  PROVE  Quiet(store, store')
<1>1. StoreOK(store) BY DEF IInv
<1>2. CASE Call
  <2>1. PICK o \in Outcomes(store, call) : store' = o.s BY <1>2 DEF Call
  <2>2. SafeCall(call) BY <1>2 DEF Call, IInv
  <2>3. QED BY <1>1, <2>1, <2>2, OutcomesQuiet
<1>3. CASE CallTimesOut BY <1>1, <1>3, QuietReflexive DEF CallTimesOut
<1>4. CASE LeaseExpires BY <1>1, <1>4, ElapseQuiet DEF LeaseExpires
<1>5. CASE Retry
  <2>1. store' = [store EXCEPT !.watchers = <<>>] BY <1>5 DEF Retry
  <2>2. /\ IsStore(store') /\ store'.rev = store.rev
        /\ store'.hist = store.hist /\ store'.leases = store.leases
    BY <1>1, <2>1 DEF StoreOK, IsStore, StoreFields
  <2>3. QED BY <1>1, <2>2, WatchersQuiet
<1>6. QED BY <1>2, <1>3, <1>4, <1>5

\* A commit of any keys without a foreign lease keeps the store well formed.
LEMMA CommitOK ==
  ASSUME NEW s, NEW m, NEW dirty, StoreOK(s), Unleased(m)
  PROVE  StoreOK(Commit(s, m, dirty))
<1>1. CASE ~dirty BY <1>1 DEF Commit
<1>2. CASE dirty
  <2> DEFINE t == Commit(s, m, dirty)
  <2>1. t = [s EXCEPT !.rev = @ + 1, !.hist = Append(@, m)] BY <1>2 DEF Commit
  <2>2. IsStore(t) /\ t.rev = s.rev + 1 /\ t.hist = Append(s.hist, m) /\ t.leases = s.leases
    BY <2>1 DEF StoreOK, IsStore, StoreFields
  <2>3. Latest(t) = m BY <2>2, AppendIsSequence DEF Latest, StoreOK
  <2>4. QED BY <2>2, <2>3, AppendIsSequence DEF StoreOK
<1>3. QED BY <1>1, <1>2

\* Another client's put or deletion attaches no foreign key to a lease.
LEMMA OtherWriteOK ==
  ASSUME NEW s, NEW c \in {Put(200, 2), Delete(1)}, StoreOK(s), NEW o \in Outcomes(s, c)
  PROVE  StoreOK(o.s)
<1>1. CASE RequestError(s, c) # "none" BY <1>1 DEF Outcomes, Answer
<1>2. CASE RequestError(s, c) = "none"
  <2> DEFINE x == OpResult(s, Latest(s), c)
  <2>1. c.op \in {"put", "delete"} BY DEF Put, Delete
  <2>2. o.s = Commit(s, x.map, x.dirty)
    BY <1>2, <2>1 DEF Outcomes, Written, Answer, LeaseOps, WatchOps
  <2>3. Unleased(Latest(s)) BY DEF StoreOK
  <2>4. Unleased(x.map)
    <3>1. CASE c = Put(200, 2)
      <4>1. c.op = "put" /\ c.key = 200 /\ c.lease = 0 /\ c.opts = {} BY <3>1 DEF Put
      <4>2. x = PutResult(s, Latest(s), c) BY <4>1 DEF OpResult
      <4>3. \E new : /\ new.lease = 0
                     /\ PutResult(s, Latest(s), c).map =
                          [k \in DOMAIN Latest(s) \cup {200} |->
                             IF k = 200 THEN new ELSE Latest(s)[k]]
        BY <4>1 DEF PutResult
      <4>4. QED BY <2>3, <4>2, <4>3 DEF Unleased
    <3>2. CASE c = Delete(1)
      <4>1. x = DeleteResult(s, Latest(s), c) BY <3>2 DEF OpResult, Delete
      <4>2. \/ x.map = Latest(s)
            \/ x.map = [k \in DOMAIN Latest(s) \ KeysIn(s, Latest(s), c) |-> Latest(s)[k]]
        BY <4>1 DEF DeleteResult
      <4>3. QED BY <2>3, <4>2 DEF Unleased
    <3>3. QED BY <3>1, <3>2
  <2> HIDE DEF x
  <2>5. QED BY <2>2, <2>4, CommitOK
<1>3. QED BY <1>1, <1>2

\* The steps of others (writes, compactions, a connection made anew) keep the store well formed.
LEMMA OtherStepOK ==
  ASSUME IInv, OtherWrites \/ OtherCompacts \/ Reconnect
  PROVE  StoreOK(store')
<1>1. StoreOK(store) BY DEF IInv
<1>2. CASE OtherWrites
  <2>1. PICK c \in {Put(200, 2), Delete(1)} : Other(c) BY <1>2 DEF OtherWrites
  <2>2. PICK o \in Outcomes(store, c) : store' = o.s BY <2>1 DEF Other
  <2>3. QED BY <1>1, <2>2, OtherWriteOK
<1>3. CASE OtherCompacts
  <2>1. PICK o \in Outcomes(store, Compact(store.rev)) : store' = o.s
    BY <1>3 DEF OtherCompacts, Other
  <2>2. SafeCall(Compact(store.rev)) BY DEF SafeCall, Compact
  <2>3. QED BY <1>1, <2>1, <2>2, OutcomesQuiet DEF Quiet
<1>4. CASE Reconnect
  <2>1. store' = Resumed(store) BY <1>4 DEF Reconnect
  <2>2. /\ IsStore(store') /\ store'.rev = store.rev
        /\ store'.hist = store.hist /\ store'.leases = store.leases
    BY <1>1, <2>1 DEF StoreOK, IsStore, StoreFields, Resumed
  <2>3. QED BY <1>1, <2>2, WatchersQuiet DEF Quiet
<1>5. QED BY <1>2, <1>3, <1>4

\* Every step preserves the inductive invariant.
LEMMA IInvNext == IInv /\ [Next]_vars => IInv'
<1> SUFFICES ASSUME IInv, [Next]_vars PROVE IInv' OBVIOUS
<1> USE DEF IInv
<1>1. CASE Call
  <2>1. StoreOK(store') BY <1>1, OwnStepQuiet DEF Quiet
  <2>2. PICK resp : Answered(resp) BY <1>1 DEF Call
  <2>3. IsSequence(resps') /\ (verdict' = "running" => SafeCall(call')) BY <2>2, NextCallSafe
  <2>4. QED BY <1>1, <2>1, <2>3 DEF Call
<1>2. CASE CallTimesOut
  <2>1. IsSequence(resps') /\ (verdict' = "running" => SafeCall(call'))
    BY <1>2, NextCallSafe DEF CallTimesOut
  <2>2. QED BY <1>2, <2>1 DEF CallTimesOut
<1>3. CASE Retry
  <2>1. StoreOK(store') BY <1>3, OwnStepQuiet DEF Quiet
  <2>2. attempt' \in 1 .. 3 BY <1>3, SuiteAssumption DEF Retry, maxAttempts
  <2>3. SafeCall(call') BY <1>3, <2>2, FirstCallSafe DEF Retry
  <2>4. IsSequence(resps')
    <3>1. <<>> \in Seq({}) OBVIOUS
    <3>2. QED BY <1>3, <3>1 DEF Retry, IsSequence
  <2>5. QED BY <1>3, <2>1, <2>2, <2>3, <2>4 DEF Retry
<1>4. CASE LeaseExpires
  <2>1. StoreOK(store') BY <1>4, OwnStepQuiet DEF Quiet
  <2>2. QED BY <1>4, <2>1 DEF LeaseExpires, attemptVars
<1>5. CASE OtherWrites \/ OtherCompacts \/ Reconnect
  <2>1. StoreOK(store') BY <1>5, OtherStepOK
  <2>2. foreign' = foreign + 1 /\ UNCHANGED <<scenario, attemptVars>>
    BY <1>5 DEF OtherWrites, OtherCompacts, Other, Reconnect
  <2>3. QED BY <2>1, <2>2 DEF attemptVars
<1>6. CASE UNCHANGED vars BY <1>6 DEF vars, attemptVars
<1>7. QED BY <1>1, <1>2, <1>3, <1>4, <1>5, <1>6 DEF Next

\* A step that is not another client's leaves the foreign keys as they are.
LEMMA OwnStepUntouched ==
  ASSUME IInv, [Next]_vars, foreign' = foreign
  PROVE  SameForeign(Latest(store), Latest(store'))
<1>1. CASE Call \/ CallTimesOut \/ LeaseExpires \/ Retry BY <1>1, OwnStepQuiet DEF Quiet
<1>2. CASE OtherWrites \/ OtherCompacts \/ Reconnect
  <2>1. foreign' = foreign + 1 BY <1>2 DEF OtherWrites, OtherCompacts, Other, Reconnect
  <2>2. QED BY <2>1 DEF IInv
<1>3. CASE UNCHANGED vars BY <1>3 DEF vars, SameForeign
<1>4. QED BY <1>1, <1>2, <1>3 DEF Next

\* ForeignKeysUntouched: no step of the suite, in any of its scenarios and attempts and under
\* any breach of the server, creates, changes or deletes a key that is not the scenario's
\* (the bounds in the deletions of RunDeleteAllWithFromKey and its like are what it takes).
THEOREM OwnKeysOnly == Spec => ForeignKeysUntouched
<1>1. Init => IInv BY IInvInit
<1>2. IInv /\ [Next]_vars => IInv' BY IInvNext
<1>3. IInv /\ [Next]_vars
      => [foreign' = foreign =>
            LET now == Latest(store)
                new == Latest(store)'
            IN  \A k \in ForeignKeys : /\ k \in DOMAIN now <=> k \in DOMAIN new
                                       /\ k \in DOMAIN now => new[k] = now[k]]_vars
  <2> SUFFICES ASSUME IInv, [Next]_vars, foreign' = foreign
      PROVE  \A k \in ForeignKeys :
                /\ k \in DOMAIN Latest(store) <=> k \in DOMAIN Latest(store)'
                /\ k \in DOMAIN Latest(store) => Latest(store)'[k] = Latest(store)[k]
    OBVIOUS
  <2>1. SameForeign(Latest(store), Latest(store')) BY OwnStepUntouched
  <2>2. Latest(store)' = Latest(store') BY DEF Latest
  <2>3. QED BY <2>1, <2>2 DEF SameForeign, ForeignKeys
<1>4. QED BY <1>1, <1>2, <1>3, PTL DEF Spec, ForeignKeysUntouched
=============================================================================
