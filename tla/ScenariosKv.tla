---------------------------- MODULE ScenariosKv ----------------------------
(***************************************************************************)
(* The put and get scenarios of the conformance suite, one definition per  *)
(* scenario function, in the notation of ScenarioSteps.                    *)
(***************************************************************************)
EXTENDS ScenarioSteps

RunPutEmptyKeyShouldError(K, r) == << Fails(Put(0, 1), "ErrEmptyKey") >>

RunPutLargeShouldError(K, r) ==
    << Fails(Put(K, Huge), "ErrRequestTooLarge"),
       Fails(With(Put(K, Huge), "overSendLimit"), "ResourceExhausted") >>

RunPutAndGetWithLatestRevision(K, r) ==
    << Do(Put(K, 1)),
       Unguarded(Get(K), First(r[2]).mod = r[1].rev /\ First(r[2]).val = 1) >>

RunPutAndGetWithOldRevision(K, r) ==
    << Do(Put(K, 1)), Do(Put(K, 2)),
       Unguarded(WithRev(Get(K), r[1].rev),
            /\ r[3].rev >= r[2].rev
            /\ First(r[3]).mod = r[1].rev /\ First(r[3]).val = 1) >>

\* The keys are written in a shuffled order.
RunPutAndGetWithPrefix(K, r) ==
    << Do(Put(K + 3, 1)), Do(Put(K + 1, 1)), Do(Put(K + 2, 1)),
       Step(WithPrefix(Get(K)), KeysOf(r[4]) = <<K + 1, K + 2, K + 3>>) >>

\* Other clients' keys may follow the test keys in the answer.
RunPutAndGetWithFromKey(K, r) ==
    << Do(Put(K + 3, 1)), Do(Put(K + 1, 1)), Do(Put(K + 2, 1)),
       Step(WithFromKey(Get(K)),
            /\ Len(r[4].kvs) >= 3 /\ Ascending(KeysOf(r[4]))
            /\ \A k \in K + 1 .. K + 3 : \E kv \in ToSet(r[4].kvs) : kv.key = k /\ kv.val = 1) >>

RunPutAndGetWithNamespace(K, r) ==
    << Do(Put(K + 1, 1)),
       Unguarded(Get(K + 1), First(r[2]).key = K + 1 /\ First(r[2]).val = 1),
       Unguarded(Get(K + 1), First(r[3]).key = K + 1 /\ First(r[3]).val = 1) >>

\* The prefix is deleted and compacted first; a compaction by someone else is tolerated.
\* Mutant: the expected revisions are counted up from that of the first deletion.
RunPutAndGetWithSortPrecomputed(K, r) ==
    << Do(WithPrefix(Delete(K))), Tolerates(Compact(r[1].rev), "ErrCompacted") >>
    \o Puts(K, Many, 1)
    \o << Step(WithSort(WithPrefix(Get(K)), "key", "descend"),
               r[Many + 3].kvs = Reverse([i \in 1 .. Many |-> Fresh(K + i, 1, r[1].rev + i)])) >>

RunPutAndGetWithSort(K, r) ==
    << Do(WithPrefix(Delete(K))), Tolerates(Compact(r[1].rev), "ErrCompacted") >>
    \o Puts(K, Many, 1)
    \o << Step(WithSort(WithPrefix(Get(K)), "key", "descend"),
               r[Many + 3].kvs = Reverse(FreshKvs(K, Many, 1, r, 2))) >>

RunPutAndGetWithOp(K, r) ==
    << Do(Put(K, 1)), Unguarded(Get(K), First(r[2]) = Fresh(K, 1, r[1].rev)) >>

RunPutAndDelete(K, r) ==
    << Do(Put(K, 1)),
       Step(WithRev(Get(K), r[1].rev), r[2].rev >= r[1].rev),
       Step(Delete(K), r[3].deleted = 1 /\ r[3].rev > r[1].rev),
       Step(WithRev(Get(K), r[1].rev), Len(r[4].kvs) = 1),
       Step(Get(K), None(r[5]) /\ r[5].rev >= r[3].rev) >>

RunPutAndDeleteWithPrefix(K, r) ==
    Puts(K, Many, 1)
    \o << Step(WithPrefix(Delete(K)), r[Many + 1].deleted = Many),
          Step(WithPrefix(Get(K)), None(r[Many + 2])) >>

RunPutAndDeleteAndGetWithOldRevision(K, r) ==
    << Do(Put(K, 1)),
       Step(Put(K, 2), r[2].rev > r[1].rev),
       Step(WithRev(Get(K), r[1].rev), Len(r[3].kvs) = 1 /\ First(r[3]).mod = r[1].rev),
       Step(WithRev(Get(K), r[2].rev), Len(r[4].kvs) = 1 /\ First(r[4]).mod = r[2].rev),
       Step(With(Delete(K), "prevKV"),
            /\ r[5].deleted = 1 /\ Len(r[5].prev) = 1
            /\ Prev(r[5]).key = K /\ Prev(r[5]).val = 2 /\ r[5].rev > r[2].rev),
       Step(WithRev(Get(K), r[1].rev), Len(r[6].kvs) = 1 /\ First(r[6]).mod = r[1].rev),
       Step(Get(K), None(r[7])) >>

\* The concurrent puts write the same key and value, so their order does not matter; the
\* first and the last read are of a key outside the test prefix and use only the header.
RunPutLinearizability(K, r) ==
    << Do(Get(1)) >>
    \o [i \in 1 .. Many |-> Step(Put(K, 1), \A j \in 2 .. i : r[j].rev # r[i + 1].rev)]
    \o << Step(Get(1), r[Many + 2].rev >= r[1].rev + Many) >>
    \o [i \in 1 .. Many |-> Step(WithRev(Get(K), r[i + 1].rev), One(r[Many + 2 + i], 1))]

RunPutWithIgnoreValue(K, r) ==
    << Fails(With(Put(K, 0), "ignoreValue"), "ErrKeyNotFound"),
       Do(Put(K, 1)),
       Do(With(Put(K, 0), "ignoreValue")),
       Step(Get(K), One(r[4], 1) /\ First(r[4]).key = K /\ First(r[4]).ver = 2) >>

RunPutWithPrevKv(K, r) ==
    LET PutPrev(k, v) == With(Put(k, v), "prevKV") IN
    << Step(PutPrev(K, 1), r[1].prev = <<>>),
       Step(PutPrev(K, 2), r[2].prev # <<>> /\ [Prev(r[2]) EXCEPT !.lease = 0] = Fresh(K, 1, r[1].rev)),
       Step(PutPrev(K, 3), /\ r[3].prev # <<>> /\ Prev(r[3]).val = 2
                           /\ Prev(r[3]).mod = r[2].rev /\ Prev(r[3]).ver = 2),
       Step(Put(K, 4), r[4].prev = <<>>),
       Step(PutPrev(K + 10, 1), r[5].prev = <<>>),
       Do(Grant(60)),
       Do(Put(K + 20, 1)),
       Step(WithLease(PutPrev(K + 20, 2), r[6].lease),
            r[8].prev # <<>> /\ Prev(r[8]).val = 1 /\ Prev(r[8]).lease = 0) >>

-----------------------------------------------------------------------------
RunGetEmptyKey(K, r) == << Fails(Get(0), "ErrEmptyKey") >>

RunGetWithPrefix(K, r) ==
    Puts(K, Many, 0)
    \o << Step(WithPrefix(Get(K)), r[Many + 1].kvs = FreshKvs(K, Many, 0, r, 0)) >>

RunGetWithFromKey(K, r) ==
    Puts(K, Many, 0)
    \o << Step(WithFromKey(Get(K)),
            /\ Len(r[Many + 1].kvs) >= Many /\ Ascending(KeysOf(r[Many + 1]))
            /\ \A i \in 1 .. Many : \E kv \in ToSet(r[Many + 1].kvs) : kv.key = K + i /\ kv.val = 0) >>

RunGetWithKeysOnly(K, r) ==
    Puts(K, Many, 1)
    \o << Step(With(WithPrefix(Get(K)), "keysOnly"),
            /\ KeysOf(r[Many + 1]) = [i \in 1 .. Many |-> K + i]
            /\ \A kv \in ToSet(r[Many + 1].kvs) : kv.val = 0 /\ kv.create # 0 /\ kv.mod # 0),
          Step(WithPrefix(Get(K)), \A kv \in ToSet(r[Many + 2].kvs) : kv.val = 1),
          Step(With(Get(K + 1), "keysOnly"), One(r[Many + 3], 0)) >>

\* Every read is pinned to the revision of the last put.
RunGetWithLimitAndCount(K, r) ==
    LET pin == r[5].rev
        Page(c) == WithRev(WithSort(With(WithLimit(c, 3), "keysOnly"), "key", "ascend"), pin)
        Values0(resp) == \A kv \in ToSet(resp.kvs) : kv.val = 0
    IN
    [i \in 1 .. 5 |-> Do(Put(K + i, i))]
    \o << Step(Page(WithPrefix(Get(K))),
            /\ r[6].rev >= pin /\ KeysOf(r[6]) = <<K + 1, K + 2, K + 3>> /\ Values0(r[6])
            /\ r[6].count = 5 /\ r[6].more),
          Step(Page(WithRange(Get(LastKey(r[6]) + 1), K + Width)),
            /\ r[7].rev >= pin /\ KeysOf(r[7]) = <<K + 4, K + 5>> /\ Values0(r[7])
            /\ r[7].count = Len(r[7].kvs) /\ ~r[7].more),
          Step(WithRev(With(WithPrefix(Get(K)), "countOnly"), pin),
            r[8].rev >= pin /\ r[8].count = 5 /\ None(r[8]) /\ ~r[8].more) >>

RunGetWithRevisionFilters(K, r) ==
    LET P == WithPrefix(Get(K))
        Only(i, k) == Len(r[i].kvs) = 1 /\ First(r[i]).key = k
    IN
    << Do(Put(K + 1, 1)), Do(Put(K + 2, 1)),
       Step(Put(K + 1, 2), r[3].rev > r[2].rev),
       Step([P EXCEPT !.minMod = r[3].rev], Only(4, K + 1)),
       Step([P EXCEPT !.maxMod = r[2].rev], Only(5, K + 2)),
       Step([P EXCEPT !.minCreate = r[2].rev], Only(6, K + 2)),
       Step([P EXCEPT !.maxCreate = r[1].rev], Only(7, K + 1)) >>

RunGetWithRequireLeader(K, r) ==
    << Do(Put(K, 1)),
       Step(Get(K), One(r[2], 1)),
       Do(With(Watch(K), "prevKV")),
       Do(Put(K, 2)),
       Step(Recv(1), \E e \in ToSet(r[5].events) :
                        e.kv.val = 2 /\ e.prev # <<>> /\ e.prev[1].val = 1) >>

-----------------------------------------------------------------------------
\* The scenarios of this module, and the function behind each name.
KvScenarios ==
    {"PutEmptyKeyShouldError", "PutLargeShouldError", "PutAndGetWithLatestRevision",
     "PutAndGetWithOldRevision", "PutAndGetWithPrefix", "PutAndGetWithFromKey",
     "PutAndGetWithNamespace", "PutAndGetWithSort", "PutAndGetWithOp", "PutAndDelete",
     "PutAndDeleteWithPrefix", "PutAndDeleteAndGetWithOldRevision", "PutLinearizability",
     "PutWithIgnoreValue", "PutWithPrevKv", "GetEmptyKey", "GetWithPrefix", "GetWithFromKey",
     "GetWithKeysOnly", "GetWithLimitAndCount", "GetWithRevisionFilters", "GetWithRequireLeader"}

KvRunner(n, K, r) ==
    CASE n = "PutEmptyKeyShouldError" -> RunPutEmptyKeyShouldError(K, r)
      [] n = "PutLargeShouldError" -> RunPutLargeShouldError(K, r)
      [] n = "PutAndGetWithLatestRevision" -> RunPutAndGetWithLatestRevision(K, r)
      [] n = "PutAndGetWithOldRevision" -> RunPutAndGetWithOldRevision(K, r)
      [] n = "PutAndGetWithPrefix" -> RunPutAndGetWithPrefix(K, r)
      [] n = "PutAndGetWithFromKey" -> RunPutAndGetWithFromKey(K, r)
      [] n = "PutAndGetWithNamespace" -> RunPutAndGetWithNamespace(K, r)
      [] n = "PutAndGetWithSort" -> RunPutAndGetWithSort(K, r)
      [] n = "PutAndGetWithOp" -> RunPutAndGetWithOp(K, r)
      [] n = "PutAndDelete" -> RunPutAndDelete(K, r)
      [] n = "PutAndDeleteWithPrefix" -> RunPutAndDeleteWithPrefix(K, r)
      [] n = "PutAndDeleteAndGetWithOldRevision" -> RunPutAndDeleteAndGetWithOldRevision(K, r)
      [] n = "PutLinearizability" -> RunPutLinearizability(K, r)
      [] n = "PutWithIgnoreValue" -> RunPutWithIgnoreValue(K, r)
      [] n = "PutWithPrevKv" -> RunPutWithPrevKv(K, r)
      [] n = "GetEmptyKey" -> RunGetEmptyKey(K, r)
      [] n = "GetWithPrefix" -> RunGetWithPrefix(K, r)
      [] n = "GetWithFromKey" -> RunGetWithFromKey(K, r)
      [] n = "GetWithKeysOnly" -> RunGetWithKeysOnly(K, r)
      [] n = "GetWithLimitAndCount" -> RunGetWithLimitAndCount(K, r)
      [] n = "GetWithRevisionFilters" -> RunGetWithRevisionFilters(K, r)
      [] n = "GetWithRequireLeader" -> RunGetWithRequireLeader(K, r)
=============================================================================
