-------------------------- MODULE ScenariosHistory --------------------------
(***************************************************************************)
(* The scenarios of the conformance suite about ranges, deletion, revisions *)
(* and compaction, in the notation of ScenarioSteps.                       *)
(***************************************************************************)
EXTENDS ScenarioSteps

\* Kubernetes-style continue tokens.  Decoding scans "%d/%s", so it needs a non-empty key.
encodeContinueToken(rev, key) == [rev |-> rev, key |-> key]
decodeContinueToken(token) ==
    IF token.key = 0 THEN [err |-> TRUE, rev |-> 0, key |-> 0]
    ELSE [err |-> FALSE, rev |-> token.rev, key |-> token.key]

\* 15 keys in pages of 5 are 6 keys in pages of 2; a key is added between two pages.
RunGetWithContinueToken(K, r) ==
    LET token == decodeContinueToken(encodeContinueToken(r[7].rev, LastKey(r[7])))
        Page(c) == WithSort(With(WithLimit(c, 2), "keysOnly"), "key", "ascend")
        After(k) == WithRev(WithRange(Get(k + 1), K + Width), token.rev)
    IN
    Puts(K, 6, 1)
    \o << Step(Page(WithPrefix(Get(K))),
            KeysOf(r[7]) = <<K + 1, K + 2>> /\ r[7].more /\ r[7].count = 6),
          Step(Put(K + 8, 1), ~token.err /\ token.rev = r[7].rev),
          Step(Page(After(token.key)), KeysOf(r[9]) = <<K + 3, K + 4>> /\ r[9].more),
          Step(Page(After(LastKey(r[9]))), KeysOf(r[10]) = <<K + 5, K + 6>> /\ ~r[10].more),
          Step(WithLimit(After(LastKey(r[10])), 2), None(r[11]) /\ ~r[11].more),
          Step(WithRev(With(WithLimit(WithPrefix(Get(K)), 2), "countOnly"), token.rev),
            r[12].count = 6 /\ None(r[12])) >>

\* The keys a, b, c, foo, foo/abc and fop are K + 1, K + 2, K + 3, K + 5, K + 6 and K + 7; c is
\* written three times; x is K + 9.  Answers are filtered to the test prefix before they are
\* compared, so other clients' keys do not matter.
rangePuts == <<1, 2, 3, 3, 3, 5, 6, 7>>

\* The records those puts left at the keys K + ks[1], K + ks[2], ...
RangeKvs(K, r, ks) ==
    LET Kv(k) == LET puts == {i \in 1 .. 8 : rangePuts[i] = k} IN
                 [key |-> K + k, val |-> 0, ver |-> Cardinality(puts), lease |-> 0,
                  create |-> r[2 + Min(puts)].rev, mod |-> r[2 + Max(puts)].rev]
    IN [i \in DOMAIN ks |-> Kv(ks[i])]

KvsUnder(K, resp) == SelectSeq(resp.kvs, LAMBDA kv : kv.key \in K .. K + Width - 1)

RangeReads(K, r) ==
    LET all == <<1, 2, 3, 5, 6, 7>>
        firstRev == r[3].rev
        AtoC == WithRange(Get(K + 1), K + 3)
        AtoX == WithRange(Get(K + 1), K + 9)
        EveryKey == WithSort(WithRange(Get(0), Endless), "key", "ascend")
        Test(i, c, ks) == Step(c, KvsUnder(K, r[i]) = RangeKvs(K, r, ks))
    IN
    << Test(11, AtoC, <<1, 2>>), Test(12, With(AtoC, "serializable"), <<1, 2>>),
       Step(WithRev(AtoX, firstRev),
            KvsUnder(K, r[13]) = <<[RangeKvs(K, r, <<1>>)[1] EXCEPT !.ver = 1]>>),
       Test(14, With(WithRev(AtoX, firstRev), "countOnly"), <<>>),
       Test(15, WithSort(AtoX, "key", "ascend"), all), Test(16, WithSort(AtoX, "key", "none"), all),
       Test(17, WithSort(AtoX, "create", "descend"), Reverse(all)),
       Test(18, WithSort(AtoX, "create", "none"), all),
       Test(19, WithSort(AtoX, "mod", "descend"), Reverse(all)),
       Test(20, WithRange(Get(K + 5), K + 7), <<5, 6>>),
       Test(21, WithFromKey(Get(K + 4)), <<5, 6, 7>>),
       Test(22, EveryKey, all), Test(23, EveryKey, all), Test(24, EveryKey, all) >>

RunGetWithRange(K, r) ==
    << Do(WithPrefix(Delete(K))), Tolerates(Compact(r[1].rev), "ErrCompacted") >>
    \o [i \in 1 .. 8 |-> Do(Put(K + rangePuts[i], 0))]
    \o RangeReads(K, r)

-----------------------------------------------------------------------------
RunDeleteEmptyKey(K, r) == << Fails(Delete(0), "ErrEmptyKey") >>

\* Mutant: the deletion reaches every key from the test prefix on.
RunDeleteAllWithFromKeyUnbounded(K, r) ==
    Puts(K, Many, 1)
    \o << Step(WithFromKey(Get(K)), Len(r[Many + 1].kvs) >= Many),
          Step(WithFromKey(Delete(K)), r[Many + 2].deleted >= Many),
          Step(WithPrefix(Get(K)), None(r[Many + 3])) >>

\* Deletion is bounded by the end of the test prefix, never WithFromKey on its own.
RunDeleteAllWithFromKey(K, r) ==
    Puts(K, Many, 1)
    \o << Step(WithFromKey(Get(K)), Len(r[Many + 1].kvs) >= Many),
          Step(WithRange(Delete(K), K + Width), r[Many + 2].deleted >= Many),
          Step(WithPrefix(Get(K)), None(r[Many + 3])) >>

RunDeleteAllWithPrefix(K, r) ==
    Puts(K, Many, 1)
    \o << Step(WithFromKey(Get(K)), Len(r[Many + 1].kvs) >= Many),
          Step(WithPrefix(Delete(K)), r[Many + 2].deleted >= Many),
          Step(WithPrefix(Get(K)), None(r[Many + 3])) >>

RunDeleteWithPrecondition(K, r) ==
    LET same == << Compare("mod", K, "=", r[1].rev), Compare("val", K, "=", 1) >> IN
    << Do(Put(K, 1)),
       Step(Txn(same, <<Delete(K)>>, <<>>),
            r[2].ok /\ Len(r[2].resps) = 1 /\ r[2].resps[1].kind = "delete" /\ r[2].resps[1].deleted = 1),
       Step(Get(K), None(r[3])),
       Do(Put(K, 2)),
       Step(Txn(same, <<Delete(K)>>, <<Get(K)>>),
            ~r[5].ok /\ Len(r[5].resps) = 1 /\ r[5].resps[1].kind = "get" /\ One(r[5].resps[1], 2)) >>

RunDeleteWithPrevKv(K, r) ==
    LET P == K + 10 IN
    << Do(Put(K, 1)), Do(Put(K, 2)),
       Step(With(Delete(K), "prevKV"),
            /\ r[3].deleted = 1 /\ Len(r[3].prev) = 1
            /\ [Prev(r[3]) EXCEPT !.lease = 0] =
               [key |-> K, val |-> 2, create |-> r[1].rev, mod |-> r[2].rev, ver |-> 2, lease |-> 0]),
       Step(With(Delete(K), "prevKV"), r[4].deleted = 0 /\ r[4].prev = <<>>),
       Do(Put(P + 1, 1)), Do(Put(P + 2, 2)), Do(Put(P + 3, 3)),
       Step(With(WithPrefix(Delete(P)), "prevKV"),
            /\ r[8].deleted = 3 /\ Len(r[8].prev) = 3
            /\ \A i \in 1 .. 3 : \E kv \in ToSet(r[8].prev) : kv.key = P + i /\ kv.val = i) >>

\* Keys 3 to 6 of ten deleted become keys 2 and 3 of four.  The second part deletes four ranges
\* of a second prefix in turn: a, b, c, c/abc and d are P + 1 .. P + 5, written anew each time.
RunDeleteWithRange(K, r) ==
    LET P == K + 10
        tests == << <<WithRange(Delete(P + 1), P + 3), <<3, 4, 5>> >>,
                    <<WithRange(Delete(P + 3), P + 5), <<1, 2, 5>> >>,
                    <<WithRange(Delete(P + 3), P + Width), <<1, 2>> >>,
                    <<WithPrefix(Delete(P)), <<>> >> >>
        Test(t) == Puts(P, 5, 0)
                   \o << Do(tests[t][1]),
                         Step(WithPrefix(Get(P)),
                              KeysOf(r[8 + 7 * t]) = [i \in DOMAIN tests[t][2] |-> P + tests[t][2][i]]) >>
    IN
    << Do(WithPrefix(Delete(K))), Tolerates(Compact(r[1].rev), "ErrCompacted") >>
    \o Puts(K, 4, 0)
    \o << Step(WithRange(Delete(K + 2), K + 4), r[7].deleted = 2),
          Step(WithPrefix(Get(K)), r[8].kvs = <<Fresh(K + 1, 0, r[3].rev), Fresh(K + 4, 0, r[6].rev)>>) >>
    \o Test(1) \o Test(2) \o Test(3) \o Test(4)

-----------------------------------------------------------------------------
\* The revisions compacted are the scenario's own; no compaction of someone else's is tolerated.
RunCompact(K, r) ==
    LET last == r[3].rev
        At(i, n, v) == One(r[i], v) /\ First(r[i]).mod = n
    IN
    << Do(Put(K, 1)), Step(Put(K, 1), r[2].rev > r[1].rev), Step(Put(K, 1), r[3].rev > r[2].rev),
       Do(Compact(last)),
       Fails(Compact(last), "ErrCompacted"),
       Fails(Compact(last + 100), "ErrFutureRev"),
       Do(Put(K, 2)), Step(Put(K, 3), r[8].rev > r[7].rev),
       Step(WithRev(Get(K), r[7].rev), At(9, r[7].rev, 2)),
       Step(WithRev(Get(K), r[8].rev), At(10, r[8].rev, 3)),
       Do(Compact(r[8].rev)),
       Fails(Compact(r[8].rev), "ErrCompacted"),
       Fails(Compact(r[8].rev + 100), "ErrFutureRev"),
       Fails(WithRev(Get(K), r[7].rev), "ErrCompacted"),
       Step(WithRev(Get(K), r[8].rev), At(15, r[8].rev, 3)),
       Step(Get(K), At(16, r[8].rev, 3)) >>

RunCompactRevisionRetention(K, r) ==
    [i \in 1 .. 5 |-> Do(Put(K, i))]
    \o << Do(Compact(r[3].rev)),
          Fails(WithRev(Get(K), r[1].rev), "ErrCompacted"),
          Fails(WithRev(Get(K), r[2].rev), "ErrCompacted"),
          Step(WithRev(Get(K), r[3].rev), One(r[9], 3)),
          Step(WithRev(Get(K), r[4].rev), One(r[10], 4)),
          Step(WithRev(Get(K), r[5].rev), One(r[11], 5)),
          Unguarded(Get(K), First(r[12]).val = 5) >>

RunErrorCompacted(K, r) ==
    << Do(Put(K, 1)), Do(Put(K, 2)),
       Do(Compact(r[2].rev)),
       Fails(WithRev(Get(K), r[1].rev), "ErrCompacted"),
       Do(WithRev(Watch(K), r[1].rev)),
       Fails(Recv(1), "ErrCompacted"),
       Fails(Compact(r[2].rev), "ErrCompacted"),
       Step(WithRev(Get(K), r[2].rev), One(r[8], 2)) >>

RunErrorFutureRev(K, r) ==
    << Do(Put(K, 1)),
       Fails(WithRev(Get(K), r[1].rev + 1000), "ErrFutureRev"),
       Do(WithRev(Watch(K), r[1].rev + 1)),
       Do(Put(K, 2)),
       Step(Recv(1), Len(r[5].events) = 1 /\ Event(r[5], 1).kv.val = 2),
       Fails(Compact(r[1].rev + 1000), "ErrFutureRev") >>

\* The concurrent puts of the code write distinct keys and are checked symmetrically.
RunHeaderRevisionMonotonic(K, r) ==
    LET P == K + 10
        T == K + 20
    IN
    << Step(Put(K, 1), r[1].rev > 0), Step(Put(K, 2), r[2].rev > r[1].rev),
       Step(Put(K, 3), r[3].rev > r[2].rev),
       Step(Get(K), r[4].rev >= r[3].rev),
       Step(Delete(K), r[5].rev > r[3].rev) >>
    \o Puts(P, 3, 1)
    \o << Step(WithPrefix(Get(P)), (\A i \in 6 .. 8 : r[9].rev >= r[i].rev) /\ Len(r[9].kvs) = 3),
          Do(Put(T, 1)),
          Step(Txn(<<Compare("ver", T, ">", 0)>>, <<Put(T, 2), Get(T)>>, <<>>),
               r[11].ok /\ r[11].rev > r[9].rev) >>

RunModRevisionConsistency(K, r) ==
    << Do(Put(K, 1)),
       Step(Get(K), /\ Len(r[2].kvs) = 1 /\ First(r[2]).create = r[1].rev
                    /\ First(r[2]).mod = r[1].rev /\ First(r[2]).ver = 1),
       Do(Put(K, 2)),
       Unguarded(Get(K), /\ First(r[4]).create = r[1].rev /\ First(r[4]).mod = r[3].rev
                         /\ First(r[4]).mod > r[1].rev /\ First(r[4]).ver = 2),
       Unguarded(Get(K), First(r[5]).mod = r[3].rev),
       Unguarded(Get(K), First(r[6]).mod = r[3].rev),
       Do(WithRev(Watch(K), r[3].rev + 1)),
       Do(Put(K, 3)),
       Step(Recv(1), /\ Len(r[9].events) = 1 /\ Event(r[9], 1).type = "PUT"
                     /\ Event(r[9], 1).kv.mod = r[8].rev /\ Event(r[9], 1).kv.create = r[1].rev),
       Unguarded(WithRev(Get(K), r[3].rev), First(r[10]).mod = r[3].rev /\ First(r[10]).val = 2),
       Do(Delete(K)),
       Do(Put(K, 4)),
       Unguarded(Get(K), /\ First(r[13]).create = r[12].rev /\ First(r[13]).mod = r[12].rev
                         /\ First(r[13]).ver = 1) >>

-----------------------------------------------------------------------------
\* The scenarios of this module, and the function behind each name.
HistoryScenarios ==
    {"GetWithContinueToken", "GetWithRange", "DeleteEmptyKey", "DeleteAllWithFromKey",
     "DeleteAllWithPrefix", "DeleteWithPrecondition", "DeleteWithPrevKv", "DeleteWithRange",
     "Compact", "CompactRevisionRetention", "ErrorCompacted", "ErrorFutureRev",
     "HeaderRevisionMonotonic", "ModRevisionConsistency"}

HistoryRunner(n, K, r) ==
    CASE n = "GetWithContinueToken" -> RunGetWithContinueToken(K, r)
      [] n = "GetWithRange" -> RunGetWithRange(K, r)
      [] n = "DeleteEmptyKey" -> RunDeleteEmptyKey(K, r)
      [] n = "DeleteAllWithFromKey" -> RunDeleteAllWithFromKey(K, r)
      [] n = "DeleteAllWithPrefix" -> RunDeleteAllWithPrefix(K, r)
      [] n = "DeleteWithPrecondition" -> RunDeleteWithPrecondition(K, r)
      [] n = "DeleteWithPrevKv" -> RunDeleteWithPrevKv(K, r)
      [] n = "DeleteWithRange" -> RunDeleteWithRange(K, r)
      [] n = "Compact" -> RunCompact(K, r)
      [] n = "CompactRevisionRetention" -> RunCompactRevisionRetention(K, r)
      [] n = "ErrorCompacted" -> RunErrorCompacted(K, r)
      [] n = "ErrorFutureRev" -> RunErrorFutureRev(K, r)
      [] n = "HeaderRevisionMonotonic" -> RunHeaderRevisionMonotonic(K, r)
      [] n = "ModRevisionConsistency" -> RunModRevisionConsistency(K, r)
=============================================================================
