---------------------------- MODULE ScenariosTxn ----------------------------
(***************************************************************************)
(* The transaction scenarios of the conformance suite, in the notation of  *)
(* ScenarioSteps.                                                          *)
(***************************************************************************)
EXTENDS ScenarioSteps

\* The i-th response of a transaction, when it is of the given kind.
Sub(resp, i, kind) ==
    IF i \in DOMAIN resp.resps /\ resp.resps[i].kind = kind THEN resp.resps[i] ELSE NoResp
Has(resp, i, kind) == Sub(resp, i, kind).kind = kind
Single(resp, kind) == Len(resp.resps) = 1 /\ Has(resp, 1, kind)

RunTxnErrorDuplicateKey(K, r) ==
    << Fails(Txn(<<>>, <<Put(K, 1), Put(K, 2)>>, <<>>), "ErrDuplicateKey") >>

RunTxnErrorTooManyOps(K, r) ==
    << Fails(Txn(<<>>, [i \in 1 .. MaxTxnOps + 1 |-> Put(K + i, 0)], <<>>), "ErrTooManyOps") >>

\* "xyz" is 2 and "abc" 1 in the comparison, THEN is 3 and ELSE 4.
RunTxnPutOne(K, r) ==
    << Do(Txn(<<>>, <<Put(K, 2)>>, <<>>)),
       Step(Get(K), One(r[2], 2)),
       Do(Txn(<<Compare("val", K, ">", 1)>>, <<Put(K, 3)>>, <<Put(K, 4)>>)),
       Step(Get(K), One(r[4], 3)) >>

\* Mutant: the keys and values are compared, the revisions are not.
RunTxnPutMultipleAnyRevision(K, r) ==
    LET n == MaxTxnOps - 1 IN
    << Do(Get(K)),
       Step(Txn(<<>>, [i \in 1 .. n |-> Put(K + i, i)], <<>>), r[2].rev > r[1].rev),
       Step(WithSort(WithPrefix(Get(K)), "key", "ascend"),
            [i \in DOMAIN r[3].kvs |-> <<r[3].kvs[i].key, r[3].kvs[i].val>>]
                = [i \in 1 .. n |-> <<K + i, i>>]) >>

\* One write less than the limit, all of which must carry the transaction's revision.
RunTxnPutMultiple(K, r) ==
    LET n == MaxTxnOps - 1 IN
    << Do(Get(K)),
       Step(Txn(<<>>, [i \in 1 .. n |-> Put(K + i, i)], <<>>), r[2].rev > r[1].rev),
       Step(WithSort(WithPrefix(Get(K)), "key", "ascend"),
            r[3].kvs = [i \in 1 .. n |-> Fresh(K + i, i, r[2].rev)]) >>

RunTxnNested(K, r) ==
    << Step(Txn(<<Compare("ver", K, "=", 0)>>,
                <<Put(K, 1), Txn(<<>>, <<Put(K + 1, 2)>>, <<>>)>>,
                <<Put(K, 3)>>),
            Len(r[1].resps) = 2),
       Step(Get(K), One(r[2], 1)),
       Step(Get(K + 1), One(r[3], 2)) >>

RunTxnKeyExists(K, r) ==
    << Do(Put(K, 1)),
       Do(Txn(<<Compare("ver", K, ">", 0)>>, <<Delete(K)>>, <<>>)),
       Step(Get(K), None(r[3])) >>

RunTxnKeyMissing(K, r) ==
    << Do(Txn(<<Compare("ver", K, "=", 0)>>, <<Put(K, 1)>>, <<>>)),
       Step(Get(K), r[2].kvs = <<Fresh(K, 1, r[1].rev)>>) >>

\* Whether the first comparison holds differs between etcd versions and is not looked at.
RunTxnCompareRange(K, r) ==
    LET Prefix(rel, n) == <<WithPrefix(Compare("create", K, rel, n))>> IN
    << Do(Put(K + 1, 1)), Do(Put(K + 2, 2)),
       Step(WithPrefix(Get(K)), Len(r[3].kvs) >= 2),
       Do(Txn(Prefix("=", r[1].rev), <<>>, <<>>)),
       Step(Txn(Prefix(">", 0), <<>>, <<>>), r[5].ok) >>

RunTxnCompareModrevision(K, r) ==
    LET same == <<Compare("mod", K, "=", r[1].rev)>> IN
    << Do(Put(K, 1)),
       Step(Txn(same, <<Put(K, 2)>>, <<Get(K)>>), r[2].ok /\ Single(r[2], "put")),
       Step(Get(K), One(r[3], 2)),
       Step(Txn(same, <<Put(K, 3)>>, <<Get(K)>>),
            /\ ~r[4].ok /\ Single(r[4], "get")
            /\ One(Sub(r[4], 1, "get"), 2) /\ First(Sub(r[4], 1, "get")).mod = First(r[3]).mod) >>

RunTxnCompareCreaterevision(K, r) ==
    LET new == <<Compare("create", K, "=", 0)>> IN
    << Step(Txn(new, <<Put(K, 1)>>, <<Get(K)>>), r[1].ok /\ Single(r[1], "put")),
       Step(Get(K), Len(r[2].kvs) = 1 /\ First(r[2]).create = r[1].rev),
       Step(Txn(new, <<Put(K, 2)>>, <<Get(K)>>),
            ~r[3].ok /\ Single(r[3], "get") /\ First(Sub(r[3], 1, "get")).val = 1),
       Step(Txn(<<Compare("create", K, ">", 0)>>, <<Put(K, 3)>>, <<>>), r[4].ok),
       Unguarded(Get(K), /\ First(r[5]).val = 3 /\ First(r[5]).create = r[1].rev
                         /\ First(r[5]).mod # r[1].rev),
       Step(Txn(<<Compare("create", K, "=", r[1].rev)>>, <<Put(K, 4)>>, <<>>), r[6].ok) >>

RunTxnCompareVersion(K, r) ==
    LET N == K + 10
        If(k, rel, n) == <<Compare("ver", k, rel, n)>>
    IN
    << Do(Put(K, 1)),
       Unguarded(Get(K), First(r[2]).ver = 1),
       Step(Txn(If(K, "=", 1), <<Put(K, 2)>>, <<Get(K)>>), r[3].ok),
       Unguarded(Get(K), First(r[4]).ver = 2),
       Step(Txn(If(K, "=", 1), <<Put(K, 5)>>, <<Get(K)>>),
            ~r[5].ok /\ First(Sub(r[5], 1, "get")).val = 2),
       Step(Txn(If(K, ">", 0), <<Put(K, 3)>>, <<>>), r[6].ok),
       Step(Txn(If(N, "=", 0), <<Put(N, 1)>>, <<>>), r[7].ok),
       Do(Delete(N)),
       Step(Txn(If(N, "=", 0), <<Put(N, 2)>>, <<>>), r[9].ok) >>

RunTxnCompareValue(K, r) ==
    LET If(rel, v) == <<Compare("val", K, rel, v)>> IN
    << Do(Put(K, 1)),
       Step(Txn(If("=", 1), <<Delete(K)>>, <<Get(K)>>),
            r[2].ok /\ Single(r[2], "delete") /\ Sub(r[2], 1, "delete").deleted = 1),
       Do(Put(K, 1)),
       Step(Txn(If("=", 2), <<Delete(K)>>, <<Get(K)>>), ~r[4].ok /\ One(Sub(r[4], 1, "get"), 1)),
       Step(Get(K), Len(r[5].kvs) = 1),
       Step(Txn(If("!=", 2), <<Put(K, 3)>>, <<>>), r[6].ok),
       Unguarded(Get(K), TRUE),
       Step(Txn(<<Compare("mod", K, "=", First(r[7]).mod), Compare("val", K, "=", First(r[7]).val)>>,
                <<Delete(K)>>, <<>>), r[8].ok),
       Step(Get(K), None(r[9])) >>

\* The revokes at the end are best effort.
RunTxnCompareLease(K, r) ==
    LET If(k, l) == <<Compare("lease", k, "=", l)>> IN
    << Do(Grant(60)),
       Do(WithLease(Put(K, 1), r[1].lease)),
       Step(Txn(If(K, r[1].lease), <<WithLease(Put(K, 2), r[1].lease)>>, <<Get(K)>>), r[3].ok),
       Do(Grant(60)),
       Step(Txn(If(K, r[4].lease), <<Put(K, 3)>>, <<Get(K)>>),
            ~r[5].ok /\ Single(r[5], "get") /\ First(Sub(r[5], 1, "get")).val = 2),
       Do(Put(K + 10, 1)),
       Step(Txn(If(K + 10, 0), <<Put(K + 10, 2)>>, <<Get(K + 10)>>), r[7].ok),
       BestEffort(Revoke(r[1].lease)), BestEffort(Revoke(r[4].lease)) >>

\* The workers of the third part write keys of their own; of each answer only the number of
\* responses is looked at.  Two workers with one round each stand for five with three.
RunTxnMultiOpAtomicity(K, r) ==
    LET Worker(w) == Txn(<<>>, <<Put(K + 4 + w, 1), Put(K + 6 + w, 1)>>, <<>>) IN
    << Step(Txn(<<>>, <<Put(K + 1, 1), Put(K + 2, 1)>>, <<>>), r[1].ok /\ Len(r[1].resps) = 2),
       Step(WithPrefix(Get(K)), Len(r[2].kvs) = 2),
       Do(Put(K + 3, 1)),
       Step(Txn(<<>>, <<Put(K + 1, 2), Get(K + 2), Delete(K + 3)>>, <<>>),
            /\ Len(r[4].resps) = 3
            /\ Has(r[4], 2, "get") /\ One(Sub(r[4], 2, "get"), 1)
            /\ Has(r[4], 3, "delete") /\ Sub(r[4], 3, "delete").deleted = 1),
       Step(Worker(0), Len(r[5].resps) = 2),
       Step(Worker(1), Len(r[6].resps) = 2) >>

-----------------------------------------------------------------------------
\* The scenarios of this module, and the function behind each name.
TxnScenarios ==
    {"TxnErrorDuplicateKey", "TxnErrorTooManyOps", "TxnPutOne", "TxnPutMultiple", "TxnNested",
     "TxnKeyExists", "TxnKeyMissing", "TxnCompareRange", "TxnCompareModrevision",
     "TxnCompareCreaterevision", "TxnCompareVersion", "TxnCompareValue", "TxnCompareLease",
     "TxnMultiOpAtomicity"}

TxnRunner(n, K, r) ==
    CASE n = "TxnErrorDuplicateKey" -> RunTxnErrorDuplicateKey(K, r)
      [] n = "TxnErrorTooManyOps" -> RunTxnErrorTooManyOps(K, r)
      [] n = "TxnPutOne" -> RunTxnPutOne(K, r)
      [] n = "TxnPutMultiple" -> RunTxnPutMultiple(K, r)
      [] n = "TxnNested" -> RunTxnNested(K, r)
      [] n = "TxnKeyExists" -> RunTxnKeyExists(K, r)
      [] n = "TxnKeyMissing" -> RunTxnKeyMissing(K, r)
      [] n = "TxnCompareRange" -> RunTxnCompareRange(K, r)
      [] n = "TxnCompareModrevision" -> RunTxnCompareModrevision(K, r)
      [] n = "TxnCompareCreaterevision" -> RunTxnCompareCreaterevision(K, r)
      [] n = "TxnCompareVersion" -> RunTxnCompareVersion(K, r)
      [] n = "TxnCompareValue" -> RunTxnCompareValue(K, r)
      [] n = "TxnCompareLease" -> RunTxnCompareLease(K, r)
      [] n = "TxnMultiOpAtomicity" -> RunTxnMultiOpAtomicity(K, r)
=============================================================================
