--------------------------- MODULE ScenariosLease ---------------------------
(***************************************************************************)
(* The lease, mirror and hash scenarios of the conformance suite, one      *)
(* definition per scenario function, in the notation of ScenarioSteps.     *)
(***************************************************************************)
EXTENDS ScenarioSteps

Leased(k, v, l) == WithLease(Put(k, v), l)
Attach(k, v, n, l) == [Fresh(k, v, n) EXCEPT !.lease = l]

\* Three keys of one lease, and a key without one that outlives a second lease.
RunLeaseExpirationAutoDelete(K, r) ==
    LET P == K + 10 IN
    << Do(Grant(15)) >>
    \o [i \in 1 .. 3 |-> Do(Leased(K + i, 1, r[1].lease))]
    \o [i \in 1 .. 3 |-> Step(Get(K + i), Len(r[4 + i].kvs) = 1)]
    \o << Do(Sleep(18)) >>
    \o [i \in 1 .. 3 |-> Step(Get(K + i), None(r[8 + i]))]
    \o << Do(Put(P + 1, 1)), Do(Grant(15)), Do(Leased(P + 2, 2, r[13].lease)),
          Do(Sleep(18)),
          Step(Get(P + 1), Len(r[16].kvs) = 1),
          Step(Get(P + 2), None(r[17])) >>

\* A time to live of 0 is either refused or raised.
RunLeaseGrantTTLBounds(K, r) ==
    LET zero == r[5].err = "none"
        n == IF zero THEN 6 ELSE 5
    IN
    << Step(Grant(1), r[1].ttl >= 1), Step(Grant(60), r[2].ttl = 60),
       Step(Grant(3600), r[3].ttl = 3600), Step(Grant(86400), r[4].ttl = 86400),
       [Step(Grant(0), zero => r[5].ttl >= 1) EXCEPT !.errs = {"none", "ErrLeaseTTL"}] >>
    \o (IF zero THEN << BestEffort(Revoke(r[5].lease)) >> ELSE <<>>)
    \o << Step(TimeToLive(r[2].lease),
               r[n + 1].ttl > 0 /\ r[n + 1].ttl <= 60 /\ r[n + 1].granted = 60) >>
    \o [i \in 1 .. 4 |-> BestEffort(Revoke(r[i].lease))]

\* The channel of the revoked lease is drained until it is closed.
RunLeaseKeepaliveRevoke(K, r) ==
    LET n == Receives(r, 8, LAMBDA rs : Last(rs).err = "closed")
        Kept(l) == << Do(Grant(15)), Do(KeepAlive(r[l].lease)) >>
    IN
    Kept(1) \o Kept(3) \o Kept(5)
    \o << Do(Revoke(r[3].lease)),
          Do(RecvAlive(r[1].lease)) >>
    \o [i \in 1 .. n |-> Tolerates(RecvAlive(r[3].lease), "closed")]

RunLeaseList(K, r) ==
    [i \in 1 .. 3 |-> Do(Grant(300))]
    \o << Step(Leases, {r[i].lease : i \in 1 .. 3} \subseteq r[4].leases),
          Do(Revoke(r[1].lease)),
          Step(Leases, r[1].lease \notin r[6].leases),
          BestEffort(Revoke(r[2].lease)), BestEffort(Revoke(r[3].lease)) >>

RunLeaseTooLarge(K, r) == << Fails(Grant(MaxLeaseTTL + 1), "ErrLeaseTTLTooLarge") >>

-----------------------------------------------------------------------------
RunPutWithIgnoreLease(K, r) ==
    << Do(Grant(10)),
       Fails(With(Put(K, 1), "ignoreLease"), "ErrKeyNotFound"),
       Do(Leased(K, 2, r[1].lease)),
       Do(With(Put(K, 3), "ignoreLease")),
       Step(Get(K), One(r[5], 3) /\ First(r[5]).ver = 2 /\ First(r[5]).lease = r[1].lease) >>

RunPutWithLeaseAndRevoke(K, r) ==
    << Do(Grant(60)), Do(Leased(K, 1, r[1].lease)),
       Step(Get(K), One(r[3], 1) /\ First(r[3]).key = K),
       Do(Revoke(r[1].lease)),
       Step(TimeToLive(r[1].lease), r[5].ttl = -1),
       Step(Get(K), None(r[6])) >>

\* The leases are replaced and removed by later puts of the key.
RunPutWithLeaseAttach(K, r) ==
    << Do(Put(K, 1)), Unguarded(Get(K), First(r[2]).lease = 0),
       Do(Grant(60)), Step(Leased(K, 2, r[3].lease), r[4].rev > r[1].rev),
       Unguarded(Get(K), First(r[5]).lease = r[3].lease /\ First(r[5]).val = 2),
       Do(Grant(120)), Do(Leased(K, 3, r[6].lease)),
       Unguarded(Get(K), First(r[8]).lease = r[6].lease),
       Do(Put(K, 4)), Unguarded(Get(K), First(r[10]).lease = 0),
       BestEffort(Revoke(r[3].lease)), BestEffort(Revoke(r[6].lease)) >>

RunPutWithLeaseNotFound(K, r) == << Fails(Leased(K, 1, 500), "ErrLeaseNotFound") >>

-----------------------------------------------------------------------------
\* Polls until the time to live lies below the granted one; it fails on a lease that is gone.
waitForLeaseTTL(l) == Do(AwaitTTL(l))

\* Polls for at most n seconds until none of the keys is left; from is the call before.
waitForKeysToExpire(ks, n, r, from) ==
    << Do(Sleep(n)) >> \o [i \in DOMAIN ks |-> Step(Get(ks[i]), None(r[from + 1 + i]))]

\* Four seconds, kept alive from the fourth call on.
RunPutWithLeaseKeepalive(K, r) ==
    << Do(Grant(4)), Do(Leased(K, 1, r[1].lease)),
       Step(Get(K), r[3].kvs = <<Attach(K, 1, r[2].rev, r[1].lease)>>),
       Do(KeepAlive(r[1].lease)),
       Step(RecvAlive(r[1].lease), r[5].ttl # -1),
       Step(TimeToLive(r[1].lease), r[6].ttl # -1),
       Step(RecvAlive(r[1].lease), r[7].lease = r[1].lease /\ r[7].rev >= r[2].rev),
       Step(TimeToLive(r[1].lease), r[8].ttl # -1 /\ r[8].rev >= r[2].rev),
       Step(Get(K), One(r[9], 1) /\ First(r[9]).key = K) >>

\* The channel holds four responses; the renewals go on when it is full.
RunPutWithLeaseKeepaliveFullResponseQueue(K, r) ==
    << Do(Grant(1)), Do(KeepAlive(r[1].lease)),
       Do(AwaitBuffered(r[1].lease, 3)),
       Step(TimeToLive(r[1].lease), r[4].ttl # -1),
       Step(TimeToLive(r[1].lease), r[5].ttl # -1) >>

\* Renewed once, and then left to expire.
RunPutWithLeaseKeepaliveOnce(K, r) ==
    << Fails(KeepAliveOnce(0), "ErrLeaseNotFound"),
       Do(Grant(3)), Do(Leased(K, 1, r[2].lease)),
       waitForLeaseTTL(r[2].lease),
       Step(KeepAliveOnce(r[2].lease), r[5].ttl # -1),
       waitForLeaseTTL(r[2].lease),
       Step(TimeToLive(r[2].lease), r[7].ttl # -1),
       Step(Get(K), One(r[8], 1) /\ First(r[8]).key = K) >>
    \o waitForKeysToExpire(<<K>>, 6, r, 8)

RunPutWithLeaseKeepaliveOneSecond(K, r) ==
    << Do(Grant(1)), Do(KeepAlive(r[1].lease)) >> \o [i \in 1 .. 3 |-> Do(RecvAlive(r[1].lease))]

\* No lease, a lease with one key, and one with two keys for ten.  Unlike in RunLeaseList, the
\* member that lists the leases must know them at once.  A failing put ends the scenario with a
\* bare return.
RunPutWithLeaseTimeToLive(K, r) ==
    LET Check(i, v, l) == One(r[i], v) /\ First(r[i]).lease = l
        TTL(i, keys) == r[i].ttl <= 15 /\ r[i].keys = keys
    IN
    << Unreported(Do(Put(K + 1, 1))), Step(Get(K + 1), Check(2, 1, 0)),
       Do(Grant(15)),
       Unreported(Do(Leased(K + 1, 1, r[3].lease))), Step(Get(K + 1), Check(5, 1, r[3].lease)),
       Step(Leases, r[3].lease \in r[6].leases),
       Step(TimeToLive(r[3].lease), TTL(7, {K + 1})) >>
    \o waitForKeysToExpire(<<K + 1>>, 50, r, 7)
    \o << Do(Grant(15)),
          Unreported(Do(Leased(K + 2, 1, r[10].lease))), Step(Get(K + 2), Check(12, 1, r[10].lease)),
          Unreported(Do(Leased(K + 3, 1, r[10].lease))), Step(Get(K + 3), Check(14, 1, r[10].lease)),
          Step(Leases, r[10].lease \in r[15].leases),
          Step(TimeToLive(r[10].lease), TTL(16, {K + 2, K + 3})) >>
    \o waitForKeysToExpire(<<K + 2, K + 3>>, 50, r, 16)

-----------------------------------------------------------------------------
\* mirror.Syncer reads the current revision with any key, pages through the prefix at that
\* revision, and later watches from the next one.  Two keys per page for a thousand.
RunMirrorSyncBase(K, r) ==
    LET keys == [i \in 1 .. 4 |-> K + i]
        Page(from) == WithRev(WithLimit(WithRange(Get(from), K + Width), 2), r[5].rev)
    IN
    [i \in 1 .. 4 |-> Do(Put(K + i, 1))]
    \o << Do(Get(1)), Step(Page(K), r[6].more \/ KeysOf(r[6]) = keys) >>
    \o IF r[6].more THEN << Step(Page(LastKey(r[6]) + 1), KeysOf(r[6]) \o KeysOf(r[7]) = keys) >>
       ELSE <<>>

RunMirrorSyncUpdates(K, r) ==
    << Do(Put(K, 1)), Do(Get(1)),
       Step(WithRev(WithPrefix(Get(K)), r[2].rev), r[3].kvs = <<Fresh(K, 1, r[1].rev)>>),
       Do(WithRev(WithPrefix(Watch(K)), r[2].rev + 1)),
       Do(Put(K, 2)),
       UnguardedEvent(Recv(1),
           Event(r[6], 1).kv = [Fresh(K, 2, r[1].rev) EXCEPT !.mod = r[5].rev, !.ver = 2]) >>

\* Three members, each first polled until it has applied the last put; then their hashes of
\* that revision are compared.
RunMaintenanceHashKv(K, r) ==
    Puts(K, Many, 1)
    \o [i \in 1 .. 3 |-> Step(HashKV(r[Many].rev), r[Many + i].hash = r[Many + 1].hash)]

-----------------------------------------------------------------------------
\* The scenarios of this module, and the function behind each name.
LeaseScenarios ==
    {"LeaseExpirationAutoDelete", "LeaseGrantTTLBounds", "LeaseKeepaliveRevoke", "LeaseList",
     "LeaseTooLarge", "PutWithIgnoreLease", "PutWithLeaseAndRevoke", "PutWithLeaseAttach",
     "PutWithLeaseNotFound", "PutWithLeaseKeepalive", "PutWithLeaseKeepaliveFullResponseQueue",
     "PutWithLeaseKeepaliveOnce", "PutWithLeaseKeepaliveOneSecond", "PutWithLeaseTimeToLive",
     "MirrorSyncBase", "MirrorSyncUpdates", "MaintenanceHashKv"}

LeaseRunner(n, K, r) ==
    CASE n = "LeaseExpirationAutoDelete" -> RunLeaseExpirationAutoDelete(K, r)
      [] n = "LeaseGrantTTLBounds" -> RunLeaseGrantTTLBounds(K, r)
      [] n = "LeaseKeepaliveRevoke" -> RunLeaseKeepaliveRevoke(K, r)
      [] n = "LeaseList" -> RunLeaseList(K, r)
      [] n = "LeaseTooLarge" -> RunLeaseTooLarge(K, r)
      [] n = "PutWithIgnoreLease" -> RunPutWithIgnoreLease(K, r)
      [] n = "PutWithLeaseAndRevoke" -> RunPutWithLeaseAndRevoke(K, r)
      [] n = "PutWithLeaseAttach" -> RunPutWithLeaseAttach(K, r)
      [] n = "PutWithLeaseNotFound" -> RunPutWithLeaseNotFound(K, r)
      [] n = "PutWithLeaseKeepalive" -> RunPutWithLeaseKeepalive(K, r)
      [] n = "PutWithLeaseKeepaliveFullResponseQueue" -> RunPutWithLeaseKeepaliveFullResponseQueue(K, r)
      [] n = "PutWithLeaseKeepaliveOnce" -> RunPutWithLeaseKeepaliveOnce(K, r)
      [] n = "PutWithLeaseKeepaliveOneSecond" -> RunPutWithLeaseKeepaliveOneSecond(K, r)
      [] n = "PutWithLeaseTimeToLive" -> RunPutWithLeaseTimeToLive(K, r)
      [] n = "MirrorSyncBase" -> RunMirrorSyncBase(K, r)
      [] n = "MirrorSyncUpdates" -> RunMirrorSyncUpdates(K, r)
      [] n = "MaintenanceHashKv" -> RunMaintenanceHashKv(K, r)
=============================================================================
