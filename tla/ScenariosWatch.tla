--------------------------- MODULE ScenariosWatch ---------------------------
(***************************************************************************)
(* The watch scenarios of the conformance suite, one definition per        *)
(* scenario function, in the notation of ScenarioSteps.  The w-th call of  *)
(* Watch opens the w-th channel.                                           *)
(***************************************************************************)
EXTENDS ScenarioSteps

IsCreated(resp) == resp.kind = "created"
IsProgressNotify(resp) == resp.kind = "progress"
Notified(c) == With(c, "createdNotify")
PutEvent(kv) == [type |-> "PUT", kv |-> kv, prev |-> <<>>]
Mods(rs) == LET evs == EventsOf(rs) IN [i \in DOMAIN evs |-> evs[i].kv.mod]

RunWatchAndPut(K, r) ==
    << Do(Watch(K)), Do(Put(K, 1)),
       Step(Recv(1), r[3].rev >= r[2].rev /\ OneEvent(r[3], Fresh(K, 1, r[2].rev))) >>

RunWatchAndPutWithIgnoreValue(K, r) ==
    << Do(Watch(K)), Do(Put(K, 1)),
       Step(Recv(1), r[3].rev >= r[2].rev /\ OneEvent(r[3], Fresh(K, 1, r[2].rev))),
       Do(With(Put(K, 0), "ignoreValue")),
       Step(Recv(1), /\ r[5].rev >= r[4].rev
                     /\ OneEvent(r[5], [Fresh(K, 1, r[2].rev) EXCEPT !.mod = r[4].rev, !.ver = 2])) >>

\* The first watch goes through the namespace K/, the second names the whole key.
RunWatchAndPutWithNamespace(K, r) ==
    << Do(Put(K + 1, 1)),
       Do(WithRev(Watch(K + 1), r[1].rev)),
       Step(Recv(1), OneEvent(r[3], Fresh(K + 1, 1, r[1].rev))),
       Do(WithRev(Watch(K + 1), r[1].rev)),
       Step(Recv(2), OneEvent(r[5], Fresh(K + 1, 1, r[1].rev))),
       Do(CloseWatcher) >>

\* The events of both puts are expected in one response.
RunWatchAndPutWithOldRevision(K, r) ==
    LET bar1 == PutEvent(Fresh(K, 1, r[1].rev))
        bar2 == PutEvent([Fresh(K, 2, r[1].rev) EXCEPT !.mod = r[4].rev, !.ver = 2])
    IN
    << Do(Put(K, 1)),
       Do(WithRev(Watch(K), r[1].rev)),
       Step(Recv(1), r[3].events = <<bar1>>),
       Do(Put(K, 2)),
       Do(WithRev(Watch(K), r[1].rev)),
       Step(Recv(2), r[6].events = <<bar1, bar2>>),
       Do(WithRev(Watch(K), r[1].rev - 1)),
       Step(Recv(3), r[8].events = <<bar1, bar2>>) >>

RunWatchBookmarkDelivery(K, r) ==
    LET HasKey2(resp) == HasEvent(resp, "PUT", K + 2)
        n == Receives(r, 4, LAMBDA rs : HasKey2(Last(rs)))
        m == Receives(r, n + 7, LAMBDA rs : IsProgressNotify(Last(rs)))
    IN
    << Do(Put(K + 1, 1)),
       Do(Notified(WithRev(WithPrefix(Watch(K)), r[1].rev))),
       Step(Recv(1), IsCreated(r[3])),
       Do(Put(K + 2, 2)) >>
    \o ReceiveLoop(r, 4, n, 1, LAMBDA resp : HasKey2(resp) => resp.rev >= r[4].rev)
    \o << Do(Notified(With(WithPrefix(Watch(K)), "progressNotify"))),
          Step(Recv(2), IsCreated(r[n + 6])),
          Do(RequestProgress) >>
    \o ReceiveLoop(r, n + 7, m, 2, LAMBDA resp : IsProgressNotify(resp) => resp.rev >= r[4].rev)

-----------------------------------------------------------------------------
RunWatchCancelClose(K, r) == << Do(Watch(K)), Do(CloseWatcher), Fails(Recv(1), "closed") >>

\* The third watch is opened with the canceled context of the second.
RunWatchCancelImmediate(K, r) ==
    << Do(Watch(K)), Do(CloseWatcher), Fails(Recv(1), "closed"),
       Do(Notified(Watch(K))), Step(Recv(2), IsCreated(r[5])),
       Do(Cancel(2)), Fails(Recv(2), "closed"),
       Do(With(Watch(K), "canceledContext")), Fails(Recv(3), "closed") >>

\* The event may or may not still arrive before the channel is closed.
RunWatchCancelInflight(K, r) ==
    << Do(Watch(K)), Do(Put(K, 1)), Do(Cancel(1)), Tolerates(Recv(1), "closed") >>
    \o IF r[4].err = "closed" THEN <<>> ELSE << Fails(Recv(1), "closed") >>

RunWatchCancelInit(K, r) == << Do(Watch(K)), Do(Cancel(1)), Fails(Recv(1), "closed") >>

\* Three watchers stand for ten; which of the four streams carries one makes no difference.
RunWatchCancelOverlappingContext(K, r) ==
    LET Watcher(w) ==
            << Do(WithRev(Watch(K), r[1].rev)),
               Step(Recv(w), r[3 * w].events = <<PutEvent(Fresh(K, 1, r[1].rev))>>),
               Do(Cancel(w)) >>
    IN  << Do(Put(K, 1)) >> \o Watcher(1) \o Watcher(2) \o Watcher(3)

-----------------------------------------------------------------------------
\* Whatever the watch of the empty key answers is only logged.
RunWatchEmptyKey(K, r) ==
    << Do(Watch(0)),
       [Do(Recv(1)) EXCEPT !.errs = {"none", "closed", "timeout", "ErrCompacted"}],
       Do(WithPrefix(Watch(K))),
       Do(Put(K + 1, 1)),
       Step(Recv(2), OneEvent(r[5], Fresh(K + 1, 1, r[4].rev))) >>

\* The lease of one second lives until the fifth event.
RunWatchEventType(K, r) ==
    LET n == Receives(r, 6, LAMBDA rs : Len(EventsOf(rs)) = 5)
        received == EventsOf(Received(r, 6, n))
        IsCreate(ev) == ev.type = "PUT" /\ ev.kv.create = ev.kv.mod
        IsModify(ev) == ev.type = "PUT" /\ ev.kv.create # ev.kv.mod
    IN
    << Do(WithPrefix(Watch(K))),
       Do(Put(K + 1, 1)), Do(Put(K + 1, 2)), Do(Delete(K + 1)),
       Do(Grant(1)), Do(WithLease(Put(K + 2, 3), r[5].lease)) >>
    \o ReceiveLoop(r, 6, n, 1, LAMBDA resp : Len(received) = 5 =>
          /\ [i \in 1 .. 5 |-> received[i].type] = <<"PUT", "PUT", "DELETE", "PUT", "DELETE">>
          /\ IsCreate(received[1]) /\ IsModify(received[2]) /\ IsCreate(received[4]))

RunWatchInitialEvents(K, r) ==
    LET keys == K + 1 .. K + 3
        PutKeys(rs) == {ev.kv.key : ev \in {e \in ToSet(EventsOf(rs)) : e.type = "PUT"}}
        n == Receives(r, 6, LAMBDA rs : Cardinality(PutKeys(rs)) >= 3)
        seen == PutKeys(Received(r, 6, n))
    IN
    << Do(With(WithPrefix(Get(K)), "countOnly")) >>
    \o Puts(K, 3, 1)
    \o << Do(Notified(WithRev(WithPrefix(Watch(K)), r[1].rev))),
          Step(Recv(1), IsCreated(r[6])) >>
    \o ReceiveLoop(r, 6, n, 1, LAMBDA resp : Cardinality(seen) >= 3 => keys \subseteq seen)
    \o << Do(Put(K + 4, 4)),
          Step(Recv(1), HasEvent(r[n + 8], "PUT", K + 4)) >>

\* The second part of the next scenario mixes in deletions.
MixedOperations(P, r, from) ==
    LET m == Receives(r, from + 7, LAMBDA rs : Len(EventsOf(rs)) >= 5)
        mixed == Mods(Received(r, from + 7, m))
    IN
    << Do(Notified(WithPrefix(Watch(P)))), Step(Recv(2), IsCreated(r[from + 2])),
       Do(Put(P + 1, 1)), Do(Put(P + 2, 1)), Do(Delete(P + 1)), Do(Put(P + 1, 1)),
       Do(Delete(P + 2)) >>
    \o ReceiveLoop(r, from + 7, m, 2, LAMBDA resp : Len(mixed) >= 5 => Ascending(mixed))

\* Four puts stand for ten.
RunWatchOrderingGuarantee(K, r) ==
    LET n == Receives(r, 6, LAMBDA rs : Len(EventsOf(rs)) >= 4)
        first == Mods(Received(r, 6, n))
    IN
    << Do(Notified(WithPrefix(Watch(K)))), Step(Recv(1), IsCreated(r[2])),
       Do(Put(K + 1, 1)), Do(Put(K + 2, 2)), Do(Put(K + 3, 3)), Do(Put(K + 1, 4)) >>
    \o ReceiveLoop(r, 6, n, 1, LAMBDA resp : Len(first) >= 4 =>
          /\ Ascending(first) /\ first = [i \in 1 .. 4 |-> r[2 + i].rev])
    \o MixedOperations(K + 10, r, 6 + n)

\* The second watch of the first context is never read.
RunWatchResumeAfterDisconnect(K, r) ==
    LET P == K + 10
        n == Receives(r, 13, LAMBDA rs : Len(EventsOf(rs)) >= 2)
        missed == EventsOf(Received(r, 13, n))
    IN
    << Do(Put(K, 1)), Do(Put(P + 1, 1)),
       Do(WithRev(Watch(K), r[2].rev + 1)),
       Do(With(WithRev(WithPrefix(Watch(P)), r[1].rev), "progressNotify")),
       [Do(Recv(1)) EXCEPT !.errs = {"none", "timeout", "closed"}],
       Do(Put(K, 2)),
       Step(Recv(1), Len(r[7].events) = 1 /\ Event(r[7], 1).kv.val = 2),
       Do(Cancel(1)), Do(Cancel(2)),
       Do(Put(K, 3)), Do(Put(K, 4)), Do(Put(P + 2, 2)),
       Do(WithRev(Watch(K), r[6].rev + 1)) >>
    \o ReceiveLoop(r, 13, n, 3, LAMBDA resp :
          \A i \in {1, 2} \cap DOMAIN missed : missed[i].kv.val = i + 2)
    \o << Do(Compact(r[11].rev)),
          Do(WithRev(Watch(K), 1)),
          Fails(Recv(4), "ErrCompacted"),
          Do(RequestProgress) >>

-----------------------------------------------------------------------------
RunWatchWithCompactedRevision(K, r) ==
    << Do(Put(K, 1)), Do(Compact(r[1].rev)),
       Do(WithRev(Watch(K), r[1].rev - 1)),
       [Fails(Recv(1), "ErrCompacted") EXCEPT !.ok = r[4].compactRev = r[1].rev],
       Fails(Recv(1), "closed"),
       Fails(Compact(r[1].rev + 100), "ErrFutureRev") >>

RunWatchWithCreatedNotification(K, r) ==
    << Do(Notified(Watch(K))), Step(Recv(1), IsCreated(r[2])) >>

RunWatchWithFilter(K, r) ==
    << Do(With(Watch(K), "filterPut")), Do(With(Watch(K), "filterDelete")),
       Do(Put(K, 1)), Do(Delete(K)),
       Step(Recv(1), Len(r[5].events) = 1 /\ Event(r[5], 1).type = "DELETE"),
       Step(Recv(2), Len(r[6].events) = 1 /\ Event(r[6], 1).type = "PUT"),
       Silence(1), Silence(2) >>

\* More than the receive limit, in three values for six or twelve.  A failing put ends the
\* scenario with a bare return.
LargePuts(K) == [i \in 1 .. 3 |-> Unreported(Do(Put(K + i, Big)))]

RunWatchWithFragmentedLargeResponse(K, r) ==
    LET n == Receives(r, 5, LAMBDA rs : Len(EventsOf(rs)) >= 3)
        got == EventsOf(Received(r, 5, n))
        keys == [i \in DOMAIN got |-> got[i].kv.key]
    IN
    << Do(Get(K)) >> \o LargePuts(K)
    \o << Do(With(With(WithRev(WithPrefix(Watch(K)), r[1].rev), "fragment"), "recvLimit")) >>
    \o ReceiveLoop(r, 5, n, 1, LAMBDA resp : ToSet(keys) \subseteq K + 1 .. K + 3 /\ IsInjective(keys))

\* Two updates per key stand for ten.  The goroutines that receive are read one after the other:
\* what a channel delivers does not depend on who reads another one.  A goroutine that finds
\* something wrong sends an error, on which the function returns without Success = false; one
\* that receives nothing waits for ever, and with it the function, if no other one has an error.
RunWatchWithMultipleWatchers(K, r) ==
    LET Hangs(i) == r[i].err = "timeout"
        Receive(w, i, ok) ==
            Unreported([Tolerates(Recv(w), "timeout") EXCEPT !.ok = Hangs(i) \/ ok])
        KeyWatcher(w) == [i \in 1 .. 2 |->
            Receive(w, 8 + 2 * w + i, Event(r[8 + 2 * w + i], 1).kv.val = 10 * w + i)]
        prefixed == EventsOf(Received(r, 16, 4))
        finished == \A i \in 11 .. 20 : ~Hangs(i)
    IN
    << Do(Watch(K + 1)), Do(Watch(K + 2)), Do(Watch(K + 3)), Do(WithRange(Watch(K + 2), K + 4)) >>
    \o [i \in 1 .. 6 |-> LET w == 1 + ((i - 1) % 3) IN Do(Put(K + w, 10 * w + ((i + 2) \div 3)))]
    \o KeyWatcher(1) \o KeyWatcher(2) \o KeyWatcher(3)
    \o [i \in 1 .. 4 |-> Receive(4, 16 + i, i = 4 =>
            /\ Len(prefixed) = 4
            /\ {prefixed[j].kv.val : j \in 1 .. 4} = {21, 22, 31, 32})]
    \o << [Silence(4) EXCEPT !.silent = ~Hangs(21), !.ok = finished] >>

RunWatchWithPrefix(K, r) ==
    LET Test(i, k) ==
            << Do(Put(k, 1)),
               Step(Recv(1), Len(r[2 * i + 1].events) = 1 /\ Event(r[2 * i + 1], 1).kv.val = 1) >>
    IN
    << Do(WithPrefix(Watch(K))) >>
    \o Test(1, K) \o Test(2, K + 1) \o Test(3, K + 2) \o Test(4, K + 3)

RunWatchWithPrevKv(K, r) ==
    LET v1 == Fresh(K, 1, r[2].rev)
        v2 == [Fresh(K, 2, r[2].rev) EXCEPT !.mod = r[4].rev, !.ver = 2]
        ev(i) == Event(r[i], 1)
        Single(i) == Len(r[i].events) = 1 /\ r[i].rev >= r[i - 1].rev
    IN
    << Do(With(Watch(K), "prevKV")),
       Do(Put(K, 1)),
       Step(Recv(1), Single(3) /\ ev(3) = PutEvent(v1)),
       Do(Put(K, 2)),
       Step(Recv(1), Single(5) /\ ev(5) = [PutEvent(v2) EXCEPT !.prev = <<v1>>]),
       Do(Delete(K)),
       Step(Recv(1), Single(7) /\ ev(7).type = "DELETE" /\ ev(7).kv.key = K /\ ev(7).prev = <<v2>>) >>

RunWatchWithProgressNotify(K, r) ==
    << Do(With(Watch(K), "progressNotify")), Do(Get(K)), Do(RequestProgress),
       Step(Recv(1), IsProgressNotify(r[4]) /\ r[4].rev >= r[2].rev),
       Do(Put(K, 1)),
       Step(Recv(1), /\ r[6].rev >= r[5].rev /\ ~IsProgressNotify(r[6])
                     /\ r[6].events = <<PutEvent(Fresh(K, 1, r[5].rev))>>) >>

\* The last key is the end of the range.
RunWatchWithRange(K, r) ==
    LET Test(i, k) ==
            << Do(Put(k, 1)), UnguardedEvent(Recv(1), Event(r[2 * i + 1], 1).kv.val = 1) >>
    IN
    << Do(WithRange(Watch(K), K + 4)) >>
    \o Test(1, K) \o Test(2, K + 1) \o Test(3, K + 2) \o Test(4, K + 3)
    \o << Do(Put(K + 4, 1)), Silence(1) >>

\* A revision behind that of the put is retried (three times in the program).
maxProgressRetries == 2

ProgressAttempts(r, from, putRev) ==
    Min({maxProgressRetries} \cup
        {n \in 1 .. maxProgressRetries :
            r[from + 2 * n].rev >= putRev \/ r[from + 2 * n] = NoResp})

Progress(r, from, w, putRev) ==
    [i \in 1 .. 2 * ProgressAttempts(r, from, putRev) |->
        IF i % 2 = 1 THEN Do(RequestProgress)
        ELSE Step(Recv(w), /\ IsProgressNotify(r[from + i])
                           /\ r[from + i].rev >= putRev \/ i < 2 * maxProgressRetries)]

\* One watch, and then two watches of the same prefix.
RunWatchWithRequestProgress(K, r) ==
    LET a == 4 + 2 * ProgressAttempts(r, 4, r[4].rev)
        b == a + 6 + 2 * ProgressAttempts(r, a + 6, r[a + 6].rev)
        Updated == << PutEvent([Fresh(K, 1, r[2].rev) EXCEPT !.mod = r[a + 3].rev, !.ver = 2]) >>
    IN
    << Do(WithPrefix(Watch(K))), Do(Put(K, 1)),
       Step(Recv(1), r[3].events = <<PutEvent(Fresh(K, 1, r[2].rev))>>),
       Do(Put(K + 10, 1)) >>
    \o Progress(r, 4, 1, r[4].rev)
    \o << Do(WithPrefix(Watch(K))), Do(WithPrefix(Watch(K))), Do(Put(K, 1)),
          Step(Recv(2), r[a + 4].events = Updated), Step(Recv(3), r[a + 5].events = Updated),
          Do(Put(K + 20, 1)) >>
    \o Progress(r, a + 6, 2, r[a + 6].rev)
    \o Progress(r, b, 3, r[a + 6].rev)

\* Without fragments the client refuses the response, and the watch ends.
RunWatchWithTooLargeResponse(K, r) ==
    << Do(Get(K)) >> \o LargePuts(K)
    \o << Do(With(WithRev(WithPrefix(Watch(K)), r[1].rev), "recvLimit")),
          Fails(Recv(1), "ResourceExhausted"),
          Fails(Recv(1), "closed") >>

-----------------------------------------------------------------------------
\* The scenarios of this module, and the function behind each name.
WatchScenarios ==
    {"WatchAndPut", "WatchAndPutWithIgnoreValue", "WatchAndPutWithNamespace",
     "WatchAndPutWithOldRevision", "WatchBookmarkDelivery", "WatchCancelClose",
     "WatchCancelImmediate", "WatchCancelInflight", "WatchCancelInit",
     "WatchCancelOverlappingContext", "WatchEmptyKey", "WatchEventType", "WatchInitialEvents",
     "WatchOrderingGuarantee", "WatchResumeAfterDisconnect", "WatchWithCompactedRevision",
     "WatchWithCreatedNotification", "WatchWithFilter", "WatchWithFragmentedLargeResponse",
     "WatchWithMultipleWatchers", "WatchWithPrefix", "WatchWithPrevKv", "WatchWithProgressNotify",
     "WatchWithRange", "WatchWithRequestProgress", "WatchWithTooLargeResponse"}

WatchRunner(n, K, r) ==
    CASE n = "WatchAndPut" -> RunWatchAndPut(K, r)
      [] n = "WatchAndPutWithIgnoreValue" -> RunWatchAndPutWithIgnoreValue(K, r)
      [] n = "WatchAndPutWithNamespace" -> RunWatchAndPutWithNamespace(K, r)
      [] n = "WatchAndPutWithOldRevision" -> RunWatchAndPutWithOldRevision(K, r)
      [] n = "WatchBookmarkDelivery" -> RunWatchBookmarkDelivery(K, r)
      [] n = "WatchCancelClose" -> RunWatchCancelClose(K, r)
      [] n = "WatchCancelImmediate" -> RunWatchCancelImmediate(K, r)
      [] n = "WatchCancelInflight" -> RunWatchCancelInflight(K, r)
      [] n = "WatchCancelInit" -> RunWatchCancelInit(K, r)
      [] n = "WatchCancelOverlappingContext" -> RunWatchCancelOverlappingContext(K, r)
      [] n = "WatchEmptyKey" -> RunWatchEmptyKey(K, r)
      [] n = "WatchEventType" -> RunWatchEventType(K, r)
      [] n = "WatchInitialEvents" -> RunWatchInitialEvents(K, r)
      [] n = "WatchOrderingGuarantee" -> RunWatchOrderingGuarantee(K, r)
      [] n = "WatchResumeAfterDisconnect" -> RunWatchResumeAfterDisconnect(K, r)
      [] n = "WatchWithCompactedRevision" -> RunWatchWithCompactedRevision(K, r)
      [] n = "WatchWithCreatedNotification" -> RunWatchWithCreatedNotification(K, r)
      [] n = "WatchWithFilter" -> RunWatchWithFilter(K, r)
      [] n = "WatchWithFragmentedLargeResponse" -> RunWatchWithFragmentedLargeResponse(K, r)
      [] n = "WatchWithMultipleWatchers" -> RunWatchWithMultipleWatchers(K, r)
      [] n = "WatchWithPrefix" -> RunWatchWithPrefix(K, r)
      [] n = "WatchWithPrevKv" -> RunWatchWithPrevKv(K, r)
      [] n = "WatchWithProgressNotify" -> RunWatchWithProgressNotify(K, r)
      [] n = "WatchWithRange" -> RunWatchWithRange(K, r)
      [] n = "WatchWithRequestProgress" -> RunWatchWithRequestProgress(K, r)
      [] n = "WatchWithTooLargeResponse" -> RunWatchWithTooLargeResponse(K, r)
=============================================================================
