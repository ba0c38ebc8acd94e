------------------------------- MODULE EtcdKV -------------------------------
(***************************************************************************)
(* The etcd v3 key-value API as the conformance scenarios of               *)
(* src/internal/etcd/conformance/scenarios use it.  etcd is not part of    *)
(* the repository: everything here is external and is modelled from the    *)
(* calls the scenarios make and the answers they require.                  *)
(*                                                                         *)
(* A store is a record                                                     *)
(*   rev       the current revision                                        *)
(*   compacted the revision of the last compaction, 0 when there was none  *)
(*   hist      hist[n] maps the keys that exist at revision n to their     *)
(*             key-value records                                           *)
(*   leases    the leases granted so far, in order; wasLive the identifiers *)
(*             of those alive before the latest grant, revocation or expiry *)
(*   watchers  the watch channels opened so far                            *)
(*   breach    "none", or the one clause of the contract this server does  *)
(*             not keep                                                    *)
(* Keys and values are natural numbers in the byte order of the strings    *)
(* they stand for; key 0 and value 0 are the empty string.  Times to live  *)
(* are in seconds.                                                         *)
(***************************************************************************)
EXTENDS Integers, Sequences, FiniteSets, SequencesExt

CONSTANTS
    MaxTxnOps,  \* embed.DefaultMaxTxnOps, 128 in the program
    MaxLag,     \* revisions by which a member answering a serializable read may trail
    MaxDelay    \* seconds that may pass between two calls of a client

ASSUME KVAssumption == MaxTxnOps \in 1 .. 128 /\ MaxLag \in Nat /\ MaxDelay \in Nat

Endless == 1000   \* the end of a WithFromKey range: beyond every key
Huge == 1000      \* a value larger than the server's request limit
Big == 900        \* a value of which RecvLimit fit into one response
RecvLimit == 2    \* WithMaxCallRecvMsgSize(2 MB), in Big values
MaxLeaseTTL == 100000
Width == 10       \* the keys under one prefix: testKey .. testKey + Width - 1

NoKv == [key |-> 0, val |-> 0, create |-> 0, mod |-> 0, ver |-> 0, lease |-> 0]

\* The contract clauses a non-conforming server may break, one at a time.
AllBreaches ==
    {"staleRead", "revIgnored", "compactIgnored", "futureServed", "endInclusive",
     "limitIgnored", "countTruncated", "sortIgnored", "filterIgnored", "valuesKept",
     "versionStuck", "createReset", "prevDropped", "deleteLost", "headerLags",
     "wrongBranch", "splitTxn", "eventsLost", "eventsMerged", "eventFilterIgnored",
     "leasesLeak"}

NewStore(m, b) ==
    [rev |-> 1, compacted |-> 0, hist |-> <<m>>, leases |-> <<>>, wasLive |-> {},
     watchers |-> <<>>, breach |-> b]

Latest(s) == s.hist[s.rev]

\* The elements of S in the strict order Before, by rank (SetToSortSeq enumerates every
\* sequence over S, too many for the eight keys a read may return here).
Sorted(S, Before(_, _)) ==
    [i \in 1 .. Cardinality(S) |->
        CHOOSE x \in S : Cardinality({y \in S : Before(y, x)}) = i - 1]

-----------------------------------------------------------------------------
(* Requests, and the client options that modify them. *)

Put(k, v) == [op |-> "put", key |-> k, val |-> v, lease |-> 0, opts |-> {}]
Get(k) == [op |-> "get", lo |-> k, hi |-> k + 1, rev |-> 0, limit |-> 0,
           sort |-> "key", order |-> "none", opts |-> {},
           minMod |-> 0, maxMod |-> Endless, minCreate |-> 0, maxCreate |-> Endless]
Delete(k) == [op |-> "delete", lo |-> k, hi |-> k + 1, opts |-> {}]
Compact(n) == [op |-> "compact", rev |-> n]
Txn(If, Then, Else) == [op |-> "txn", if |-> If, then |-> Then, else |-> Else]
Grant(ttl) == [op |-> "grant", ttl |-> ttl]
Revoke(l) == [op |-> "revoke", lease |-> l]
TimeToLive(l) == [op |-> "timeToLive", lease |-> l]
Leases == [op |-> "leases"]
KeepAliveOnce(l) == [op |-> "keepAliveOnce", lease |-> l]
KeepAlive(l) == [op |-> "keepAlive", lease |-> l]
RecvAlive(l) == [op |-> "recvAlive", lease |-> l]   \* receive from lease l's keep-alive channel
\* Let n seconds pass, or poll for as long; poll until the lease's time to live has dropped;
\* poll until n keep-alive responses are buffered.
Sleep(n) == [op |-> "sleep", ttl |-> n]
AwaitTTL(l) == [op |-> "awaitTTL", lease |-> l]
AwaitBuffered(l, n) == [op |-> "awaitBuffered", lease |-> l, count |-> n]
Watch(k) == [op |-> "watch", lo |-> k, hi |-> k + 1, rev |-> 0, opts |-> {}]
Recv(w) == [op |-> "recv", watcher |-> w]   \* receive from the w-th watch channel
Cancel(w) == [op |-> "cancel", watcher |-> w]   \* cancel the context of the w-th watch
CloseWatcher == [op |-> "closeWatcher"]
RequestProgress == [op |-> "progress"]
HashKV(n) == [op |-> "hashKV", rev |-> n]

With(c, o) == [c EXCEPT !.opts = @ \cup {o}]
WithLease(c, l) == [c EXCEPT !.lease = l]
WithRange(c, end) == [c EXCEPT !.hi = end]
WithPrefix(c) == [c EXCEPT !.hi = c.lo + Width]
WithFromKey(c) == [c EXCEPT !.hi = Endless]
WithRev(c, n) == [c EXCEPT !.rev = n]
WithLimit(c, n) == [c EXCEPT !.limit = n]
WithSort(c, by, o) == [c EXCEPT !.sort = by, !.order = o]

\* clientv3.Compare: target is a field of a key-value record.
Compare(target, k, rel, v) == [target |-> target, lo |-> k, hi |-> k + 1, rel |-> rel, val |-> v]

-----------------------------------------------------------------------------
(* Responses.  "err" is the error the client sees, "none" for nil. *)

NoResp == [kind |-> "none", err |-> "none", rev |-> 0, kvs |-> <<>>, count |-> 0,
           more |-> FALSE, deleted |-> 0, prev |-> <<>>, ok |-> FALSE, resps |-> <<>>,
           lease |-> 0, events |-> <<>>, ttl |-> 0, granted |-> 0, leases |-> {}, keys |-> {},
           compactRev |-> 0, hash |-> <<>>]

Failure(e) == [NoResp EXCEPT !.err = e]

\* The one outcome of a call: a store and a response.
Answer(s, resp) == {[s |-> s, resp |-> resp]}

Live(s) == {l \in DOMAIN s.leases : s.leases[l].live}

KeysIn(s, m, c) ==
    {k \in DOMAIN m : c.lo <= k /\ (k < c.hi \/ (s.breach = "endInclusive" /\ k = c.hi))}

\* The error of one read or write on the keys m, checked before it has any effect.
ErrorOf(s, m, c) ==
    CASE c.op = "put" ->
           IF "overSendLimit" \in c.opts THEN "ResourceExhausted"   \* refused by the client
           ELSE IF c.key = 0 THEN "ErrEmptyKey"
           ELSE IF c.val = Huge THEN "ErrRequestTooLarge"
           ELSE IF c.opts \cap {"ignoreValue", "ignoreLease"} # {} /\ c.key \notin DOMAIN m
                THEN "ErrKeyNotFound"
           ELSE IF c.lease # 0 /\ c.lease \notin Live(s) THEN "ErrLeaseNotFound"
           ELSE "none"
      [] c.op = "get" ->
           IF c.lo = 0 /\ c.hi = 1 THEN "ErrEmptyKey"
           ELSE IF c.rev > s.rev /\ s.breach # "futureServed" THEN "ErrFutureRev"
           ELSE IF c.rev # 0 /\ c.rev < s.compacted /\ s.breach # "compactIgnored"
                THEN "ErrCompacted"
           ELSE "none"
      [] c.op = "delete" -> IF c.lo = 0 THEN "ErrEmptyKey" ELSE "none"
      [] OTHER -> "none"

\* The keys a read sees: those of the revision it asks for, or the current ones.
Snapshot(s, m, c) ==
    IF c.rev = 0 THEN IF s.breach = "staleRead" /\ s.rev > 1 THEN s.hist[s.rev - 1] ELSE m
    ELSE IF s.breach = "revIgnored" \/ c.rev > s.rev THEN m
    ELSE s.hist[c.rev]

GetResult(s, m, c) ==
    LET at == Snapshot(s, m, c)
        found == {at[k] : k \in KeysIn(s, at, c)}
        kept == {kv \in found : \/ s.breach = "filterIgnored"
                                \/ /\ c.minMod <= kv.mod /\ kv.mod <= c.maxMod
                                   /\ c.minCreate <= kv.create /\ kv.create <= c.maxCreate}
        Before(a, b) == IF c.order = "descend" /\ s.breach # "sortIgnored"
                        THEN a[c.sort] > b[c.sort] ELSE a[c.sort] < b[c.sort]
        all == Sorted(kept, Before)
        page == IF c.limit = 0 \/ c.limit >= Len(all) \/ s.breach = "limitIgnored"
                THEN all ELSE SubSeq(all, 1, c.limit)
        shown == IF "countOnly" \in c.opts THEN <<>>
                 ELSE IF "keysOnly" \in c.opts /\ s.breach # "valuesKept"
                 THEN [i \in DOMAIN page |-> [page[i] EXCEPT !.val = 0]] ELSE page
    IN  [NoResp EXCEPT !.kind = "get", !.rev = s.rev, !.kvs = shown,
            !.count = IF s.breach = "countTruncated" THEN Len(page) ELSE Cardinality(found),
            !.more = "countOnly" \notin c.opts /\ Len(page) < Len(all)]

\* A put or a delete on the keys m, at the revision after the current one: the keys it
\* leaves and its response.
PutResult(s, m, c) ==
    LET old == IF c.key \in DOMAIN m THEN m[c.key] ELSE NoKv
        new == [key |-> c.key, mod |-> s.rev + 1,
                val |-> IF "ignoreValue" \in c.opts THEN old.val ELSE c.val,
                create |-> IF old.ver = 0 \/ s.breach = "createReset" THEN s.rev + 1 ELSE old.create,
                ver |-> IF s.breach = "versionStuck" THEN 1 ELSE old.ver + 1,
                lease |-> IF "ignoreLease" \in c.opts THEN old.lease ELSE c.lease]
    IN  [map |-> [k \in DOMAIN m \cup {c.key} |-> IF k = c.key THEN new ELSE m[k]],
         dirty |-> TRUE,
         resp |-> [NoResp EXCEPT !.kind = "put",
                     !.prev = IF "prevKV" \in c.opts /\ old.ver > 0 /\ s.breach # "prevDropped"
                              THEN <<old>> ELSE <<>>]]

DeleteResult(s, m, c) ==
    LET gone == KeysIn(s, m, c)
        old == Sorted({m[k] : k \in gone}, LAMBDA a, b : a.key < b.key)
    IN  [map |-> IF s.breach = "deleteLost" THEN m
                 ELSE [k \in DOMAIN m \ gone |-> m[k]],
         dirty |-> gone # {},
         resp |-> [NoResp EXCEPT !.kind = "delete", !.deleted = Len(old),
                     !.prev = IF "prevKV" \in c.opts /\ s.breach # "prevDropped" THEN old ELSE <<>>]]

OpResult(s, m, c) ==
    CASE c.op = "put" -> PutResult(s, m, c)
      [] c.op = "delete" -> DeleteResult(s, m, c)
      [] OTHER -> [map |-> m, dirty |-> FALSE, resp |-> GetResult(s, m, c)]

\* One revision for everything a request wrote, none when it wrote nothing.
Commit(s, m, dirty) ==
    IF dirty THEN [s EXCEPT !.rev = @ + 1, !.hist = Append(@, m)] ELSE s

Header(s, dirty) == IF dirty /\ s.breach = "headerLags" THEN s.rev - 1 ELSE s.rev

-----------------------------------------------------------------------------
(* Transactions, with one level of nesting. *)

Holds(s, m, cmp) ==
    LET Rel(v) == CASE cmp.rel = "=" -> v = cmp.val
                    [] cmp.rel = "!=" -> v # cmp.val
                    [] cmp.rel = ">" -> v > cmp.val
                    [] OTHER -> v < cmp.val
        kvs == {m[k] : k \in KeysIn([s EXCEPT !.breach = "none"], m, cmp)}
    IN  IF kvs = {} THEN cmp.target # "val" /\ Rel(0)
        ELSE \A kv \in kvs : Rel(kv[cmp.target])

Taken(s, m, c) ==
    LET yes == \A i \in DOMAIN c.if : Holds(s, m, c.if[i])
    IN  IF yes # (s.breach = "wrongBranch") THEN c.then ELSE c.else

\* Apply the operations of a branch in order, each seeing what the earlier ones wrote.
Branch(s, m, ops, Apply(_, _, _)) ==
    LET after[i \in 0 .. Len(ops)] ==
            IF i = 0 THEN [s |-> s, map |-> m, dirty |-> FALSE, resps |-> <<>>]
            ELSE LET acc == after[i - 1]
                     x == Apply(acc.s, acc.map, ops[i])
                     split == acc.s.breach = "splitTxn" /\ x.dirty
                 IN  [s |-> IF split THEN Commit(acc.s, x.map, TRUE) ELSE acc.s,
                      map |-> x.map, dirty |-> (acc.dirty \/ x.dirty) /\ ~split,
                      resps |-> Append(acc.resps, x.resp)]
    IN  after[Len(ops)]

TxnResp(s, m, c, resps) ==
    [NoResp EXCEPT !.kind = "txn", !.resps = resps,
        !.ok = \A i \in DOMAIN c.if : Holds(s, m, c.if[i])]

NestedResult(s, m, c) ==
    IF c.op # "txn" THEN OpResult(s, m, c)
    ELSE LET b == Branch(s, m, Taken(s, m, c), OpResult)
         IN  [map |-> b.map, dirty |-> b.map # m, resp |-> TxnResp(s, m, c, b.resps)]

TxnError(s, c) ==
    LET Twice(ops) == \E i, j \in DOMAIN ops : /\ i # j /\ ops[i].op = "put" /\ ops[j].op = "put"
                                               /\ ops[i].key = ops[j].key
        branch == Taken(s, Latest(s), c)
        bad == {i \in DOMAIN branch : ErrorOf(s, Latest(s), branch[i]) # "none"}
    IN  IF Len(c.then) > MaxTxnOps \/ Len(c.else) > MaxTxnOps THEN "ErrTooManyOps"
        ELSE IF Twice(c.then) \/ Twice(c.else) THEN "ErrDuplicateKey"
        ELSE IF bad # {} THEN ErrorOf(s, Latest(s), branch[CHOOSE i \in bad : \A j \in bad : i <= j])
        ELSE "none"

-----------------------------------------------------------------------------
(* Leases.  A lease ends by revocation or, unless it is kept alive, by expiry; either *)
(* deletes the keys attached to it, at one revision.                                  *)

\* buffered: keep-alive responses in the client's channel that nobody has received.
NewLease(ttl) == [ttl |-> ttl, live |-> TRUE, kept |-> FALSE, buffered |-> 0]

Attached(s, l) == {k \in DOMAIN Latest(s) : Latest(s)[k].lease = l}

EndLease(s, l) ==
    LET gone == IF s.breach = "leasesLeak" THEN {} ELSE Attached(s, l)
        m == Latest(s)
    IN  Commit([s EXCEPT !.wasLive = Live(s), !.leases[l].live = FALSE],
               [k \in DOMAIN m \ gone |-> m[k]], gone # {})

\* The leases that end when n seconds pass, and their end, the oldest first.
Expiring(s, n) == {l \in Live(s) : ~s.leases[l].kept /\ s.leases[l].ttl <= n}
Elapse(s, n) ==
    LET after[l \in 0 .. Len(s.leases)] ==
            IF l = 0 THEN s
            ELSE IF l \in Expiring(s, n) THEN EndLease(after[l - 1], l) ELSE after[l - 1]
    IN  after[Len(s.leases)]

-----------------------------------------------------------------------------
(* Watch channels.  A watcher that starts in the past, or resumes after a lost         *)
(* connection, is caught up with everything there is in one response; one that is      *)
(* synced gets a response per revision and never meets a compaction.                   *)

\* head: the latest revision the member that serves the watch is known to have; born: the last compaction then;
\* progress: progress notifications that were requested and not delivered yet.
Open(s, c) ==
    [lo |-> c.lo, hi |-> c.hi, opts |-> c.opts, born |-> s.compacted, head |-> s.rev,
     next |-> IF c.rev = 0 THEN s.rev + 1 ELSE c.rev,
     synced |-> c.rev = 0 \/ c.rev > s.rev,
     created |-> "createdNotify" \in c.opts, progress |-> 0,
     canceled |-> FALSE, closed |-> "canceledContext" \in c.opts]

\* The connection is lost and the client resumes every watch where it stood.
Resumed(s) ==
    [s EXCEPT !.watchers =
        [i \in DOMAIN s.watchers |->
            [s.watchers[i] EXCEPT !.synced = FALSE, !.born = s.compacted, !.head = s.rev,
                                  !.progress = 0]]]

\* The member that serves the synced watches has shown that it knows revision n.
Shown(s, n) ==
    [s EXCEPT !.watchers =
        [i \in DOMAIN s.watchers |->
            LET w == s.watchers[i] IN
            IF w.synced /\ w.head < n THEN [w EXCEPT !.head = n] ELSE w]]

\* The events of revision n that watcher w receives, in key order.
EventsAt(s, w, n) ==
    LET new == s.hist[n]
        old == IF n = 1 THEN [k \in {} |-> NoKv] ELSE s.hist[n - 1]
        Wants(o) == o \notin w.opts \/ s.breach = "eventFilterIgnored"
        put == {k \in KeysIn(s, new, w) : new[k].mod = n /\ Wants("filterPut")}
        del == {k \in KeysIn(s, old, w) \ DOMAIN new : Wants("filterDelete")}
        keys == Sorted(put \cup del, <)
        Prev(k) == IF "prevKV" \in w.opts /\ k \in DOMAIN old /\ s.breach # "prevDropped"
                   THEN <<old[k]>> ELSE <<>>
    IN  [i \in DOMAIN keys |->
            LET k == keys[i] IN
            IF k \in put THEN [type |-> "PUT", kv |-> new[k], prev |-> Prev(k)]
            ELSE [type |-> "DELETE", kv |-> [NoKv EXCEPT !.key = k, !.mod = n], prev |-> Prev(k)]]

Pending(s, w) ==
    LET revs == {n \in w.next .. s.rev : EventsAt(s, w, n) # <<>>}
    IN  CASE s.breach = "eventsLost" -> {}
          [] s.breach = "eventsMerged" -> {n \in revs : \A q \in revs : q <= n}
          [] OTHER -> revs

\* How many of the pending revisions revs one response may carry.
BatchSizes(w, revs) ==
    LET behind == Cardinality({i \in DOMAIN revs : revs[i] <= w.head})
    IN  IF w.synced THEN {1} \cap DOMAIN revs
        ELSE {n \in DOMAIN revs : n >= behind}

TooBig(w, events) ==
    /\ "recvLimit" \in w.opts /\ "fragment" \notin w.opts
    /\ Cardinality({i \in DOMAIN events : events[i].kv.val = Big}) > RecvLimit

\* The pending revisions of watcher w, and the events of the first n of them.
Revs(s, w) == Sorted(Pending(s, w), <)
Batch(s, w, n) == FoldLeft(LAMBDA acc, q : acc \o EventsAt(s, w, q), <<>>, SubSeq(Revs(s, w), 1, n))

\* The watcher has yet to be caught up with revisions that are compacted.
Lost(s, w) == w.next < s.compacted /\ ~w.synced /\ s.breach # "compactIgnored"

Closed(s, i) == [s EXCEPT !.watchers[i].closed = TRUE]

\* The i-th watcher receives n revisions in one response, or a response too big for the client.
Delivered(s, i, n) ==
    LET w == s.watchers[i] IN
    IF TooBig(w, Batch(s, w, n))
    THEN [s |-> Closed(s, i), resp |-> Failure("ResourceExhausted")]
    ELSE [s |-> Shown([s EXCEPT !.watchers[i].next = Revs(s, w)[n] + 1,
                                !.watchers[i].synced = TRUE], s.rev),
          resp |-> [NoResp EXCEPT !.kind = "events", !.rev = s.rev, !.events = Batch(s, w, n)]]

\* A progress notification of a member that knows revision n.
Progressed(s, i, n) ==
    [s |-> Shown([s EXCEPT !.watchers[i].progress = @ - 1], n),
     resp |-> [NoResp EXCEPT !.kind = "progress", !.rev = n]]

\* What a receive from the i-th watch channel may return.
Deliveries(s, i) ==
    LET w == s.watchers[i]
        events == {Delivered(s, i, n) : n \in IF Lost(s, w) /\ w.next < w.born THEN {}
                                              ELSE BatchSizes(w, Revs(s, w))}
        compacted == IF Lost(s, w)
                     THEN Answer(Closed(s, i),
                                 [Failure("ErrCompacted") EXCEPT !.compactRev = s.compacted])
                     ELSE {}
        progress == {Progressed(s, i, n) : n \in {n \in {s.rev, s.rev - 1} :
                                                  (n = s.rev \/ MaxLag > 0) /\ n >= w.head}}
    IN  IF w.closed THEN Answer(s, Failure("closed"))
        ELSE IF w.created
             THEN Answer([s EXCEPT !.watchers[i].created = FALSE],
                         [NoResp EXCEPT !.kind = "created", !.rev = s.rev])
        ELSE IF w.canceled THEN Answer(Closed(s, i), Failure("closed")) \cup events
        ELSE IF w.progress > 0 /\ Revs(s, w) = <<>> THEN progress \cup compacted
        ELSE events \cup compacted

-----------------------------------------------------------------------------
(* What the server may do with a request: the stores and responses it may produce. *)
(* The set is empty when the client has to wait.                                   *)

Written(s, x) ==
    LET t == Commit(s, x.map, x.dirty)
    IN  Answer(t, [x.resp EXCEPT !.rev = Header(t, x.dirty)])

LeaseOps == {"grant", "revoke", "timeToLive", "leases", "keepAliveOnce", "keepAlive",
             "recvAlive", "sleep", "awaitTTL", "awaitBuffered"}

Say(s, kind) == [NoResp EXCEPT !.kind = kind, !.rev = s.rev]
Gone(s, l) == l \notin Live(s)
Ttl(s, l, n) == [Say(s, "ttl") EXCEPT !.ttl = n, !.granted = s.leases[l].ttl, !.keys = Attached(s, l)]
Alive(s, l) == [Say(s, "alive") EXCEPT !.ttl = s.leases[l].ttl, !.lease = l]

\* A time to live of 0 is refused or raised to 1.
GrantOutcomes(s, c) ==
    LET ttl == IF c.ttl = 0 THEN 1 ELSE c.ttl
        granted == Answer([s EXCEPT !.wasLive = Live(s), !.leases = Append(@, NewLease(ttl))],
                          [Say(s, "grant") EXCEPT !.lease = Len(s.leases) + 1, !.ttl = ttl])
    IN  IF c.ttl > MaxLeaseTTL THEN Answer(s, Failure("ErrLeaseTTLTooLarge"))
        ELSE IF c.ttl = 0 THEN granted \cup Answer(s, Failure("ErrLeaseTTL"))
        ELSE granted

RevokeOutcomes(s, l) ==
    LET t == EndLease(s, l) IN
    IF Gone(s, l) THEN Answer(s, Failure("ErrLeaseNotFound"))
    ELSE Answer(t, [NoResp EXCEPT !.kind = "revoke", !.rev = t.rev])

\* Answered by one member, which may not have applied the latest change yet.
LeasesOutcomes(s) ==
    {[s |-> s, resp |-> [Say(s, "leases") EXCEPT !.leases = L]] :
        L \in {Live(s)} \cup IF MaxLag > 0 THEN {s.wasLive} ELSE {}}

\* The channel exists whatever became of the lease; the client renews a live one.
KeepAliveOutcomes(s, l) ==
    Answer(IF Gone(s, l) THEN s ELSE [s EXCEPT !.leases[l].kept = TRUE, !.leases[l].buffered = 1],
           Say(s, "keepAlive"))

\* What a receive from the keep-alive channel of lease l may return: renewals, those that are
\* buffered even when the lease is gone, and then the end of the channel.
RecvAliveOutcomes(s, l) ==
    LET received == Answer([s EXCEPT !.leases[l].buffered = @ - 1], Alive(s, l)) IN
    IF ~Gone(s, l) THEN Answer(s, Alive(s, l))
    ELSE IF s.leases[l].buffered = 0 THEN Answer(s, Failure("closed"))
    ELSE Answer(s, Failure("closed")) \cup received

AwaitBufferedOutcomes(s, l, n) ==
    IF Gone(s, l) \/ ~s.leases[l].kept THEN Answer(s, Failure("timeout"))
    ELSE Answer([s EXCEPT !.leases[l].buffered = n], Say(s, "buffered"))

LeaseOutcomes(s, c) ==
    CASE c.op = "grant" -> GrantOutcomes(s, c)
      [] c.op = "revoke" -> RevokeOutcomes(s, c.lease)
      [] c.op = "timeToLive" ->
           IF Gone(s, c.lease) THEN Answer(s, [Say(s, "ttl") EXCEPT !.ttl = -1])
           ELSE {[s |-> s, resp |-> Ttl(s, c.lease, n)] : n \in {1, s.leases[c.lease].ttl}}
      [] c.op = "leases" -> LeasesOutcomes(s)
      [] c.op = "keepAliveOnce" ->
           Answer(s, IF Gone(s, c.lease) THEN Failure("ErrLeaseNotFound") ELSE Alive(s, c.lease))
      [] c.op = "keepAlive" -> KeepAliveOutcomes(s, c.lease)
      [] c.op = "recvAlive" -> RecvAliveOutcomes(s, c.lease)
      [] c.op = "sleep" -> Answer(Elapse(s, c.ttl), [NoResp EXCEPT !.kind = "done"])
      [] c.op = "awaitTTL" ->
           Answer(s, IF Gone(s, c.lease) THEN Failure("timeout") ELSE Ttl(s, c.lease, 1))
      [] OTHER -> AwaitBufferedOutcomes(s, c.lease, c.count)

\* A serializable read may be answered by a member that trails by MaxLag revisions.
GetOutcomes(s, c) ==
    LET m == Latest(s) IN
    IF "serializable" \in c.opts
    THEN {[s |-> s, resp |-> [GetResult(s, m, WithRev(c, n)) EXCEPT !.rev = n]] :
             n \in {n \in 1 .. s.rev : n >= s.rev - MaxLag /\ n >= s.compacted}}
    ELSE Answer(s, GetResult(s, m, c))

TxnOutcomes(s, c) ==
    LET m == Latest(s)
        b == Branch(s, m, Taken(s, m, c), NestedResult)
        t == Commit(b.s, b.map, b.dirty)
    IN  Answer(t, [TxnResp(s, m, c, b.resps) EXCEPT !.rev = Header(t, b.dirty)])

CompactOutcomes(s, c) ==
    IF c.rev <= s.compacted THEN Answer(s, Failure("ErrCompacted"))
    ELSE IF c.rev > s.rev THEN Answer(s, Failure("ErrFutureRev"))
    ELSE Answer([s EXCEPT !.compacted = c.rev], [NoResp EXCEPT !.kind = "compact", !.rev = s.rev])

\* The requests that open, cancel, close or poke watches: what they make of the watchers.
WatchOps == {"watch", "cancel", "closeWatcher", "progress"}

Watchers(s, c) ==
    CASE c.op = "watch" -> Append(s.watchers, Open(s, c))
      [] c.op = "cancel" -> [s.watchers EXCEPT ![c.watcher].canceled = TRUE]
      [] c.op = "closeWatcher" ->
           [i \in DOMAIN s.watchers |-> [s.watchers[i] EXCEPT !.closed = TRUE]]
      [] c.op = "progress" ->
           [i \in DOMAIN s.watchers |-> [s.watchers[i] EXCEPT !.progress = @ + 1]]

WatchOutcomes(s, c) ==
    Answer([s EXCEPT !.watchers = Watchers(s, c)],
           IF c.op = "watch" THEN Say(s, "watch") ELSE [NoResp EXCEPT !.kind = "done"])

\* The hash of a member covers what its last compaction left.
HashOutcomes(s, c) ==
    Answer(s, IF c.rev < s.compacted THEN Failure("ErrCompacted")
              ELSE [NoResp EXCEPT !.kind = "hash", !.hash = <<c.rev, s.compacted>>])

RequestError(s, c) == IF c.op = "txn" THEN TxnError(s, c) ELSE ErrorOf(s, Latest(s), c)

Outcomes(s, c) ==
    IF RequestError(s, c) # "none" THEN Answer(s, Failure(RequestError(s, c)))
    ELSE CASE c.op \in {"put", "delete"} -> Written(s, OpResult(s, Latest(s), c))
           [] c.op = "get" -> GetOutcomes(s, c)
           [] c.op = "txn" -> TxnOutcomes(s, c)
           [] c.op = "compact" -> CompactOutcomes(s, c)
           [] c.op \in LeaseOps -> LeaseOutcomes(s, c)
           [] c.op \in WatchOps -> WatchOutcomes(s, c)
           [] c.op = "hashKV" -> HashOutcomes(s, c)
           [] OTHER -> Deliveries(s, c.watcher)
=============================================================================
