--------------------------- MODULE ScenarioSteps ---------------------------
(***************************************************************************)
(* How the conformance scenarios are written down.  A scenario is the      *)
(* sequence of the client calls its function makes, each with what the     *)
(* function requires of the answer before it goes on; K is the first       *)
(* random key of the run (runner.GenerateRandomKey), K + 10 and K + 20 the *)
(* next ones, K + i a key under the prefix K, and r[i] the response to the *)
(* i-th call (NoResp while there is none).  Loops over 5 to 500 keys are   *)
(* shortened to Many, payloads to small numbers.                           *)
(***************************************************************************)
EXTENDS EtcdKV

Many == 3

\* A call whose error, or whose failing check, ends the scenario as failed.
Step(c, ok) == [call |-> c, errs |-> {"none"}, ok |-> ok, index |-> FALSE, silent |-> FALSE]
Do(c) == Step(c, TRUE)
Fails(c, e) == [Step(c, TRUE) EXCEPT !.errs = {e}]
Tolerates(c, e) == [Step(c, TRUE) EXCEPT !.errs = {"none", e}]
\* A check that indexes Kvs[0] without looking at its length: it panics on no result.
Unguarded(c, ok) == [Step(c, ok) EXCEPT !.index = TRUE]

\* A check that indexes Events[0] of whatever arrives: a response that reports the end of the
\* watch has none.
UnguardedEvent(c, ok) == [Step(c, ok) EXCEPT !.index = TRUE, !.errs = {"none", "ErrCompacted"}]
\* Nothing may arrive before the timer of the select statement fires.
Silence(w) == Fails(Recv(w), "timeout")
\* The function returns at the error, or at the failing check, without Success = false: the
\* attempt is recorded as passed.
Unreported(st) == [st EXCEPT !.silent = TRUE]
\* The error of a call is ignored.
BestEffort(c) == [Step(c, TRUE) EXCEPT !.errs = {"none", "ErrLeaseNotFound"}]

First(resp) == IF resp.kvs = <<>> THEN NoKv ELSE resp.kvs[1]
Prev(resp) == IF resp.prev = <<>> THEN NoKv ELSE resp.prev[1]
LastKey(resp) == IF resp.kvs = <<>> THEN 0 ELSE Last(resp.kvs).key
KeysOf(resp) == [i \in DOMAIN resp.kvs |-> resp.kvs[i].key]
One(resp, v) == Len(resp.kvs) = 1 /\ resp.kvs[1].val = v
None(resp) == resp.kvs = <<>>
Event(resp, i) == IF i \in DOMAIN resp.events THEN resp.events[i]
                  ELSE [type |-> "none", kv |-> NoKv, prev |-> <<>>]
\* Exactly one event, a put of kv.
OneEvent(resp, kv) == Len(resp.events) = 1 /\ resp.events[1].type = "PUT" /\ resp.events[1].kv = kv
EventsOf(rs) == FoldLeft(LAMBDA acc, resp : acc \o resp.events, <<>>, rs)
HasEvent(resp, type, k) == \E ev \in ToSet(resp.events) : ev.type = type /\ ev.kv.key = k
Fresh(k, v, n) == [key |-> k, val |-> v, create |-> n, mod |-> n, ver |-> 1, lease |-> 0]
Ascending(ks) == \A i \in DOMAIN ks : i > 1 => ks[i - 1] < ks[i]

\* One put per key K + i with value v, and the records those puts must have left.
Puts(K, n, v) == [i \in 1 .. n |-> Do(Put(K + i, v))]
FreshKvs(K, n, v, r, from) == [i \in 1 .. n |-> Fresh(K + i, v, r[from + i].rev)]

-----------------------------------------------------------------------------
(* Loops that receive until they have what they want. *)

MaxReceives == 8   \* more than a loop can need: no scenario awaits more than five events

Received(r, from, n) == [i \in 1 .. n |-> r[from + i]]

\* How many receives the loop that starts after call number from makes: up to the first that
\* completes it, or the one it is waiting for.
Receives(r, from, Complete(_)) ==
    Min({MaxReceives} \cup
        {n \in 1 .. MaxReceives : r[from + n] = NoResp \/ Complete(Received(r, from, n))})

\* Those receives from watch w, each response checked by Ok.
ReceiveLoop(r, from, n, w, Ok(_)) == [i \in 1 .. n |-> Step(Recv(w), Ok(r[from + i]))]

=============================================================================
