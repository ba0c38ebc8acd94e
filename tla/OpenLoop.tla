------------------------------ MODULE OpenLoop ------------------------------
(***************************************************************************)
(* What an open-loop stress scenario promises, without its goroutines:     *)
(* arrivals are offered on schedule whether or not earlier ones finished,  *)
(* every one of them ends exactly once, as a success, a failure or a       *)
(* missed arrival, and the verdict is given when none is outstanding.  It  *)
(* is positive only if every arrival was served.                           *)
(***************************************************************************)
EXTENDS Naturals

CONSTANT Classes   \* what is counted separately

VARIABLES offered, good, bad, missed, verdict

openVars == <<offered, good, bad, missed, verdict>>

Ended(c) == good[c] + bad[c] + missed[c]

Init ==
    /\ offered = [c \in Classes |-> 0] /\ good = [c \in Classes |-> 0]
    /\ bad = [c \in Classes |-> 0] /\ missed = [c \in Classes |-> 0]
    /\ verdict = "none"

Offer(c) ==
    /\ verdict = "none"
    /\ offered' = [offered EXCEPT ![c] = @ + 1]
    /\ UNCHANGED <<good, bad, missed, verdict>>

\* An arrival that finds every in-flight slot taken is offered and missed.
OfferMissed(c) ==
    /\ verdict = "none"
    /\ offered' = [offered EXCEPT ![c] = @ + 1]
    /\ missed' = [missed EXCEPT ![c] = @ + 1]
    /\ UNCHANGED <<good, bad, verdict>>

Succeed(c) ==
    /\ verdict = "none" /\ Ended(c) < offered[c]
    /\ good' = [good EXCEPT ![c] = @ + 1]
    /\ UNCHANGED <<offered, bad, missed, verdict>>

Fail(c) ==
    /\ verdict = "none" /\ Ended(c) < offered[c]
    /\ bad' = [bad EXCEPT ![c] = @ + 1]
    /\ UNCHANGED <<offered, good, missed, verdict>>

Judge(v) ==
    /\ verdict = "none" /\ \A c \in Classes : Ended(c) = offered[c]
    /\ v = "pass" => good = offered /\ \E c \in Classes : offered[c] > 0
    /\ verdict' = v
    /\ UNCHANGED <<offered, good, bad, missed>>

Next ==
    \/ \E c \in Classes : Offer(c) \/ OfferMissed(c) \/ Succeed(c) \/ Fail(c)
    \/ \E v \in {"pass", "fail"} : Judge(v)

Spec == Init /\ [][Next]_openVars
=============================================================================
