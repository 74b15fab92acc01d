--------------------------- MODULE OrderedDelivery ---------------------------
(***************************************************************************)
(* What the RTP reorder stage promises its consumer, stated without the   *)
(* cache, the sequence numbers or the discontinuity rule.  Payloads are   *)
(* numbered in the order the sender emitted them.  A payload reaches the  *)
(* receiver (arrived) at most once per step; in the same step the stage   *)
(* may hand downstream any run of payloads that have arrived, each later  *)
(* in the sender's order than everything handed down before.  What was    *)
(* handed down is never taken back or reordered, no payload is handed     *)
(* down twice, and none is handed down before it arrived.  Skipping a     *)
(* payload for good is allowed: the network may have lost it.             *)
(***************************************************************************)
EXTENDS Integers, Sequences, SequencesExt

CONSTANT Pkts        \* payload identities: 1..n in the sender's order

VARIABLES
    arrived,         \* payloads that have reached the receiver
    out              \* payloads handed downstream, in order

vars == <<arrived, out>>

\* The last payload handed down, 0 before the first.
LastOut(s) == IF s = <<>> THEN 0 ELSE s[Len(s)]

\* s is strictly increasing and starts above lo.
AscendingFrom(s, lo) ==
    \A i \in 1..Len(s) : s[i] > (IF i = 1 THEN lo ELSE s[i - 1])

Init ==
    /\ arrived = {}
    /\ out = <<>>

\* Payload p arrives (again, if the network duplicated it) and a run of
\* arrived payloads, possibly empty, is handed downstream.
Arrive(p) ==
    /\ arrived' = arrived \cup {p}
    /\ IsPrefix(out, out')
    /\ LET fresh == SubSeq(out', Len(out) + 1, Len(out'))
       IN  /\ AscendingFrom(fresh, LastOut(out))
           /\ ToSet(fresh) \subseteq arrived'

Next == \E p \in Pkts : Arrive(p)

Spec == Init /\ [][Next]_vars

=============================================================================
