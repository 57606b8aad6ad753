-------------------------- MODULE OrderedExecution --------------------------
(* What the executor promises of the signals: each entry of a stream is sent *)
(* to the broker at most once, and the orders of a stream follow its order.   *)
(* A signal may be given up at any moment; it never comes back.               *)
EXTENDS Naturals, Sequences

CONSTANT Streams

VARIABLES published,  \* per stream, the number of entries so far
          live,       \* ids that may still become an order
          orders      \* ids of the orders sent, in that order

vars == <<published, live, orders>>

Init ==
    /\ published = [st \in Streams |-> 0]
    /\ live = {}
    /\ orders = <<>>

Publish(st) ==
    /\ published' = [published EXCEPT ![st] = @ + 1]
    /\ live' = live \cup {<<st, published[st] + 1>>}
    /\ UNCHANGED orders

GiveUp ==
    /\ live' \in SUBSET live
    /\ UNCHANGED <<published, orders>>

Execute(id) ==
    /\ orders' = Append(orders, id)
    /\ live' = {other \in live : other[1] = id[1] => other[2] > id[2]}
    /\ UNCHANGED published

Next ==
    \/ \E st \in Streams : Publish(st)
    \/ GiveUp
    \/ \E id \in live : Execute(id)

Spec == Init /\ [][Next]_vars
=============================================================================
