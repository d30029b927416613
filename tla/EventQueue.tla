----------------------------- MODULE EventQueue -----------------------------
(***************************************************************************)
(* What the tapping engine promises of the events of one key: they take    *)
(* effect in the order they happened, each once, however long they wait    *)
(* and whatever the other keys do.  A flush (the overflow of the waiting   *)
(* buffer) ends all that waits.  Tapping implements it (EventsInOrder).    *)
(***************************************************************************)
EXTENDS Integers, Sequences

CONSTANTS Keys, Most    \* Most: events of one key that one step settles

VARIABLES
    queue,      \* the events of each key that wait; TRUE is a press
    settled     \* the last event of each key that took effect

vars == <<queue, settled>>

Init ==
    /\ queue = [k \in Keys |-> <<>>]
    /\ settled = [k \in Keys |-> FALSE]

\* what the key did last, whether it has taken effect or not
Latest(k) == IF queue[k] = <<>> THEN settled[k] ELSE queue[k][Len(queue[k])]

Arrived(D) == [k \in Keys |-> IF k \in D THEN Append(queue[k], ~Latest(k)) ELSE queue[k]]

\* keys D change, and the first n[k] waiting events of each key take effect
Step(D, n) ==
    /\ \A k \in Keys : n[k] <= Len(Arrived(D)[k])
    /\ queue' = [k \in Keys |-> SubSeq(Arrived(D)[k], n[k] + 1, Len(Arrived(D)[k]))]
    /\ settled' = [k \in Keys |-> IF n[k] = 0 THEN settled[k] ELSE Arrived(D)[k][n[k]]]

Flush(D) ==
    /\ queue' = [k \in Keys |-> <<>>]
    /\ settled' = [k \in Keys |-> IF k \in D THEN ~Latest(k) ELSE Latest(k)]

Next ==
    \E D \in SUBSET Keys :
        Flush(D) \/ \E n \in [Keys -> 0 .. Most] : Step(D, n)

Spec == Init /\ [][Next]_vars
=============================================================================
