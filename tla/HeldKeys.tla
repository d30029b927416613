------------------------------ MODULE HeldKeys ------------------------------
(***************************************************************************)
(* What the six-key report promises: it lists the keys that are held, in   *)
(* the order they were pressed, at most N of them; one press too many      *)
(* drops the oldest.  KeyRing implements it (KeyRingQueue).                *)
(***************************************************************************)
EXTENDS Integers, Sequences

CONSTANTS Codes, N

VARIABLE held       \* the keys reported, the oldest first

Members == {held[i] : i \in 1 .. Len(held)}

Init == held = <<>>

Press(code) ==
    held' = IF code \in Members THEN held
            ELSE Append(IF Len(held) = N THEN Tail(held) ELSE held, code)

\* held without its entry n
Without(n) == [m \in 1 .. Len(held)-1 |-> IF m < n THEN held[m] ELSE held[m+1]]

Release(code) ==
    IF code \in Members THEN \E n \in 1 .. Len(held) : held[n] = code /\ held' = Without(n)
    ELSE UNCHANGED held

Clear == held' = <<>>

Next == Clear \/ \E code \in Codes : Press(code) \/ Release(code)

Spec == Init /\ [][Next]_held
=============================================================================
