----------------------------- MODULE ScanEvents -----------------------------
(***************************************************************************)
(* What the matrix driver promises the rest of the keyboard: every pass of *)
(* keyboard_task reports each key at most once, in the order of the        *)
(* matrix, with the direction opposite to the last report of that key,     *)
(* then one TICK.  MatrixScan implements it, and the environment of        *)
(* Tapping takes its events in this order.                                 *)
(***************************************************************************)
EXTENDS Integers

CONSTANT NumKeys

VARIABLES
    down,   \* the keys last reported as pressed
    pos     \* the last key reported in this pass, NumKeys + 1 after the TICK

Keys == 1 .. NumKeys
vars == <<down, pos>>

Init == down = {} /\ pos = 0

Report(key) ==
    /\ pos < key /\ key <= NumKeys
    /\ down' = (down \cup {key}) \ (down \cap {key})
    /\ pos' = key

Tick == pos <= NumKeys /\ pos' = NumKeys + 1 /\ UNCHANGED down

NextPass == pos = NumKeys + 1 /\ pos' = 0 /\ UNCHANGED down

Next == Tick \/ NextPass \/ \E key \in Keys : Report(key)

Spec == Init /\ [][Next]_vars
=============================================================================
