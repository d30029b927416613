---------------------------- MODULE KeyRingQueue ----------------------------
(***************************************************************************)
(* KeyRing is a queue: read from head on, the slots that hold a key list   *)
(* the keys of HeldKeys.                                                   *)
(***************************************************************************)
EXTENDS KeyRing, Sequences

\* the keys in the order the loops meet them, without the holes
SlotOf(n) == CHOOSE s \in Held : Rank(s) = n - 1

HeldSequence == [n \in 1 .. Cardinality(Held) |-> keys[SlotOf(n)]]

HK == INSTANCE HeldKeys WITH held <- HeldSequence

(* The ring is a queue of the held keys, the oldest first: holes, shifts   *)
(* and the reset of the indices never reorder, lose or invent a key.       *)
RefinesHeldKeys == HK!Spec
=============================================================================
