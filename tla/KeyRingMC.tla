----------------------------- MODULE KeyRingMC ------------------------------
(* KeyRing on small instances. *)
EXTENDS KeyRingLoops, KeyRingQueue, TLC

CodeSymmetry == Permutations(Codes)
=============================================================================
