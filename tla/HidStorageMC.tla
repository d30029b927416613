----------------------------- MODULE HidStorageMC -----------------------------
(***************************************************************************)
(* HidStorage for TLC: two layers of one key.                              *)
(***************************************************************************)
EXTENDS HidStorage

LastKey == {[layer |-> Layers - 1, row |-> Rows - 1, col |-> Cols - 1]}
=============================================================================
