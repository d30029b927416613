----------------------------- MODULE UsbControlMC -----------------------------
(***************************************************************************)
(* UsbControl for TLC: a descriptor of three packets, and one whose length *)
(* is a multiple of the packet size, which an empty packet ends.           *)
(***************************************************************************)
EXTENDS UsbControl

MCDescLen == [device |-> 5, serial |-> 2]
=============================================================================
