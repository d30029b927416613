------------------------------- MODULE Locking -------------------------------
(***************************************************************************)
(* The locking keys of TMK/action.c (KC_LCAP, KC_LNUM, KC_LSCR): a switch  *)
(* that stays down while its lock is to be on.  Its press and its release  *)
(* each type the key of the lock, to which the host answers by changing    *)
(* the lock; LOCKING_RESYNC_ENABLE leaves out the one that is not needed.  *)
(*                                                                         *)
(* A report stays for the 100 ms in which the host looks (HostLocks); the  *)
(* few instructions between two other reports are not time enough.         *)
(***************************************************************************)
EXTENDS HostLocks

VARIABLES
    down,       \* the locking keys that are down
    plain,      \* the ordinary keys of the locks that are down (AC_CAPS)
    call        \* {c} in the 100 ms in which c is typed, {} outside

vars == <<down, plain, call, report, seen, on, expected, clear>>

(***************************************************************************)
(* keyboard_leds() of DRIVERS/keyboard_host_driver.c is a uint8_t function *)
(* with an empty body: its value is undefined.                             *)
(***************************************************************************)
keyboard_leds == SUBSET Locks

Init ==
    /\ down = {} /\ plain = {} /\ call = {}
    /\ report = {} /\ seen = {}
    /\ on \in SUBSET Locks
    /\ expected = on /\ clear = TRUE

\* add_key(c), send_keyboard_report(), and into wait_ms(100)
Type(c) ==
    /\ call' = {c}
    /\ report' = report \cup {c}
    /\ LET settled == report = seen
       IN  /\ expected' = IF settled THEN Toggled(on, {c}) ELSE Toggled(expected, {c})
           /\ clear' = (c \notin report \cup seen /\ (settled \/ clear))
    /\ UNCHANGED <<seen, on>>

Ignore == UNCHANGED <<call, report, seen, on, expected, clear>>

\* register_code
Press(c) ==
    /\ call = {} /\ c \notin down
    /\ down' = down \cup {c}
    /\ \E leds \in keyboard_leds : IF c \in leds THEN Ignore ELSE Type(c)
    /\ UNCHANGED plain

\* unregister_code
Release(c) ==
    /\ call = {} /\ c \in down
    /\ down' = down \ {c}
    /\ \E leds \in keyboard_leds : IF c \in leds THEN Type(c) ELSE Ignore
    /\ UNCHANGED plain

\* mutant: the key comes up without the 100 ms
EndWait_AtOnce ==
    /\ call # {}
    /\ report' = report \ call
    /\ call' = {}
    /\ UNCHANGED <<down, plain, seen, on, expected, clear>>

\* after 100 ms: del_key(c), send_keyboard_report()
EndWait ==
    /\ call # {} /\ seen = report
    /\ report' = report \ call
    /\ call' = {}
    /\ UNCHANGED <<down, plain, seen, on, expected, clear>>

\* the ordinary key of a lock
Plain(c) ==
    /\ call = {}
    /\ plain' = Toggled(plain, {c})
    /\ report' = IF c \in plain THEN report \ {c} ELSE report \cup {c}
    /\ clear' = FALSE
    /\ UNCHANGED <<down, call, seen, on, expected>>

HostLooks == Look /\ UNCHANGED <<down, plain, call>>

Next ==
    \/ \E c \in Locks : Press(c) \/ Release(c) \/ Plain(c)
    \/ EndWait
    \/ HostLooks

Spec == Init /\ [][Next]_vars

-----------------------------------------------------------------------------
(* "Resync: ignore if lock indicator is already on" (action.c:413), "...   *)
(* already off" (action.c:482), at a host that has seen every report.      *)
Resynchronized ==
    [][seen = report => \A c \in Locks :
          /\ Press(c) => (call' = {} <=> c \in on)
          /\ Release(c) => (call' = {} <=> c \notin on)]_vars
=============================================================================
