------------------------------ MODULE HostLocks ------------------------------
(***************************************************************************)
(* The locks of the host (Caps Lock and the like) and what they owe to the *)
(* keyboard.  The host sees the report that is in the endpoint when it     *)
(* looks, and not those that were written over.                            *)
(***************************************************************************)
EXTENDS FiniteSets

CONSTANT Locks              \* KC_CAPSLOCK, KC_NUMLOCK, KC_SCROLLLOCK

ASSUME LockingAssumption == IsFiniteSet(Locks)

VARIABLES
    report,     \* the codes of locks in the report that is in the endpoint
    seen,       \* the report the host saw last
    on,         \* the locks that are on at the host
    expected,   \* history: on, changed by the calls since the host was up to date
    clear       \* history: no other report of a lock came between these calls

Toggled(s, t) == (s \ t) \cup (t \ s)

\* a lock changes when its key goes down
Look ==
    /\ report # seen
    /\ seen' = report
    /\ on' = Toggled(on, report \ seen)
    /\ UNCHANGED <<report, expected, clear>>

(* What a locking key types changes its lock at the host, exactly once,    *)
(* whatever the LEDs were taken for and however late the host looks; only  *)
(* an ordinary key of a lock that is typed in between may hide it.         *)
TypedOnce == clear /\ seen = report => on = expected
=============================================================================
