----------------------------- MODULE KeyRingSteps -----------------------------
(***************************************************************************)
(* add_key_byte and del_key_byte of TMK/action_util.c once more, one       *)
(* access to keyboard_report->keys[] per step: the USB interrupt may come  *)
(* between any two of them and call clear_keyboard (HID_CMD_ENTER_DFU in   *)
(* DRIVERS/USB/hid_configuration.c), which zeroes the slots and leaves     *)
(* cb_head, cb_tail and cb_count alone.                                    *)
(*                                                                         *)
(* A slot that the source names twice may be read twice or be kept in a    *)
(* register: the second reading is either (Again).                         *)
(*                                                                         *)
(* A shift that has met N + 1 holes leaves cb_tail at -1, for % rounds to  *)
(* zero in C; keys[-1] is the reserved byte of the report.                 *)
(***************************************************************************)
EXTENDS KeyRing

VARIABLES
    pc,         \* the step the thread is at
    code,       \* the argument of the call
    i, empty, offset,
    reg,        \* what was last read from keys[i]
    reserved,   \* keyboard_report->reserved, next to keys[0]
    start       \* history: the ring when the call began

locals == <<pc, code, i, empty, offset, reg>>
stepVars == <<vars, locals, reserved, start>>

Ring == [keys |-> keys, head |-> head, tail |-> tail, count |-> count,
         clears |-> clears, down |-> down]
NoCall == <<>>

None == -1

StepInit ==
    /\ Init
    /\ pc = "idle" /\ code = NoKey
    /\ i = 0 /\ empty = None /\ offset = 0 /\ reg = NoKey
    /\ reserved = NoKey /\ start = NoCall

Again == {reg, keys[i]}

\* RO_SUB with the % of C
Back(a, b) == IF a - b + N >= 0 THEN RO_SUB(a, b) ELSE a - b + N

\* back in register_code or unregister_code, which has no use for the locals
Done == pc' = "idle" /\ code' = NoKey /\ i' = 0 /\ empty' = None /\ offset' = 0
        /\ reg' = NoKey

Goto(step) == pc' = step

-----------------------------------------------------------------------------
(* add_key_byte                                                            *)

CallAdd(c) ==
    /\ pc = "idle"
    /\ Goto(IF count # 0 THEN "scan" ELSE "put")
    /\ code' = c
    /\ i' = head
    /\ down' = down \cup {c}
    /\ UNCHANGED <<keys, head, tail, count, clears, empty, offset, reg>>

ScanFound ==
    /\ pc = "scan" /\ keys[i] = code
    /\ Done
    /\ UNCHANGED vars

ScanOther ==
    /\ pc = "scan" /\ keys[i] # code
    /\ reg' = keys[i]
    /\ Goto("hole")
    /\ UNCHANGED <<vars, code, i, empty, offset>>

\* the end of the search loop
AfterScan(hole) ==
    IF RO_INC(i) # tail THEN Goto("scan") /\ i' = RO_INC(i)
    ELSE IF tail # head THEN Goto("put") /\ i' = tail
    ELSE IF hole = None THEN Goto("pop") /\ i' = tail
    ELSE Goto("shift") /\ i' = RO_INC(hole)

Hole ==
    /\ pc = "hole"
    /\ \E v \in Again : empty' = IF empty = None /\ v = NoKey THEN i ELSE empty
    /\ AfterScan(empty')
    /\ offset' = 1
    /\ reg' = NoKey
    /\ UNCHANGED <<vars, code>>

\* cb_head = RO_INC(cb_head); cb_count--
Pop ==
    /\ pc = "pop"
    /\ head' = RO_INC(head)
    /\ count' = (count - 1) % CountMod
    /\ Goto("put")
    /\ UNCHANGED <<keys, tail, clears, down, code, i, empty, offset, reg>>

\* mutant: the loop ends at the first hole of the turn, wherever that is now
AfterShift_UntilHead(o) ==
    IF RO_INC(i) # empty THEN Goto("shift") /\ i' = RO_INC(i) /\ UNCHANGED tail
    ELSE Goto("put") /\ tail' = Back(tail, o) /\ UNCHANGED i

\* the end of the shift loop
AfterShift(o) ==
    IF RO_INC(i) # tail THEN Goto("shift") /\ i' = RO_INC(i) /\ UNCHANGED tail
    ELSE Goto("put") /\ tail' = Back(tail, o) /\ UNCHANGED i

ShiftHole ==
    /\ pc = "shift" /\ keys[i] = NoKey
    /\ offset' = offset + 1
    /\ AfterShift(offset')
    /\ UNCHANGED <<keys, head, count, clears, down, code, empty, reg>>

ShiftKey ==
    /\ pc = "shift" /\ keys[i] # NoKey
    /\ reg' = keys[i]
    /\ Goto("move")
    /\ UNCHANGED <<vars, code, i, empty, offset>>

Move ==
    /\ pc = "move"
    /\ \E v \in Again : keys' = [keys EXCEPT ![empty] = v]
    /\ reg' = NoKey
    /\ Goto("leave")
    /\ UNCHANGED <<head, tail, count, clears, down, code, i, empty, offset>>

\* mutant: the slot that was moved keeps its key
Leave_Kept ==
    /\ pc = "leave"
    /\ empty' = RO_INC(empty)
    /\ AfterShift(offset)
    /\ UNCHANGED <<keys, head, count, clears, down, code, offset, reg>>

Leave ==
    /\ pc = "leave"
    /\ keys' = [keys EXCEPT ![i] = NoKey]
    /\ empty' = RO_INC(empty)
    /\ AfterShift(offset)
    /\ UNCHANGED <<head, count, clears, down, code, offset, reg>>

Put ==
    /\ pc = "put"
    /\ IF tail \in Slots
       THEN keys' = [keys EXCEPT ![tail] = code] /\ UNCHANGED reserved
       ELSE reserved' = code /\ UNCHANGED keys
    /\ tail' = RO_INC(tail)
    /\ count' = (count + 1) % CountMod
    /\ Done
    /\ UNCHANGED <<head, clears, down>>

-----------------------------------------------------------------------------
(* del_key_byte                                                            *)

CallDel(c) ==
    /\ pc = "idle"
    /\ IF count # 0
       THEN Goto("search") /\ code' = c /\ i' = head
       ELSE UNCHANGED <<pc, code, i>>
    /\ down' = down \ {c}
    /\ UNCHANGED <<keys, head, tail, count, clears, empty, offset, reg>>

SearchOther ==
    /\ pc = "search" /\ keys[i] # code
    /\ IF RO_INC(i) # tail
       THEN i' = RO_INC(i) /\ UNCHANGED <<pc, code, empty, offset, reg>>
       ELSE Done
    /\ UNCHANGED vars

SearchFound ==
    /\ pc = "search" /\ keys[i] = code
    /\ Goto("release")
    /\ UNCHANGED <<vars, code, i, empty, offset, reg>>

\* mutant: the slot keeps its key when it was the last one
Release_Kept ==
    /\ pc = "release"
    /\ keys' = IF count = 1 THEN keys ELSE [keys EXCEPT ![i] = NoKey]
    /\ count' = (count - 1) % CountMod
    /\ head' = IF count' = 0 THEN 0 ELSE head
    /\ tail' = IF count' = 0 THEN 0 ELSE tail
    /\ IF i = RO_DEC(tail')
       THEN Goto("retract") /\ UNCHANGED <<code, i, empty, offset, reg>>
       ELSE Done
    /\ UNCHANGED <<clears, down>>

\* keys[i] = 0, cb_count-- and the reset of the indices
Release ==
    /\ pc = "release"
    /\ keys' = [keys EXCEPT ![i] = NoKey]
    /\ count' = (count - 1) % CountMod
    /\ head' = IF count' = 0 THEN 0 ELSE head
    /\ tail' = IF count' = 0 THEN 0 ELSE tail
    /\ IF i = RO_DEC(tail')
       THEN Goto("retract") /\ UNCHANGED <<code, i, empty, offset, reg>>
       ELSE Done
    /\ UNCHANGED <<clears, down>>

\* mutant: tail goes back onto the key it has met
Retract_OneTooFar ==
    /\ pc = "retract"
    /\ tail' = RO_DEC(tail)
    /\ IF keys[tail'] = NoKey /\ tail' # head
       THEN UNCHANGED locals
       ELSE Done
    /\ UNCHANGED <<keys, head, count, clears, down>>

Retract ==
    /\ pc = "retract"
    /\ tail' = RO_DEC(tail)
    /\ IF keys[RO_DEC(tail')] = NoKey /\ tail' # head
       THEN UNCHANGED locals
       ELSE Done
    /\ UNCHANGED <<keys, head, count, clears, down>>

-----------------------------------------------------------------------------
\* clear_keyboard in the interrupt: clear_keys, which nothing cuts in two
Interrupt == clear_keys /\ reserved' = NoKey /\ UNCHANGED <<locals, start>>

InRing ==
    \/ ScanFound \/ ScanOther \/ Hole \/ Pop \/ ShiftHole \/ ShiftKey \/ Move \/ Leave
    \/ SearchOther \/ SearchFound \/ Release \/ Retract

Call == \E c \in Codes : CallAdd(c) \/ CallDel(c)

Running ==
    /\ (InRing /\ UNCHANGED reserved) \/ Put
    /\ start' = IF pc' = "idle" THEN NoCall ELSE start

StepNext ==
    \/ Call /\ start' = (IF pc' = "idle" THEN NoCall ELSE Ring) /\ UNCHANGED reserved
    \/ Running
    \/ Interrupt

StepSpec == StepInit /\ [][StepNext]_stepVars /\ WF_stepVars(Running)

-----------------------------------------------------------------------------
View == IF pc = "idle" THEN Ring ELSE start

KR == INSTANCE KeyRing WITH
          keys <- View.keys, head <- View.head, tail <- View.tail,
          count <- View.count, clears <- View.clears, down <- View.down

(* A call that no interrupt cuts into does in its many steps what KeyRing  *)
(* takes for one.                                                          *)
AtomicUnlessCut == [][clears = View.clears => [KR!Next]_(KR!vars)]_stepVars

(* Wherever the interrupt cuts into a call, once the call has returned no  *)
(* key is in the report twice, each is where the loops look for it,        *)
(* cb_count covers them, and the indices are those of slots.               *)
SoundWhenIdle ==
    pc = "idle" =>
        /\ {head, tail} \subseteq Slots
        /\ NoDuplicates /\ HeldIsScanned /\ Cardinality(Held) <= count

(* Even a key that the interrupt found half-way between two slots, and     *)
(* that outlives the clear, goes with its release: only keys that are down *)
(* are reported when no call is under way.                                 *)
ReleasedWhenIdle == pc = "idle" => ReleaseClears

(* "desc |mods    |reserved|keys[0] ..." (report.h:123): the byte between  *)
(* the modifiers and the keys holds no key.                                *)
ReservedUnused == reserved = NoKey

(* Every call returns: an interrupt cannot send a loop past its end.       *)
CallsReturn == pc # "idle" ~> pc = "idle"
=============================================================================
