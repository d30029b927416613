------------------------------ MODULE KeyRing ------------------------------
(***************************************************************************)
(* The six-key report of TMK/action_util.c when USB_6KRO_ENABLE is set.    *)
(*                                                                         *)
(* keyboard_report->keys[] is used as a ring: cb_head is the slot of the   *)
(* oldest key, cb_tail the slot the next key goes to, cb_count an int8_t   *)
(* that add_key_byte increments and del_key_byte decrements.  A slot holds *)
(* a key code or 0 (NoKey).  A key that is released leaves a hole; holes   *)
(* next to the tail are given back at once, the others only when the tail  *)
(* has come round to the head, by shifting the keys to the left.  When all *)
(* slots hold keys, the oldest one is dropped.                             *)
(*                                                                         *)
(* clear_keys() zeroes the slots and leaves the three indices alone, so    *)
(* every clear with keys held leaves cb_count above the number of keys.    *)
(***************************************************************************)
EXTENDS Integers, FiniteSets

CONSTANTS
    Codes,      \* the key codes the keymap can register
    NoKey,      \* the value 0 of an unused slot
    N,          \* USB_6KRO_KEYS
    CountMod,   \* the number of values of cb_count: 2^8 for an int8_t
    MaxClears   \* a bound on the calls of clear_keys(); it bounds no other state

ASSUME RingAssumption ==
    /\ N \in Nat /\ N >= 2
    /\ CountMod \in Nat /\ CountMod > N
    /\ MaxClears \in Nat
    /\ NoKey \notin Codes

VARIABLES
    keys,       \* keyboard_report->keys[]
    head,       \* cb_head
    tail,       \* cb_tail
    count,      \* cb_count, modulo CountMod
    clears,     \* calls of clear_keys() so far (history)
    down        \* the codes that were added and not released since (history)

vars == <<keys, head, tail, count, clears, down>>

Slots == 0 .. N-1

RO_ADD(a, b) == (a + b) % N
RO_SUB(a, b) == (a - b + N) % N
RO_INC(a) == RO_ADD(a, 1)
RO_DEC(a) == RO_SUB(a, 1)

Init ==
    /\ keys = [s \in Slots |-> NoKey]
    /\ head = 0
    /\ tail = 0
    /\ count = 0
    /\ clears = 0
    /\ down = {}

(***************************************************************************)
(* The do-while loops start at head and stop at tail, after a full turn    *)
(* when the two are equal.  Order(s) is the turn at which they reach s.    *)
(***************************************************************************)
Turn(h, t) == IF t = h THEN Slots ELSE {s \in Slots : RO_SUB(s, h) < RO_SUB(t, h)}

Order(s) == RO_SUB(s, head)

Scanned == Turn(head, tail)

Held == {s \in Slots : keys[s] # NoKey}

\* mutant: a while loop, which makes no turn at all when tail = head
Present_While(code) == count # 0 /\ tail # head /\ \E s \in Scanned : keys[s] = code

Present(code) == count # 0 /\ \E s \in Scanned : keys[s] = code

First(S) == CHOOSE s \in S : \A t \in S : Order(s) <= Order(t)

Full == count # 0 /\ tail = head

(***************************************************************************)
(* The left shift of a full turn that met a hole.  The first hole and the  *)
(* slots after it are overwritten, in turn, by the keys found behind it.   *)
(* When the only hole is the slot before tail, the loop starts on head     *)
(* itself: it carries the oldest key round, then moves every key one down. *)
(***************************************************************************)
Rank(s) == Cardinality({t \in Held : Order(t) < Order(s)})

Compacted ==
    [s \in Slots |->
        IF \E t \in Held : Rank(t) = Order(s)
        THEN keys[CHOOSE t \in Held : Rank(t) = Order(s)]
        ELSE NoKey]

Rotated ==
    [s \in Slots |-> CASE Order(s) = N - 1 -> NoKey
                       [] Order(s) = N - 2 -> keys[head]
                       [] OTHER            -> keys[RO_INC(s)]]

Shifted == IF First(Slots \ Held) = RO_DEC(tail) THEN Rotated ELSE Compacted

PutAt(ks, slot, code) ==
    /\ keys' = [ks EXCEPT ![slot] = code]
    /\ tail' = RO_INC(slot)

-----------------------------------------------------------------------------
(* add_key_byte *)

AddPresent(code) ==
    /\ Present(code)
    /\ UNCHANGED <<keys, head, tail, count>>

AddFree(code) ==
    /\ ~Present(code)
    /\ ~Full
    /\ PutAt(keys, tail, code)
    /\ count' = (count + 1) % CountMod
    /\ UNCHANGED head

\* mutant: cb_count-- without the cb_count++ of the key that is added
AddPop_CountDropped(code) ==
    /\ ~Present(code)
    /\ Full /\ Held = Slots
    /\ head' = RO_INC(head)
    /\ PutAt(keys, tail, code)
    /\ count' = (count - 1) % CountMod

\* mutant: the oldest key stays the head
AddPop_HeadKept(code) ==
    /\ ~Present(code)
    /\ Full /\ Held = Slots
    /\ PutAt(keys, tail, code)
    /\ UNCHANGED <<head, count>>

\* every slot is taken: the oldest key is dropped, cb_count-- and cb_count++
AddPop(code) ==
    /\ ~Present(code)
    /\ Full /\ Held = Slots
    /\ head' = RO_INC(head)
    /\ PutAt(keys, tail, code)
    /\ UNCHANGED count

\* mutant: tail is not moved back by the offset
AddShift_TailKept(code) ==
    /\ ~Present(code)
    /\ Full /\ Held # Slots
    /\ PutAt(Shifted, tail, code)
    /\ count' = (count + 1) % CountMod
    /\ UNCHANGED head

\* offset counts the holes, and tail goes back by that many slots
AddShift(code) ==
    /\ ~Present(code)
    /\ Full /\ Held # Slots
    /\ PutAt(Shifted, RO_SUB(tail, N - Cardinality(Held)), code)
    /\ count' = (count + 1) % CountMod
    /\ UNCHANGED head

add_key_byte(code) ==
    /\ AddPresent(code) \/ AddFree(code) \/ AddPop(code) \/ AddShift(code)
    /\ down' = down \cup {code}
    /\ UNCHANGED clears

-----------------------------------------------------------------------------
(* del_key_byte *)

\* mutant: tail is moved back onto the last key
Retracted_OneTooFar(ks, h, t) ==
    LET left == {s \in Turn(h, t) : ks[s] # NoKey}
    IN  IF left = {} THEN h
        ELSE CHOOSE s \in left : \A r \in left : RO_SUB(r, h) <= RO_SUB(s, h)

\* tail is moved back until it is next to a key or has reached head
Retracted(ks, h, t) ==
    LET left == {s \in Turn(h, t) : ks[s] # NoKey}
    IN  IF left = {} THEN h
        ELSE RO_INC(CHOOSE s \in left : \A r \in left : RO_SUB(r, h) <= RO_SUB(s, h))

DelMissing(code) ==
    /\ ~Present(code)
    /\ UNCHANGED <<keys, head, tail, count>>

\* mutant: a release reaches the head of the ring only
DelPresent_HeadOnly(code) ==
    /\ Present(code)
    /\ keys' = IF keys[head] = code THEN [keys EXCEPT ![head] = NoKey] ELSE keys
    /\ count' = IF keys[head] = code THEN (count - 1) % CountMod ELSE count
    /\ UNCHANGED <<head, tail>>

DelPresent(code) ==
    /\ Present(code)
    /\ LET i  == First({s \in Scanned : keys[s] = code})
           ks == [keys EXCEPT ![i] = NoKey]
           c  == (count - 1) % CountMod
           h  == IF c = 0 THEN 0 ELSE head
           t  == IF c = 0 THEN 0 ELSE tail
       IN  /\ keys' = ks
           /\ count' = c
           /\ head' = h
           /\ tail' = IF i = RO_DEC(t) THEN Retracted(ks, h, t) ELSE t

del_key_byte(code) ==
    /\ DelMissing(code) \/ DelPresent(code)
    /\ down' = down \ {code}
    /\ UNCHANGED clears

-----------------------------------------------------------------------------
clear_keys ==
    /\ clears < MaxClears
    /\ keys' = [s \in Slots |-> NoKey]
    /\ clears' = clears + 1
    /\ UNCHANGED <<head, tail, count, down>>

Next ==
    \/ \E code \in Codes : add_key_byte(code)
    \/ \E code \in Codes : del_key_byte(code)
    \/ clear_keys

Spec == Init /\ [][Next]_vars

-----------------------------------------------------------------------------
TypeOK ==
    /\ keys \in [Slots -> Codes \cup {NoKey}]
    /\ head \in Slots
    /\ tail \in Slots
    /\ count \in 0 .. CountMod-1
    /\ clears \in 0 .. MaxClears
    /\ down \subseteq Codes

(* No code is reported in two slots: a second copy would survive the       *)
(* release of the key, which clears only the first one the loop meets.     *)
NoDuplicates ==
    \A s, t \in Held : keys[s] = keys[t] => s = t

(* Every reported key lies where the loops of add_key_byte and             *)
(* del_key_byte look, so that its release can find it.                     *)
HeldIsScanned == Held \subseteq Scanned

(* cb_count never says "empty" of a report that holds a key, which would   *)
(* skip both search loops.  It drifts away from the number of held keys    *)
(* with every clear_keys(), by a full report at most.                      *)
CountCoversHeld ==
    /\ Cardinality(Held) <= count
    /\ count <= Cardinality(Held) + N * clears

(* The release of a key takes its code out of the report for good: no code *)
(* is reported after del_key_byte until it is added again, whatever other  *)
(* presses, releases and clears there are.                                 *)
ReleaseClears == \A s \in Held : keys[s] \in down
=============================================================================
