------------------------------- MODULE Tapping -------------------------------
(***************************************************************************)
(* The keyboard thread from a debounced matrix change to the report:       *)
(* keyboard_task (TMK/keyboard.c), action_tapping_process and              *)
(* process_tapping (TMK/action_tapping.c), with the actions of KeyActions. *)
(*                                                                         *)
(* One step of keyboard_task hands every changed key to action_exec in the *)
(* order of the matrix (Event), then the pseudo event TICK (Tick), then    *)
(* the thread sleeps (WaitPass, WaitStep).  After each of them action_tapping_process    *)
(* drains the waiting buffer: Drain processes its first record and stops   *)
(* at one that process_tapping does not take.  process_tapping is one      *)
(* action per branch; the branches differ in whether they Consume the      *)
(* record (return true) or Keep it (return false).                         *)
(*                                                                         *)
(* Time is counted in the steps in which the debounced matrix can change:  *)
(* two changes are DEBOUNCE passes of keyboard_task apart (MatrixScan),    *)
(* some 54 ms, and one or two more when the contacts bounce, so that the   *)
(* 200 ms of TAPPING_TERM are three to four steps.  A step has any number  *)
(* of passes, with a TICK each, and a change in one of them.               *)
(***************************************************************************)
EXTENDS KeyActions, Sequences

CONSTANTS
    TAPPING_TERM,           \* in steps of the debounced matrix
    WAITING_BUFFER_SIZE,
    TapMax,                 \* the largest value of tap.count, 15 in the code
    TimeMod                 \* 2^16; timer_read() returns values below TimeMod - 1

ASSUME TappingAssumption ==
    /\ TAPPING_TERM \in Nat \ {0}
    /\ WAITING_BUFFER_SIZE \in Nat /\ WAITING_BUFFER_SIZE >= 2
    /\ TapMax \in Nat \ {0}
    /\ TimeMod \in Nat /\ TimeMod > TAPPING_TERM + 2

VARIABLES
    down,           \* matrix_prev: the keys the scan has seen pressed
    pos,            \* the loop of keyboard_task: last key handled, TickPos for TICK
    now,            \* timer_read()
    changed,        \* the matrix has changed in this step of time: "no", in this
                    \* pass of keyboard_task ("now") or in one "before"
    pc,             \* "scan", or "drain" in the loop over the waiting buffer
    tapping_key,
    waiting_buffer, \* from waiting_buffer_tail to waiting_buffer_head
    kb,             \* the keyboard (KeyActions)
    settled,        \* history: the last event of a key that took effect
    toggled         \* history: a toggle key was tapped TAPPING_TOGGLE times

vars == <<down, pos, now, changed, pc, tapping_key, waiting_buffer, kb, settled, toggled>>

NOEVENT == 0
TickPos == NumKeys + 1

Record(key, pressed, time) ==
    [key |-> key, pressed |-> pressed, time |-> time,
     count |-> 0, interrupted |-> FALSE]

TICK == Record(NOEVENT, FALSE, now)
NoTapping == Record(NOEVENT, FALSE, 0)

IS_TAPPING == tapping_key.key # NOEVENT
IS_TAPPING_PRESSED == IS_TAPPING /\ tapping_key.pressed
IS_TAPPING_RELEASED == IS_TAPPING /\ ~tapping_key.pressed
IS_TAPPING_KEY(key) == IS_TAPPING /\ tapping_key.key = key
\* mutant: the wrap of the timer is ignored
TIMER_DIFF_16_NoWrap(a, b) == a - b

TIMER_DIFF_16(a, b) == (a - b) % TimeMod
WITHIN_TAPPING_TERM(rec) ==
    TIMER_DIFF_16(rec.time, tapping_key.time) < TAPPING_TERM

Init ==
    /\ down = {}
    /\ pos = 0
    /\ now = 0
    /\ changed = "no"
    /\ pc = "scan"
    /\ tapping_key = NoTapping
    /\ waiting_buffer = <<>>
    /\ \E name \in DOMAIN KeyMaps : kb = InitKb(name)
    /\ settled = [k \in Keys |-> FALSE]
    /\ toggled = FALSE

-----------------------------------------------------------------------------
(* The two outcomes of process_tapping, for its two callers.               *)

\* the key has an action with this tap code on some layer
HasTapCode(key, code) ==
    \E a \in ActionsOf(kb, key) : a.kind \in {"MODS_TAP", "LAYER_TAP"} /\ a.code = code

ToggleTaps(rec) ==
    /\ rec.count >= TAPPING_TOGGLE
    /\ HasTapCode(rec.key, MODS_TAP_TOGGLE) \/ HasTapCode(rec.key, OP_TAP_TOGGLE)

\* history; done: the records process_action was given for a key's own event
Settle(done) ==
    /\ settled' = [k \in Keys |->
                     IF \E r \in done : r.key = k
                     THEN (CHOOSE r \in done : r.key = k).pressed ELSE settled[k]]
    /\ toggled' = (toggled \/ \E r \in done : ToggleTaps(r))

\* return true: a record of the buffer is removed from it
Consume(newKb, tapping, buffer, done) ==
    /\ kb' = newKb
    /\ tapping_key' = tapping
    /\ waiting_buffer' = IF pc = "drain" THEN Tail(buffer) ELSE buffer
    /\ pc' = "drain"
    /\ Settle(done)

IsFull == Len(waiting_buffer) = WAITING_BUFFER_SIZE - 1

\* mutant: an event that finds the buffer full is dropped, and nothing else
Keep_DropsWhenFull(newKb, tapping, rec, done) ==
    /\ kb' = newKb /\ tapping_key' = tapping /\ Settle(done)
    /\ \/ /\ pc = "drain"
          /\ waiting_buffer' = [waiting_buffer EXCEPT ![1] = rec]
          /\ pc' = "scan"
       \/ /\ pc = "scan"
          /\ waiting_buffer' = IF rec.key = NOEVENT \/ IsFull THEN waiting_buffer
                               ELSE Append(waiting_buffer, rec)
          /\ pc' = "drain"

\* return false: a record of the buffer stays at its head and ends the loop;
\* a new one is enqueued (waiting_buffer_enq), a TICK is not
Keep(newKb, tapping, rec, done) ==
    \/ /\ pc = "drain"
       /\ waiting_buffer' = [waiting_buffer EXCEPT ![1] = rec]
       /\ pc' = "scan"
       /\ kb' = newKb /\ tapping_key' = tapping /\ Settle(done)
    \/ /\ pc = "scan" /\ (rec.key = NOEVENT \/ ~IsFull)
       /\ waiting_buffer' = IF rec.key = NOEVENT THEN waiting_buffer
                            ELSE Append(waiting_buffer, rec)
       /\ pc' = "drain"
       /\ kb' = newKb /\ tapping_key' = tapping /\ Settle(done)
    \/ /\ pc = "scan" /\ rec.key # NOEVENT /\ IsFull
       /\ waiting_buffer' = <<>>
       /\ pc' = "drain"
       /\ kb' = clear_keyboard(newKb)
       /\ tapping_key' = NoTapping
       /\ settled' = [k \in Keys |-> k \in down']      \* history
       /\ UNCHANGED toggled

Act(rec) == IF rec.key = NOEVENT THEN kb ELSE process_action(kb, rec)

\* process_action(&tapping_key): a cancelled tap leaves tap.count at 0
Decided(rec) == IF Cancels(kb, rec) THEN [rec EXCEPT !.count = 0] ELSE rec

\* mutant: the release of a key does not wait for its press
waiting_buffer_typed_Never(rec) == FALSE

waiting_buffer_typed(rec) ==
    \E i \in 1 .. Len(waiting_buffer) :
        /\ waiting_buffer[i].key = rec.key
        /\ waiting_buffer[i].pressed # rec.pressed

StartsTap(rec) == rec.key # NOEVENT /\ rec.pressed /\ is_tap_key(kb, rec)

(***************************************************************************)
(* tapping_key = *keyp; waiting_buffer_scan_tap().  When the release that  *)
(* makes it a tap is already waiting, the tap is performed at once.        *)
(* before is the keyboard once is_tap_key has recorded the layer of rec,   *)
(* and after a forced release of the previous tap.                         *)
(***************************************************************************)
TapRelease(rec) ==
    {i \in 1 .. Len(waiting_buffer) :
        /\ waiting_buffer[i].key = rec.key
        /\ ~waiting_buffer[i].pressed
        /\ TIMER_DIFF_16(waiting_buffer[i].time, rec.time) < TAPPING_TERM}

StartTapping(before, rec) ==
    \/ /\ rec.count > 0 \/ TapRelease(rec) = {}
       /\ Consume(before, rec, waiting_buffer, {})
    \/ /\ rec.count = 0 /\ TapRelease(rec) # {}
       /\ LET i   == CHOOSE i \in TapRelease(rec) : \A j \in TapRelease(rec) : i <= j
              tap == [rec EXCEPT !.count = 1]
          IN  Consume(process_action(before, tap), tap,
                      [waiting_buffer EXCEPT ![i].count = 1], {rec})

-----------------------------------------------------------------------------
(* process_tapping: the tapping key is pressed, neither tap nor hold yet   *)

Undecided == IS_TAPPING_PRESSED /\ tapping_key.count = 0

OwnRelease(rec) == IS_TAPPING_KEY(rec.key) /\ ~rec.pressed

FirstTap(rec) ==
    /\ Undecided /\ WITHIN_TAPPING_TERM(rec) /\ OwnRelease(rec)
    /\ LET tap == [tapping_key EXCEPT !.count = 1]
           t   == Decided(tap)
       IN  Keep(Act(tap), t,
                [rec EXCEPT !.count = t.count, !.interrupted = t.interrupted], {tap})

OtherRelease(rec) ==
    /\ Undecided /\ WITHIN_TAPPING_TERM(rec)
    /\ rec.key # NOEVENT /\ ~rec.pressed /\ ~OwnRelease(rec)
    /\ ~waiting_buffer_typed(rec)

\* mutant: only modifiers with a tap code are retained
IsModifierRelease_TapsOnly(rec) ==
    LET a == layer_switch_get_action(kb, rec)
    IN  a.kind = "MODS_TAP" /\ a.mods # {} /\ rec.count = 0

\* a modifier is retained until the tapping key is decided
IsModifierRelease(rec) ==
    LET a == layer_switch_get_action(kb, rec)
    IN  \/ a.kind \in {"MODS", "MODS_TAP"} /\ a.code \in Mods
        \/ a.kind = "MODS" /\ a.mods # {} /\ a.code = KC_NO
        \/ a.kind = "MODS_TAP" /\ a.mods # {} /\ rec.count = 0

RetainModifier(rec) ==
    /\ OtherRelease(rec) /\ IsModifierRelease(rec)
    /\ Keep(kb, tapping_key, rec, {})

ReleaseAtOnce(rec) ==
    /\ OtherRelease(rec) /\ ~IsModifierRelease(rec)
    /\ Consume(Act(rec), tapping_key, waiting_buffer, {rec})

\* mutant: the press of a key without a tap does not wait
WaitForDecision_PlainPasses(rec) ==
    /\ Undecided /\ WITHIN_TAPPING_TERM(rec)
    /\ rec.pressed \/ rec.key = NOEVENT
          \/ (~OwnRelease(rec) /\ waiting_buffer_typed(rec))
    /\ IF StartsTap(rec) \/ ~rec.pressed THEN Keep(kb, tapping_key, rec, {})
       ELSE Consume(Act(rec), tapping_key, waiting_buffer, {rec})

WaitForDecision(rec) ==
    /\ Undecided /\ WITHIN_TAPPING_TERM(rec)
    /\ rec.pressed \/ rec.key = NOEVENT
          \/ (~OwnRelease(rec) /\ waiting_buffer_typed(rec))
    /\ Keep(kb, [tapping_key EXCEPT !.interrupted = @ \/ rec.pressed], rec, {})

Timeout(rec) ==
    /\ Undecided /\ ~WITHIN_TAPPING_TERM(rec)
    /\ Keep(Act(tapping_key), NoTapping, rec, {tapping_key})

-----------------------------------------------------------------------------
(* process_tapping: the tapping key is pressed and is a tap                *)

Tapped == IS_TAPPING_PRESSED /\ tapping_key.count > 0

WithTap(rec) ==
    [rec EXCEPT !.count = tapping_key.count, !.interrupted = tapping_key.interrupted]

\* mutant: the release does not say that it ends a tap
TapReleased_CountLost(rec) ==
    /\ Tapped /\ OwnRelease(rec)
    /\ Consume(Act(rec),
               IF WITHIN_TAPPING_TERM(rec) THEN WithTap(rec) ELSE NoTapping,
               waiting_buffer, {rec})

TapReleased(rec) ==
    /\ Tapped /\ OwnRelease(rec)
    /\ Consume(Act(WithTap(rec)),
               IF WITHIN_TAPPING_TERM(rec) THEN WithTap(rec) ELSE NoTapping,
               waiting_buffer, {rec})

\* the previous tap is released for the host before its key comes up
ForcedRelease(rec) ==
    [tapping_key EXCEPT !.pressed = FALSE, !.time = rec.time]

NextTapKey(rec) ==
    /\ Tapped /\ StartsTap(rec)
    /\ StartTapping(IF tapping_key.count > 1
                    THEN process_action(Track(kb, rec), ForcedRelease(rec))
                    ELSE Track(kb, rec), rec)

EventDuringTap(rec) ==
    /\ Tapped /\ ~OwnRelease(rec) /\ ~StartsTap(rec)
    /\ Consume(Act(rec), tapping_key, waiting_buffer, {rec})

-----------------------------------------------------------------------------
(* process_tapping: the tapping key was tapped and may be tapped again     *)

\* mutant: the four bits of tap.count are counted over
SequentialTap_NoLimit(rec) ==
    /\ IS_TAPPING_RELEASED /\ WITHIN_TAPPING_TERM(rec)
    /\ rec.pressed /\ IS_TAPPING_KEY(rec.key)
    /\ ~tapping_key.interrupted /\ tapping_key.count > 0
    /\ LET tap == [WithTap(rec) EXCEPT !.count = @ + 1]
       IN  Consume(Act(tap), tap, waiting_buffer, {tap})

SequentialTap(rec) ==
    /\ IS_TAPPING_RELEASED /\ WITHIN_TAPPING_TERM(rec)
    /\ rec.pressed /\ IS_TAPPING_KEY(rec.key)
    /\ ~tapping_key.interrupted /\ tapping_key.count > 0
    /\ LET tap == [WithTap(rec) EXCEPT !.count = IF @ < TapMax THEN @ + 1 ELSE @]
       IN  Consume(Act(tap), tap, waiting_buffer, {tap})

StartAgain(rec) ==
    /\ IS_TAPPING_RELEASED /\ WITHIN_TAPPING_TERM(rec)
    /\ rec.pressed /\ IS_TAPPING_KEY(rec.key)
    /\ tapping_key.interrupted \/ tapping_key.count = 0
    /\ Consume(kb, rec, waiting_buffer, {})

OtherTapKey(rec) ==
    /\ IS_TAPPING_RELEASED /\ WITHIN_TAPPING_TERM(rec)
    /\ StartsTap(rec) /\ ~IS_TAPPING_KEY(rec.key)
    /\ StartTapping(Track(kb, rec), rec)

EventAfterTap(rec) ==
    /\ IS_TAPPING_RELEASED /\ WITHIN_TAPPING_TERM(rec)
    /\ ~StartsTap(rec) /\ ~(rec.pressed /\ IS_TAPPING_KEY(rec.key))
    /\ Consume(Act(rec), [tapping_key EXCEPT !.interrupted = @ \/ rec.pressed],
               waiting_buffer, {rec})

TapExpires(rec) ==
    /\ IS_TAPPING_RELEASED /\ ~WITHIN_TAPPING_TERM(rec)
    /\ Keep(kb, NoTapping, rec, {})

-----------------------------------------------------------------------------
(* process_tapping: no tapping key                                         *)

PressTapKey(rec) ==
    /\ ~IS_TAPPING /\ StartsTap(rec)
    /\ StartTapping(Track(kb, rec), rec)

PlainEvent(rec) ==
    /\ ~IS_TAPPING /\ ~StartsTap(rec)
    /\ Consume(Act(rec), tapping_key, waiting_buffer, {rec})

process_tapping(rec) ==
    \/ FirstTap(rec)
    \/ RetainModifier(rec)
    \/ ReleaseAtOnce(rec)
    \/ WaitForDecision(rec)
    \/ Timeout(rec)
    \/ TapReleased(rec)
    \/ NextTapKey(rec)
    \/ EventDuringTap(rec)
    \/ SequentialTap(rec)
    \/ StartAgain(rec)
    \/ OtherTapKey(rec)
    \/ EventAfterTap(rec)
    \/ TapExpires(rec)
    \/ PressTapKey(rec)
    \/ PlainEvent(rec)

-----------------------------------------------------------------------------
(* keyboard_task *)

Event(key) ==
    /\ pc = "scan" /\ pos < key
    /\ changed # "before" /\ changed' = "now"
    /\ down' = IF key \in down THEN down \ {key} ELSE down \cup {key}
    /\ pos' = key
    /\ process_tapping(Record(key, key \in down', now))
    /\ UNCHANGED now

Tick ==
    /\ pc = "scan" /\ pos < TickPos
    /\ pos' = TickPos
    /\ process_tapping(TICK)
    /\ UNCHANGED <<down, now, changed>>

\* wait_ms at the end of the loop of the keyboard thread
Wait ==
    /\ pc = "scan" /\ pos = TickPos
    /\ pos' = 0
    /\ UNCHANGED <<down, pc, tapping_key, waiting_buffer, kb, settled, toggled>>

\* the next pass is still in the same step of time
WaitPass ==
    /\ Wait
    /\ changed' = (IF changed = "no" THEN "no" ELSE "before")
    /\ UNCHANGED now

WaitStep ==
    /\ Wait
    /\ changed' = "no"
    /\ now' = (now + 1) % (TimeMod - 1)

Drain ==
    /\ pc = "drain" /\ waiting_buffer # <<>>
    /\ process_tapping(waiting_buffer[1])
    /\ UNCHANGED <<down, pos, now, changed>>

Drained ==
    /\ pc = "drain" /\ waiting_buffer = <<>>
    /\ pc' = "scan"
    /\ UNCHANGED <<down, pos, now, changed, tapping_key, waiting_buffer, kb, settled, toggled>>

Next ==
    \/ \E key \in Keys : Event(key)
    \/ Tick
    \/ WaitPass
    \/ WaitStep
    \/ Drain
    \/ Drained

Spec == Init /\ [][Next]_vars

\* time passes, whatever the number of passes in a step of it
FairSpec ==
    /\ Spec
    /\ WF_vars(Tick) /\ SF_vars(WaitStep) /\ WF_vars(Drain) /\ WF_vars(Drained)

-----------------------------------------------------------------------------
Records == [key : Keys, pressed : BOOLEAN, time : 0 .. TimeMod-2,
            count : 0 .. TapMax, interrupted : BOOLEAN]

TypeOK ==
    /\ down \subseteq Keys
    /\ pos \in 0 .. TickPos
    /\ now \in 0 .. TimeMod-2
    /\ changed \in {"no", "now", "before"}
    /\ pc \in {"scan", "drain"}
    /\ tapping_key \in Records \cup {NoTapping}
    /\ Len(waiting_buffer) < WAITING_BUFFER_SIZE
    /\ \A i \in 1 .. Len(waiting_buffer) : waiting_buffer[i] \in Records
    /\ kb.real \subseteq Mods /\ kb.weak \subseteq Mods /\ kb.oneshot \subseteq Mods
    /\ kb.keys \subseteq KeyCodes
    /\ kb.layer \subseteq Layers /\ kb.deflt \subseteq Layers
    /\ kb.pressed \in [Keys -> Layers]
    /\ settled \in [Keys -> BOOLEAN] /\ toggled \in BOOLEAN

(* The events of a key in a sequence of records, in their order: the n-th  *)
(* is in the place that has n records of the key up to it.                 *)
Places(records, k) == {i \in 1 .. Len(records) : records[i].key = k}

Place(records, k, n) ==
    CHOOSE i \in Places(records, k) :
        Cardinality({j \in Places(records, k) : j <= i}) = n

EventsOf(records, k) ==
    [n \in 1 .. Cardinality(Places(records, k)) |-> records[Place(records, k, n)].pressed]

(* The events of a key that wait: its press while it is the undecided      *)
(* tapping key, then its records in the waiting buffer.                    *)
Waiting(k) ==
    (IF Undecided /\ IS_TAPPING_KEY(k) /\ ~settled[k] THEN <<TRUE>> ELSE <<>>)
        \o EventsOf(waiting_buffer, k)

EQ == INSTANCE EventQueue WITH Most <- 1, queue <- [k \in Keys |-> Waiting(k)]

(* No event of a key is lost, doubled or overtaken by another event of the *)
(* same key, on any way through process_tapping and the buffer.            *)
EventsInOrder == EQ!Spec

(* When all keys are up and nothing waits, no code, modifier or layer is   *)
(* left behind, here or in the last report the host was given; a toggle    *)
(* key leaves its layer or modifier on only after it was tapped            *)
(* TAPPING_TOGGLE times in a row.                                          *)
Quiet ==
    /\ pc = "scan" /\ down = {} /\ waiting_buffer = <<>> /\ ~IS_TAPPING_PRESSED

NothingStuck ==
    Quiet =>
        /\ kb.keys = {} /\ kb.weak = {}
        /\ ~toggled => kb.real = {} /\ kb.layer = {}
        /\ \A p \in Pages : kb.usage[p] = KC_NO
        /\ kb.host.keys = {} /\ kb.host.mods \subseteq kb.real \cup kb.oneshot

(* "Modifier should be retained till end of this tapping": while a tapping *)
(* key is undecided, a modifier that is down stays down for the host, also *)
(* when its key comes up.  Only a key that holds modifiers together with a *)
(* layer lets go of them at once.                                          *)
ModsRetained ==
    [][Undecided /\ Undecided' /\ tapping_key'.key = tapping_key.key
          => \/ kb.real \subseteq kb'.real
             \/ \E k \in Keys : /\ \E a \in ActionsOf(kb, k) : a.kind = "LAYER_MODS"
                               /\ settled'[k] # settled[k]]_vars

(* "record layer on where key is pressed": from the press of a key taking  *)
(* effect until its release has, the layer recorded for the key stays the  *)
(* same, so that the release undoes what the press did.                    *)
ReleaseOnPressLayer ==
    [][\A k \in Keys : settled[k] => kb'.pressed[k] = kb.pressed[k]]_vars

(* A one-shot modifier tapped while no key is reported waits for the next  *)
(* key and is reported with it; nothing else but its own key ends it.      *)
OneShotReachesKey ==
    [][kb.oneshot # {} /\ kb'.oneshot = {} /\ kb.keys = {} =>
          \/ kb'.keys # {} /\ kb.oneshot \subseteq kb'.host.mods
          \/ \E k \in Keys :
                HasTapCode(k, MODS_ONESHOT) /\ settled'[k] # settled[k]]_vars

(* A press that is not put into the buffer behind them does not pass       *)
(* presses of other keys that an earlier step saw and that still wait.     *)
NoOvertaking ==
    [][\A k \in Keys :
          /\ Event(k) /\ k \in down'
          /\ Len(waiting_buffer') = Len(waiting_buffer)
          => \A i \in 1 .. Len(waiting_buffer) :
                waiting_buffer[i].pressed => waiting_buffer[i].time = now]_vars

(* No event waits for ever: the first event of a key that waits takes      *)
(* effect (or the buffer is flushed), also when the typing never stops.    *)
EventuallySettled ==
    \A k \in Keys, v \in BOOLEAN :
        (Waiting(k) # <<>> /\ settled[k] # v) ~> (settled[k] = v \/ Waiting(k) = <<>>)
=============================================================================
