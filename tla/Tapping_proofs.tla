---------------------------- MODULE Tapping_proofs ----------------------------
(***************************************************************************)
(* The types of the tapping engine for every matrix, keymap, buffer size   *)
(* and tapping term: whatever process_tapping does with a record, and      *)
(* whatever process_action does with the keyboard, the waiting buffer      *)
(* stays within its array, tap.count within its four bits, a recorded      *)
(* layer is one that exists, and modifiers, codes and layers do not mix.   *)
(* Then, for the keymaps where it is true (RetainedKinds), that modifiers  *)
(* are retained while a tapping key is undecided, and, while one press of  *)
(* a tap key waits at most (OneTapWaits), that the events of each key take *)
(* effect in their order: the engine implements EventQueue.                *)
(***************************************************************************)
EXTENDS Tapping, SequenceTheorems, FiniteSetTheorems, WellFoundedInduction, TLAPS

Kb == [keymap : DOMAIN KeyMaps,
       real : SUBSET Mods, weak : SUBSET Mods, oneshot : SUBSET Mods,
       keys : SUBSET KeyCodes,
       layer : SUBSET Layers, deflt : SUBSET Layers,
       pressed : [Keys -> Layers],
       usage : [Pages -> Codes],
       host : [mods : SUBSET Mods, keys : SUBSET KeyCodes]]

-----------------------------------------------------------------------------
(* action_layer.c                                                          *)

(* Of some numbers one is the least, of some layers one the highest.       *)
LEMMA Least ==
    ASSUME NEW T, T # {}, \A y \in T : y \in Nat
    PROVE  \E x \in T : \A y \in T : x <= y
<1>1. \E x \in T : \A y \in T : ~(<<y, x>> \in OpToRel(<, Nat))
  BY WFMin, NatLessThanWellFounded
<1>2. PICK x \in T : \A y \in T : ~(<<y, x>> \in OpToRel(<, Nat))
  BY <1>1
<1>3. ASSUME NEW y \in T PROVE x <= y
  <2>1. x \in Nat /\ y \in Nat
    OBVIOUS
  <2>2. <<y, x>> \notin OpToRel(<, Nat)
    BY <1>2
  <2>3. y < x => <<y, x>> \in OpToRel(<, Nat)
    BY <2>1 DEF OpToRel
  <2>4. ~(y < x)
    BY <2>2, <2>3, Zenon
  <2> QED BY <2>1, <2>4
<1> QED BY <1>3

LEMMA Highest ==
    ASSUME NEW S \in SUBSET Layers, S # {}
    PROVE  \E i \in S : \A j \in S : j <= i
<1> DEFINE T == {TopLayer - i : i \in S}
<1>1. TopLayer \in Nat /\ \A i \in S : i \in 0 .. TopLayer
  BY ActionsAssumption DEF Layers
<1>2. \A y \in T : y \in Nat
  BY <1>1, SMT
<1>3. T # {}
  OBVIOUS
<1>4. PICK x \in T : \A y \in T : x <= y
  <2> HIDE DEF T
  <2> QED BY <1>2, <1>3, Least
<1>5. PICK i \in S : x = TopLayer - i
  OBVIOUS
<1>6. ASSUME NEW j \in S PROVE j <= i
  <2>1. TopLayer - i <= TopLayer - j
    BY <1>4, <1>5
  <2> QED BY <1>1, <2>1
<1> QED BY <1>6

LEMMA CurrentLayerType ==
    ASSUME NEW q \in Kb, NEW key PROVE current_layer_for_key(q, key) \in Layers
<1>1. Visible(q, key) \subseteq Layers
  BY DEF Visible, Kb
<1>2. 0 \in Layers
  BY ActionsAssumption DEF Layers
<1> QED BY <1>1, <1>2, Highest DEF current_layer_for_key

LEMMA TrackType ==
    ASSUME NEW q \in Kb, NEW rec, rec.key \in Keys
    PROVE  Track(q, rec) \in Kb
<1>1. current_layer_for_key(q, rec.key) \in Layers
  BY CurrentLayerType
<1> QED BY <1>1 DEF Track, Kb

LEMMA GetActionType ==
    ASSUME NEW q \in Kb, NEW rec, rec.key \in Keys
    PROVE  layer_switch_get_action(q, rec) \in Actions
<1>1. Track(q, rec) \in Kb
  BY TrackType
<1>2. Track(q, rec).pressed[rec.key] \in Layers /\ q.keymap \in DOMAIN KeyMaps
  BY <1>1 DEF Kb
<1> QED BY <1>2, KeyMapsAssumption DEF layer_switch_get_action, action_for_key

-----------------------------------------------------------------------------
(* action_util.c, host.c and the registers of action.c                     *)

LEMMA SendType ==
    ASSUME NEW q \in Kb PROVE send_keyboard_report(q) \in Kb
BY DEF send_keyboard_report, Kb

LEMMA RegisterModsType ==
    ASSUME NEW q \in Kb, NEW mods \in SUBSET Mods
    PROVE  register_mods(q, mods) \in Kb /\ unregister_mods(q, mods) \in Kb
<1>1. [q EXCEPT !.real = @ \cup mods] \in Kb /\ [q EXCEPT !.real = @ \ mods] \in Kb
  BY DEF Kb
<1> QED BY <1>1, SendType DEF register_mods, unregister_mods

LEMMA HostSendType ==
    ASSUME NEW q \in Kb, NEW page \in Pages, NEW code \in Codes
    PROVE  host_send(q, page, code) \in Kb
<1>1. [q.usage EXCEPT ![page] = code] \in [Pages -> Codes]
  BY DEF Kb
<1> QED BY <1>1 DEF host_send, Kb

LEMMA RegisterCodeType ==
    ASSUME NEW q \in Kb, NEW code
    PROVE  register_code(q, code) \in Kb /\ unregister_code(q, code) \in Kb
<1>kinds. /\ code \in KeyCodes => code \notin Mods /\ ~IsUsage(code)
          /\ code \in Mods => ~IsUsage(code)
  BY ActionsAssumption DEF IsUsage, Pages
<1>1. CASE code \in KeyCodes
  <2>1. [q EXCEPT !.keys = @ \cup {code}] \in Kb /\ [q EXCEPT !.keys = @ \ {code}] \in Kb
    BY <1>1 DEF Kb
  <2> QED BY <1>kinds, <1>1, <2>1, SendType DEF register_code, unregister_code
<1>2. CASE code \in Mods /\ code \notin KeyCodes
  <2>1. [q EXCEPT !.real = @ \cup {code}] \in Kb /\ [q EXCEPT !.real = @ \ {code}] \in Kb
    BY <1>2 DEF Kb
  <2> QED BY <1>kinds, <1>2, <2>1, SendType DEF register_code, unregister_code
<1>3. CASE code \notin KeyCodes \cup Mods /\ IsUsage(code)
  <2>1. PageOf(code) \in Pages /\ code \in Codes /\ KC_NO \in Codes
    BY <1>3 DEF IsUsage, PageOf, Pages, Codes
  <2> QED BY <1>3, <2>1, HostSendType DEF register_code, unregister_code
<1>4. CASE code \notin KeyCodes \cup Mods /\ ~IsUsage(code)
  BY <1>4 DEF register_code, unregister_code
<1> QED BY <1>1, <1>2, <1>3, <1>4

LEMMA ClearType ==
    ASSUME NEW q \in Kb PROVE clear_keyboard(q) \in Kb
<1>1. [q EXCEPT !.real = {}, !.weak = {}, !.keys = {}] \in Kb
  BY DEF Kb
<1>2. [p \in Pages |-> KC_NO] \in [Pages -> Codes]
  BY DEF Codes
<1> QED BY <1>1, <1>2, SendType DEF clear_keyboard, Kb

LEMMA LayerOpsType ==
    ASSUME NEW q \in Kb, NEW val \in Layers
    PROVE  /\ layer_on(q, val) \in Kb /\ layer_off(q, val) \in Kb
           /\ layer_invert(q, val) \in Kb /\ layer_move(q, val) \in Kb
           /\ layer_clear(q) \in Kb
BY DEF layer_on, layer_off, layer_invert, layer_move, layer_clear, Kb

-----------------------------------------------------------------------------
(* process_action, by kind of action                                       *)

(* The fields of an action, by its kind.                                   *)
LEMMA ActionFields ==
    ASSUME NEW a \in Actions
    PROVE  /\ a.kind \in {"MODS", "MODS_TAP", "LAYER_MODS"} => a.mods \in SUBSET Mods
           /\ a.kind = "USAGE" => a.page \in Pages /\ a.code \in Codes
           /\ a.kind = "LAYER" =>
                 /\ a.op \in {"AND", "OR", "XOR", "SET"}
                 /\ a.bits \in SUBSET Layers /\ a.mask \in SUBSET Layers
           /\ a.kind \in {"LAYER_TAP", "LAYER_MODS"} => a.val \in Layers
BY DEF Actions, Transparent

LEMMA ModsType ==
    ASSUME NEW q \in Kb, NEW a, a.mods \in SUBSET Mods, NEW pressed
    PROVE  ProcessMods(q, a, pressed) \in Kb
<1> DEFINE released == unregister_code(q, a.code)
<1>1. released \in Kb
  BY RegisterCodeType
<1> HIDE DEF released
<1>2. /\ [q EXCEPT !.weak = @ \cup a.mods] \in Kb
      /\ [released EXCEPT !.weak = @ \ a.mods] \in Kb
  BY <1>1 DEF Kb
<1>3. /\ send_keyboard_report([q EXCEPT !.weak = @ \cup a.mods]) \in Kb
      /\ send_keyboard_report([released EXCEPT !.weak = @ \ a.mods]) \in Kb
  BY <1>2, SendType
<1> QED BY <1>1, <1>3, RegisterCodeType DEF ProcessMods, released

LEMMA OneShotType ==
    ASSUME NEW q \in Kb, NEW mods \in SUBSET Mods, NEW rec, rec.pressed \in BOOLEAN
    PROVE  ProcessOneShot(q, mods, rec) \in Kb
<1>1. [q EXCEPT !.oneshot = mods] \in Kb /\ [q EXCEPT !.oneshot = {}] \in Kb
  BY DEF Kb
<1>2. /\ register_mods(q, mods) \in Kb
      /\ unregister_mods([q EXCEPT !.oneshot = {}], mods) \in Kb
  BY <1>1, RegisterModsType
<1> QED BY <1>1, <1>2 DEF ProcessOneShot

LEMMA TapToggleType ==
    ASSUME NEW q \in Kb, NEW mods \in SUBSET Mods, NEW rec
    PROVE  ProcessTapToggle(q, mods, rec) \in Kb
BY RegisterModsType, Zenon DEF ProcessTapToggle

LEMMA ModsTapType ==
    ASSUME NEW q \in Kb, NEW a, a.mods \in SUBSET Mods, NEW rec,
           rec.pressed \in BOOLEAN, rec.interrupted \in BOOLEAN, rec.count \in Nat
    PROVE  ProcessModsTap(q, a, rec) \in Kb
<1>1. /\ register_code(q, a.code) \in Kb /\ unregister_code(q, a.code) \in Kb
      /\ register_mods(q, a.mods) \in Kb /\ unregister_mods(q, a.mods) \in Kb
  BY RegisterCodeType, RegisterModsType
<1> QED BY <1>1 DEF ProcessModsTap

LEMMA LayerType ==
    ASSUME NEW q \in Kb, NEW a \in Actions, a.kind = "LAYER", NEW pressed
    PROVE  ProcessLayer(q, a, pressed) \in Kb
<1>1. /\ a.op \in {"AND", "OR", "XOR", "SET"}
      /\ a.bits \in SUBSET Layers /\ a.mask \in SUBSET Layers
  BY ActionFields
<1>2. \A state \in SUBSET Layers : BitOp(state, a.op, a.bits, a.mask) \in SUBSET Layers
  BY <1>1 DEF BitOp
<1>3. q.layer \in SUBSET Layers /\ q.deflt \in SUBSET Layers
  BY DEF Kb
<1>4. /\ BitOp(q.deflt, a.op, a.bits, a.mask) \in SUBSET Layers
      /\ BitOp(q.layer, a.op, a.bits, a.mask) \in SUBSET Layers
  BY <1>2, <1>3
<1> QED BY <1>4 DEF ProcessLayer, Kb

LEMMA LayerTapType ==
    ASSUME NEW q \in Kb, NEW a, a.val \in Layers, NEW rec,
           rec.pressed \in BOOLEAN, rec.count \in Nat
    PROVE  ProcessLayerTap(q, a, rec) \in Kb
<1>1. /\ register_code(q, a.code) \in Kb /\ unregister_code(q, a.code) \in Kb
      /\ layer_on(q, a.val) \in Kb /\ layer_off(q, a.val) \in Kb
      /\ layer_invert(q, a.val) \in Kb /\ layer_move(q, a.val) \in Kb
      /\ layer_clear(q) \in Kb
  BY RegisterCodeType, LayerOpsType
<1>2. CASE a.code \in LayerModes
  BY <1>1, <1>2 DEF ProcessLayerTap, LayerModes, OP_TAP_TOGGLE, OP_ON_OFF, OP_OFF_ON,
     OP_SET_CLEAR
<1>3. CASE a.code \notin LayerModes
  BY <1>1, <1>3 DEF ProcessLayerTap, LayerModes, OP_TAP_TOGGLE, OP_ON_OFF, OP_OFF_ON,
     OP_SET_CLEAR
<1> QED BY <1>2, <1>3

LEMMA LayerModsType ==
    ASSUME NEW q \in Kb, NEW a, a.val \in Layers, a.mods \in SUBSET Mods, NEW pressed
    PROVE  ProcessLayerMods(q, a, pressed) \in Kb
BY LayerOpsType, RegisterModsType DEF ProcessLayerMods

(* Whatever the action of a key is, the keyboard keeps its types.          *)
LEMMA ProcessActionType ==
    ASSUME NEW q \in Kb, NEW rec \in Records
    PROVE  process_action(q, rec) \in Kb
<1> DEFINE a == layer_switch_get_action(q, rec)
           t == Track(q, rec)
<1>1. /\ rec.key \in Keys /\ rec.pressed \in BOOLEAN /\ rec.interrupted \in BOOLEAN
      /\ rec.count \in Nat
  BY TappingAssumption DEF Records
<1>2. a \in Actions /\ t \in Kb
  BY <1>1, GetActionType, TrackType
<1> HIDE DEF a, t
<1>3. CASE a.kind = "MODS"
  BY <1>2, <1>3, ActionFields, ModsType DEF process_action, a, t
<1>4. CASE a.kind = "MODS_TAP"
  <2>1. /\ ProcessOneShot(t, a.mods, rec) \in Kb
        /\ ProcessTapToggle(t, a.mods, rec) \in Kb
        /\ ProcessModsTap(t, a, rec) \in Kb
    BY <1>1, <1>2, <1>4, ActionFields, OneShotType, TapToggleType, ModsTapType
  <2> QED BY <1>4, <2>1 DEF process_action, a, t, MODS_ONESHOT, MODS_TAP_TOGGLE
<1>5. CASE a.kind = "USAGE"
  <2>1. \A code \in Codes : host_send(t, a.page, code) \in Kb
    BY <1>2, <1>5, ActionFields, HostSendType
  <2>2. a.code \in Codes /\ KC_NO \in Codes
    BY <1>2, <1>5, ActionFields DEF Codes
  <2> QED BY <1>5, <2>1, <2>2 DEF process_action, a, t
<1>6. CASE a.kind = "LAYER"
  BY <1>2, <1>6, LayerType DEF process_action, a, t
<1>7. CASE a.kind = "LAYER_TAP"
  BY <1>1, <1>2, <1>7, ActionFields, LayerTapType DEF process_action, a, t
<1>8. CASE a.kind = "LAYER_MODS"
  BY <1>2, <1>8, ActionFields, LayerModsType DEF process_action, a, t
<1>9. CASE a.kind \notin {"MODS", "MODS_TAP", "USAGE", "LAYER", "LAYER_TAP", "LAYER_MODS"}
  BY <1>2, <1>9 DEF process_action, a, t
<1> QED BY <1>3, <1>4, <1>5, <1>6, <1>7, <1>8, <1>9

-----------------------------------------------------------------------------
(* The outcomes of process_tapping                                         *)

Tappings == Records \cup {NoTapping}

Engine ==
    /\ pc \in {"scan", "drain"}
    /\ tapping_key \in Tappings
    /\ waiting_buffer \in Seq(Records)
    /\ Len(waiting_buffer) < WAITING_BUFFER_SIZE
    /\ kb \in Kb
    /\ settled \in [Keys -> BOOLEAN] /\ toggled \in BOOLEAN

(* What process_tapping is called with: the TICK never comes from the      *)
(* buffer, which is not empty when it is drained.                          *)
Given(rec) ==
    /\ rec \in Records \/ (rec.key = NOEVENT /\ rec.pressed = FALSE /\ pc = "scan")
    /\ pc = "drain" => waiting_buffer # <<>>

LEMMA GivenEvent ==
    ASSUME NEW rec, Given(rec), rec.key # NOEVENT PROVE rec \in Records
BY DEF Given

LEMMA RecordFields ==
    ASSUME NEW rec \in Records
    PROVE  /\ rec.key \in Keys /\ rec.key # NOEVENT /\ rec.pressed \in BOOLEAN
           /\ [rec EXCEPT !.count = 1] \in Records
BY TappingAssumption DEF Records, Keys, NOEVENT

LEMMA SettleType ==
    ASSUME Engine, NEW done, Settle(done),
           \A r \in done : r \in Records \/ r.key = NOEVENT
    PROVE  settled' \in [Keys -> BOOLEAN] /\ toggled' \in BOOLEAN
<1>1. ASSUME NEW k \in Keys, \E r \in done : r.key = k
      PROVE (CHOOSE r \in done : r.key = k).pressed \in BOOLEAN
  <2>1. PICK r \in done : r = (CHOOSE rr \in done : rr.key = k) /\ r.key = k
    BY <1>1
  <2>2. k # NOEVENT
    BY DEF Keys, NOEVENT
  <2> QED BY <2>1, <2>2, RecordFields
<1> QED BY <1>1 DEF Settle, Engine

LEMMA ConsumeType ==
    ASSUME Engine, pc = "drain" => waiting_buffer # <<>>,
           NEW newKb \in Kb, NEW tapping \in Tappings, NEW buffer \in Seq(Records),
           Len(buffer) = Len(waiting_buffer),
           NEW done, \A r \in done : r \in Records \/ r.key = NOEVENT,
           Consume(newKb, tapping, buffer, done)
    PROVE  Engine'
<1>1. settled' \in [Keys -> BOOLEAN] /\ toggled' \in BOOLEAN
  BY SettleType DEF Consume
<1>2. CASE pc = "drain"
  <2>1. waiting_buffer # <<>> /\ waiting_buffer \in Seq(Records)
    BY <1>2 DEF Engine
  <2>2. Len(waiting_buffer) \in Nat \ {0}
    BY <2>1, EmptySeq
  <2>3. buffer # <<>>
    BY <2>2
  <2>4. Tail(buffer) \in Seq(Records) /\ Len(Tail(buffer)) = Len(buffer) - 1
    BY <2>3, HeadTailProperties
  <2>5. Len(Tail(buffer)) < WAITING_BUFFER_SIZE
    BY <2>2, <2>4, TappingAssumption DEF Engine
  <2> QED BY <1>1, <1>2, <2>4, <2>5 DEF Consume, Engine
<1>3. CASE pc # "drain"
  BY <1>1, <1>3 DEF Consume, Engine
<1> QED BY <1>2, <1>3

LEMMA KeepType ==
    ASSUME Engine, NEW rec, Given(rec),
           NEW newKb \in Kb, NEW tapping \in Tappings,
           NEW done, \A r \in done : r \in Records \/ r.key = NOEVENT,
           Keep(newKb, tapping, rec, done)
    PROVE  Engine'
<1>1. CASE pc = "drain"
  <2>1. rec \in Records /\ waiting_buffer # <<>> /\ waiting_buffer \in Seq(Records)
    BY <1>1 DEF Given, Engine
  <2>2. 1 \in 1 .. Len(waiting_buffer)
    BY <2>1, EmptySeq
  <2>3. /\ [waiting_buffer EXCEPT ![1] = rec] \in Seq(Records)
        /\ Len([waiting_buffer EXCEPT ![1] = rec]) = Len(waiting_buffer)
    BY <2>1, <2>2, ExceptSeq
  <2>4. settled' \in [Keys -> BOOLEAN] /\ toggled' \in BOOLEAN
    BY <1>1, SettleType DEF Keep
  <2> QED BY <1>1, <2>3, <2>4 DEF Keep, Engine
<1>2. CASE pc = "scan" /\ (rec.key = NOEVENT \/ ~IsFull)
  <2>1. settled' \in [Keys -> BOOLEAN] /\ toggled' \in BOOLEAN
    BY <1>2, SettleType DEF Keep
  <2>2. CASE rec.key = NOEVENT
    BY <1>2, <2>1, <2>2 DEF Keep, Engine
  <2>3. CASE rec.key # NOEVENT
    <3>1. rec \in Records /\ waiting_buffer \in Seq(Records)
      BY <2>3, GivenEvent DEF Engine
    <3>2. /\ Append(waiting_buffer, rec) \in Seq(Records)
          /\ Len(Append(waiting_buffer, rec)) = Len(waiting_buffer) + 1
      BY <3>1, AppendProperties
    <3>3. Len(waiting_buffer) + 1 < WAITING_BUFFER_SIZE
      <4>1. Len(waiting_buffer) \in Nat
        BY <3>1, LenProperties
      <4> QED BY <1>2, <2>3, <4>1, TappingAssumption DEF IsFull, Engine
    <3> QED BY <1>2, <2>1, <2>3, <3>2, <3>3 DEF Keep, Engine
  <2> QED BY <2>2, <2>3
<1>3. CASE pc = "scan" /\ rec.key # NOEVENT /\ IsFull
  <2>1. clear_keyboard(newKb) \in Kb
    BY ClearType
  <2>2. <<>> \in Seq(Records) /\ Len(<<>>) = 0
    BY EmptySeq
  <2>3. [k \in Keys |-> k \in down'] \in [Keys -> BOOLEAN]
    OBVIOUS
  <2>4. /\ waiting_buffer' = <<>> /\ pc' = "drain" /\ kb' = clear_keyboard(newKb)
        /\ tapping_key' = NoTapping /\ toggled' = toggled
        /\ settled' = [k \in Keys |-> k \in down']
    BY <1>3 DEF Keep
  <2>5. NoTapping \in Tappings /\ toggled \in BOOLEAN
    BY DEF Tappings, Engine
  <2>6. settled' \in [Keys -> BOOLEAN]
    BY <2>3, <2>4
  <2>7. Len(waiting_buffer') = 0 /\ waiting_buffer' \in Seq(Records)
    BY <2>2, <2>4
  <2>8. tapping_key' \in Tappings'
    BY <2>4, <2>5 DEF Tappings, NoTapping, Record
  <2> QED BY <2>1, <2>4, <2>5, <2>6, <2>7, <2>8, TappingAssumption DEF Engine
<1> QED BY <1>1, <1>2, <1>3 DEF Engine

-----------------------------------------------------------------------------
(* The branches of process_tapping                                         *)

LEMMA ActType ==
    ASSUME Engine, NEW rec, rec \in Records \/ rec.key = NOEVENT
    PROVE  Act(rec) \in Kb
BY ProcessActionType DEF Act, Engine

LEMMA TappingKey ==
    ASSUME Engine, IS_TAPPING PROVE tapping_key \in Records
BY DEF Engine, Tappings, IS_TAPPING, NoTapping, Record

LEMMA WithTapType ==
    ASSUME Engine, IS_TAPPING, NEW rec \in Records
    PROVE  WithTap(rec) \in Records
BY TappingKey DEF WithTap, Records

LEMMA StartTappingType ==
    ASSUME Engine, NEW rec \in Records, NEW before \in Kb,
           pc = "drain" => waiting_buffer # <<>>,
           StartTapping(before, rec)
    PROVE  Engine'
<1>0. waiting_buffer \in Seq(Records) /\ rec \in Tappings
  BY DEF Engine, Tappings
<1>1. CASE Consume(before, rec, waiting_buffer, {})
  BY <1>0, <1>1, ConsumeType
<1>2. CASE ~Consume(before, rec, waiting_buffer, {})
  <2> DEFINE i == CHOOSE i \in TapRelease(rec) : \A j \in TapRelease(rec) : i <= j
             tap == [rec EXCEPT !.count = 1]
             buffer == [waiting_buffer EXCEPT ![i].count = 1]
  <2>1. /\ TapRelease(rec) # {}
        /\ Consume(process_action(before, tap), tap, buffer, {rec})
    BY <1>2 DEF StartTapping
  <2>2. i \in TapRelease(rec)
    <3>1. \A y \in TapRelease(rec) : y \in Nat
      BY DEF TapRelease
    <3> QED BY <2>1, <3>1, Least
  <2>3. i \in 1 .. Len(waiting_buffer)
    BY <2>2 DEF TapRelease
  <2> HIDE DEF i
  <2>4. waiting_buffer[i] \in Records
    BY <1>0, <2>3, ElementOfSeq
  <2>5. buffer \in Seq(Records) /\ Len(buffer) = Len(waiting_buffer)
    <3>1. [waiting_buffer[i] EXCEPT !.count = 1] \in Records
      BY <2>4, RecordFields
    <3> QED BY <1>0, <2>3, <3>1, ExceptSeq
  <2>6. tap \in Records /\ tap \in Tappings
    BY RecordFields DEF Tappings
  <2> HIDE DEF tap, buffer
  <2>7. process_action(before, tap) \in Kb
    BY <2>6, ProcessActionType
  <2> QED BY <2>1, <2>5, <2>6, <2>7, ConsumeType
<1> QED BY <1>1, <1>2

LEMMA UndecidedType ==
    ASSUME Engine, NEW rec, Given(rec),
           \/ FirstTap(rec) \/ RetainModifier(rec) \/ ReleaseAtOnce(rec)
           \/ WaitForDecision(rec) \/ Timeout(rec)
    PROVE  Engine'
<1>0. tapping_key \in Records /\ tapping_key.key # NOEVENT
  BY TappingKey DEF FirstTap, RetainModifier, ReleaseAtOnce, WaitForDecision, Timeout,
     OtherRelease, Undecided, IS_TAPPING_PRESSED, IS_TAPPING
<1>1. CASE FirstTap(rec)
  <2> DEFINE tap == [tapping_key EXCEPT !.count = 1]
             t == Decided(tap)
             kept == [rec EXCEPT !.count = t.count, !.interrupted = t.interrupted]
  <2>1. rec \in Records
    <3>1. rec.key # NOEVENT
      BY <1>0, <1>1 DEF FirstTap, OwnRelease, IS_TAPPING_KEY
    <3> QED BY <3>1, GivenEvent
  <2>2. tap \in Records
    BY <1>0, RecordFields
  <2> HIDE DEF tap
  <2>3. t \in Records /\ t \in Tappings
    BY <2>2, TappingAssumption DEF Decided, Records, Tappings
  <2>4. kept \in Records
    BY <2>1, <2>3 DEF Records
  <2> HIDE DEF t, kept
  <2>5. Keep(Act(tap), t, kept, {tap})
    BY <1>1 DEF FirstTap, tap, t, kept
  <2>6. Act(tap) \in Kb
    BY <2>2, ActType
  <2>7. Given(kept)
    BY <2>4 DEF Given
  <2> QED BY <2>2, <2>3, <2>5, <2>6, <2>7, KeepType
<1>2. CASE RetainModifier(rec)
  BY <1>2, KeepType DEF RetainModifier, Engine
<1>3. CASE ReleaseAtOnce(rec)
  <2>1. rec \in Records
    BY <1>3, GivenEvent DEF ReleaseAtOnce, OtherRelease
  <2>2. Act(rec) \in Kb
    BY <2>1, ActType
  <2>3. Consume(Act(rec), tapping_key, waiting_buffer, {rec})
    BY <1>3 DEF ReleaseAtOnce
  <2> QED BY <2>1, <2>2, <2>3, ConsumeType DEF Engine, Given
<1>4. CASE WaitForDecision(rec)
  <2> DEFINE t == [tapping_key EXCEPT !.interrupted = @ \/ rec.pressed]
  <2>1. t \in Tappings
    BY <1>0 DEF Records, Tappings
  <2>2. Keep(kb, t, rec, {})
    BY <1>4 DEF WaitForDecision
  <2> HIDE DEF t
  <2> QED BY <2>1, <2>2, KeepType DEF Engine
<1>5. CASE Timeout(rec)
  <2>1. Act(tapping_key) \in Kb
    BY <1>0, ActType
  <2>2. Keep(Act(tapping_key), NoTapping, rec, {tapping_key})
    BY <1>5 DEF Timeout
  <2>3. NoTapping \in Tappings
    BY DEF Tappings
  <2> QED BY <1>0, <2>1, <2>2, <2>3, KeepType
<1> QED BY <1>1, <1>2, <1>3, <1>4, <1>5

LEMMA TappedType ==
    ASSUME Engine, NEW rec, Given(rec),
           TapReleased(rec) \/ NextTapKey(rec) \/ EventDuringTap(rec)
    PROVE  Engine'
<1>0. IS_TAPPING /\ tapping_key \in Records /\ tapping_key.key # NOEVENT
  BY TappingKey DEF TapReleased, NextTapKey, EventDuringTap, Tapped, IS_TAPPING_PRESSED,
     IS_TAPPING
<1>1. CASE TapReleased(rec)
  <2> DEFINE t == IF WITHIN_TAPPING_TERM(rec) THEN WithTap(rec) ELSE NoTapping
  <2>1. rec \in Records
    <3>1. rec.key # NOEVENT
      BY <1>0, <1>1 DEF TapReleased, OwnRelease, IS_TAPPING_KEY
    <3> QED BY <3>1, GivenEvent
  <2>2. WithTap(rec) \in Records
    BY <1>0, <2>1, WithTapType
  <2>3. Act(WithTap(rec)) \in Kb /\ t \in Tappings
    BY <2>2, ActType DEF Tappings
  <2>4. Consume(Act(WithTap(rec)), t, waiting_buffer, {rec})
    BY <1>1 DEF TapReleased
  <2> HIDE DEF t
  <2> QED BY <2>1, <2>3, <2>4, ConsumeType DEF Engine, Given
<1>2. CASE NextTapKey(rec)
  <2> DEFINE before == IF tapping_key.count > 1
                       THEN process_action(Track(kb, rec), ForcedRelease(rec))
                       ELSE Track(kb, rec)
  <2>1. rec \in Records
    BY <1>2, GivenEvent DEF NextTapKey, StartsTap
  <2>2. Track(kb, rec) \in Kb
    BY <2>1, RecordFields, TrackType DEF Engine
  <2>3. ForcedRelease(rec) \in Records
    BY <1>0, <2>1 DEF ForcedRelease, Records
  <2>4. before \in Kb
    BY <2>2, <2>3, ProcessActionType
  <2>5. StartTapping(before, rec)
    BY <1>2 DEF NextTapKey
  <2> HIDE DEF before
  <2> QED BY <2>1, <2>4, <2>5, StartTappingType DEF Given
<1>3. CASE EventDuringTap(rec)
  <2>1. Act(rec) \in Kb
    BY ActType DEF Given
  <2>2. Consume(Act(rec), tapping_key, waiting_buffer, {rec})
    BY <1>3 DEF EventDuringTap
  <2> QED BY <2>1, <2>2, ConsumeType DEF Engine, Given
<1> QED BY <1>1, <1>2, <1>3

LEMMA AfterTapType ==
    ASSUME Engine, NEW rec, Given(rec),
           \/ SequentialTap(rec) \/ StartAgain(rec) \/ OtherTapKey(rec)
           \/ EventAfterTap(rec) \/ TapExpires(rec)
    PROVE  Engine'
<1>0. IS_TAPPING /\ tapping_key \in Records /\ tapping_key.key # NOEVENT
  BY TappingKey DEF SequentialTap, StartAgain, OtherTapKey, EventAfterTap, TapExpires,
     IS_TAPPING_RELEASED, IS_TAPPING
<1>1. CASE SequentialTap(rec)
  <2> DEFINE tap == [WithTap(rec) EXCEPT !.count = IF @ < TapMax THEN @ + 1 ELSE @]
  <2>1. rec \in Records
    <3>1. rec.key # NOEVENT
      BY <1>0, <1>1 DEF SequentialTap, IS_TAPPING_KEY
    <3> QED BY <3>1, GivenEvent
  <2>2. WithTap(rec) \in Records
    BY <1>0, <2>1, WithTapType
  <2>3. tap \in Records /\ tap \in Tappings
    BY <2>2, TappingAssumption DEF Records, Tappings
  <2>4. Consume(Act(tap), tap, waiting_buffer, {tap})
    BY <1>1 DEF SequentialTap
  <2> HIDE DEF tap
  <2>5. Act(tap) \in Kb
    BY <2>3, ActType
  <2> QED BY <2>3, <2>4, <2>5, ConsumeType DEF Engine, Given
<1>2. CASE StartAgain(rec)
  <2>1. rec \in Records
    <3>1. rec.key # NOEVENT
      BY <1>0, <1>2 DEF StartAgain, IS_TAPPING_KEY
    <3> QED BY <3>1, GivenEvent
  <2>2. rec \in Tappings
    BY <2>1 DEF Tappings
  <2> QED BY <1>2, <2>2, ConsumeType DEF StartAgain, Engine, Given
<1>3. CASE OtherTapKey(rec)
  <2>1. rec \in Records
    BY <1>3, GivenEvent DEF OtherTapKey, StartsTap
  <2>2. Track(kb, rec) \in Kb
    BY <2>1, RecordFields, TrackType DEF Engine
  <2> QED BY <1>3, <2>1, <2>2, StartTappingType DEF OtherTapKey, Given
<1>4. CASE EventAfterTap(rec)
  <2> DEFINE t == [tapping_key EXCEPT !.interrupted = @ \/ rec.pressed]
  <2>1. Act(rec) \in Kb
    BY ActType DEF Given
  <2>2. t \in Tappings
    BY <1>0 DEF Records, Tappings
  <2>3. Consume(Act(rec), t, waiting_buffer, {rec})
    BY <1>4 DEF EventAfterTap
  <2> HIDE DEF t
  <2> QED BY <2>1, <2>2, <2>3, ConsumeType DEF Engine, Given
<1>5. CASE TapExpires(rec)
  <2>1. Keep(kb, NoTapping, rec, {}) /\ NoTapping \in Tappings /\ kb \in Kb
    BY <1>5 DEF TapExpires, Tappings, Engine
  <2> QED BY <2>1, KeepType
<1> QED BY <1>1, <1>2, <1>3, <1>4, <1>5

LEMMA NoTappingType ==
    ASSUME Engine, NEW rec, Given(rec), PressTapKey(rec) \/ PlainEvent(rec)
    PROVE  Engine'
<1>1. CASE PressTapKey(rec)
  <2>1. rec \in Records
    BY <1>1, GivenEvent DEF PressTapKey, StartsTap
  <2>2. Track(kb, rec) \in Kb
    BY <2>1, RecordFields, TrackType DEF Engine
  <2> QED BY <1>1, <2>1, <2>2, StartTappingType DEF PressTapKey, Given
<1>2. CASE PlainEvent(rec)
  <2>1. Act(rec) \in Kb
    BY ActType DEF Given
  <2>2. Consume(Act(rec), tapping_key, waiting_buffer, {rec})
    BY <1>2 DEF PlainEvent
  <2> QED BY <2>1, <2>2, ConsumeType DEF Engine, Given
<1> QED BY <1>1, <1>2

LEMMA ProcessTappingType ==
    ASSUME Engine, NEW rec, Given(rec), process_tapping(rec)
    PROVE  Engine'
BY UndecidedType, TappedType, AfterTapType, NoTappingType DEF process_tapping

-----------------------------------------------------------------------------
Inv ==
    /\ down \subseteq Keys
    /\ pos \in 0 .. TickPos
    /\ now \in 0 .. TimeMod-2
    /\ changed \in {"no", "now", "before"}
    /\ Engine

LEMMA InvInit == Init => Inv
<1> SUFFICES ASSUME Init PROVE Inv
  OBVIOUS
<1>1. PICK name \in DOMAIN KeyMaps : kb = InitKb(name)
  BY DEF Init
<1>2. InitKb(name) \in Kb
  BY ActionsAssumption DEF InitKb, Kb, Layers, Codes
<1>3. waiting_buffer \in Seq(Records) /\ Len(waiting_buffer) = 0
  BY EmptySeq DEF Init
<1>4. tapping_key \in Tappings
  BY DEF Init, Tappings
<1>5. 0 \in 0 .. TickPos /\ 0 \in 0 .. TimeMod-2
  BY ActionsAssumption, TappingAssumption DEF TickPos
<1>6. settled \in [Keys -> BOOLEAN] /\ toggled \in BOOLEAN /\ kb \in Kb
  BY <1>1, <1>2 DEF Init
<1>7. Len(waiting_buffer) < WAITING_BUFFER_SIZE /\ pc \in {"scan", "drain"}
  BY <1>3, TappingAssumption DEF Init
<1>8. /\ down \subseteq Keys /\ pos \in 0 .. TickPos /\ now \in 0 .. TimeMod-2
      /\ changed \in {"no", "now", "before"}
  BY <1>5 DEF Init
<1> QED BY <1>3, <1>4, <1>6, <1>7, <1>8 DEF Inv, Engine

LEMMA InvStep == Inv /\ [Next]_vars => Inv'
<1> SUFFICES ASSUME Inv, [Next]_vars PROVE Inv'
  OBVIOUS
<1>0. Engine
  BY DEF Inv
<1>1. ASSUME NEW key \in Keys, Event(key) PROVE Inv'
  <2> DEFINE rec == Record(key, key \in down', now)
  <2>1. process_tapping(rec) /\ pc = "scan"
    BY <1>1 DEF Event
  <2>2. rec \in Records
    <3>1. (key \in down') \in BOOLEAN
      OBVIOUS
    <3> QED BY <3>1, TappingAssumption DEF Record, Records, Inv
  <2> HIDE DEF rec
  <2>4. Given(rec)
    BY <2>1, <2>2 DEF Given
  <2>5. Engine'
    BY <1>0, <2>1, <2>4, ProcessTappingType
  <2>6. down' \subseteq Keys /\ pos' \in 0 .. TickPos /\ now' = now /\ changed' = "now"
    BY <1>1, ActionsAssumption DEF Event, Inv, Keys, TickPos
  <2> QED BY <2>5, <2>6 DEF Inv
<1>2. CASE Tick
  <2>1. process_tapping(TICK) /\ pc = "scan"
    BY <1>2 DEF Tick
  <2>2. Given(TICK)
    BY <2>1 DEF Given, TICK, Record
  <2>3. Engine'
    BY <1>0, <2>1, <2>2, ProcessTappingType
  <2>4. pos' \in 0 .. TickPos
    BY <1>2, ActionsAssumption DEF Tick, TickPos
  <2> QED BY <1>2, <2>3, <2>4 DEF Tick, Inv
<1>3. CASE WaitPass \/ WaitStep
  <2>1. now' \in 0 .. TimeMod-2 /\ pos' \in 0 .. TickPos
    BY <1>3, ActionsAssumption, TappingAssumption DEF WaitPass, WaitStep, Wait, Inv, TickPos
  <2>2. changed' \in {"no", "now", "before"}
    BY <1>3 DEF WaitPass, WaitStep
  <2> QED BY <1>3, <2>1, <2>2 DEF WaitPass, WaitStep, Wait, Inv, Engine
<1>4. CASE Drain
  <2>1. process_tapping(waiting_buffer[1]) /\ waiting_buffer # <<>> /\ pc = "drain"
    BY <1>4 DEF Drain
  <2>2. waiting_buffer[1] \in Records
    <3>1. 1 \in 1 .. Len(waiting_buffer)
      BY <1>0, <2>1, EmptySeq DEF Engine
    <3> QED BY <1>0, <3>1, ElementOfSeq DEF Engine
  <2>3. Given(waiting_buffer[1])
    BY <2>1, <2>2 DEF Given
  <2>4. Engine'
    BY <1>0, <2>1, <2>3, ProcessTappingType
  <2> QED BY <1>4, <2>4 DEF Drain, Inv
<1>5. CASE Drained
  BY <1>5 DEF Drained, Inv, Engine
<1>6. CASE UNCHANGED vars
  BY <1>6 DEF vars, Inv, Engine
<1> QED BY <1>1, <1>2, <1>3, <1>4, <1>5, <1>6 DEF Next

(* The waiting buffer stays within its array, tap.count within its bits,   *)
(* every record is one of a key, and the keyboard keeps its types.         *)
THEOREM TypeCorrect == Spec => []TypeOK
<1>1. Inv => TypeOK
  <2> SUFFICES ASSUME Inv PROVE TypeOK
    OBVIOUS
  <2>1. \A i \in 1 .. Len(waiting_buffer) : waiting_buffer[i] \in Records
    BY ElementOfSeq DEF Inv, Engine
  <2>2. /\ kb.real \subseteq Mods /\ kb.weak \subseteq Mods /\ kb.oneshot \subseteq Mods
        /\ kb.keys \subseteq KeyCodes
        /\ kb.layer \subseteq Layers /\ kb.deflt \subseteq Layers
        /\ kb.pressed \in [Keys -> Layers]
    BY DEF Inv, Engine, Kb
  <2> QED BY <2>1, <2>2 DEF TypeOK, Inv, Engine, Tappings
<1> QED BY <1>1, InvInit, InvStep, PTL DEF Spec

-----------------------------------------------------------------------------
(* Modifiers are retained while a tapping key is undecided.                *)

(* The keymaps in which only the kinds that the check of process_tapping   *)
(* names (action_tapping.c:117-130) switch modifiers off: a key that holds *)
(* them with a layer, a modifier as the tap code of a layer key, and a     *)
(* modifier that is toggled by taps are let go at once.                    *)
RetainedKinds ==
    \A name \in DOMAIN KeyMaps : \A l \in Layers : \A k \in Keys :
        LET a == KeyMaps[name][l][k]
        IN  /\ a.kind = "LAYER_MODS" => a.mods = {}
            /\ a.kind = "LAYER_TAP" => a.code \notin Mods
            /\ a.kind = "MODS_TAP" => a.code # MODS_TAP_TOGGLE

(* A record that waits belongs to no tap but a first one.                  *)
FirstTaps == \A i \in 1 .. Len(waiting_buffer) : waiting_buffer[i].count <= 1

LEMMA FirstTapsAfterConsume ==
    ASSUME Engine, pc = "drain" => waiting_buffer # <<>>, NEW newKb, NEW tapping, NEW done,
           NEW buffer \in Seq(Records), Len(buffer) = Len(waiting_buffer),
           \A i \in 1 .. Len(buffer) : buffer[i].count <= 1,
           Consume(newKb, tapping, buffer, done)
    PROVE  FirstTaps'
<1>1. CASE pc = "drain"
  <2>1. buffer # <<>>
    BY <1>1, EmptySeq DEF Engine
  <2>2. /\ Len(Tail(buffer)) = Len(buffer) - 1
        /\ \A i \in 1 .. Len(Tail(buffer)) : Tail(buffer)[i] = buffer[i+1]
    BY <2>1, HeadTailProperties
  <2>3. Len(buffer) \in Nat
    BY LenProperties
  <2>4. waiting_buffer' = Tail(buffer)
    BY <1>1 DEF Consume
  <2>5. ASSUME NEW i \in 1 .. Len(Tail(buffer)) PROVE Tail(buffer)[i].count <= 1
    <3>1. i+1 \in 1 .. Len(buffer)
      BY <2>2, <2>3
    <3> QED BY <2>2, <3>1
  <2> QED BY <2>4, <2>5 DEF FirstTaps
<1>2. CASE pc # "drain"
  BY <1>2 DEF Consume, FirstTaps
<1> QED BY <1>1, <1>2

LEMMA FirstTapsAfterKeep ==
    ASSUME Engine, FirstTaps, NEW newKb, NEW tapping, NEW done,
           NEW rec, Given(rec), rec.key # NOEVENT => rec.count <= 1,
           Keep(newKb, tapping, rec, done)
    PROVE  FirstTaps'
<1>0. waiting_buffer \in Seq(Records)
  BY DEF Engine
<1>1. CASE pc = "drain"
  <2>1. rec.count <= 1
    BY <1>1, RecordFields DEF Given
  <2>2. waiting_buffer' = [waiting_buffer EXCEPT ![1] = rec]
    BY <1>1 DEF Keep
  <2>3. Len(waiting_buffer') = Len(waiting_buffer)
    BY <1>0, <2>2, LenProperties
  <2>4. ASSUME NEW i \in 1 .. Len(waiting_buffer) PROVE waiting_buffer'[i].count <= 1
    BY <1>0, <2>1, <2>2, <2>4 DEF FirstTaps
  <2> QED BY <2>3, <2>4 DEF FirstTaps
<1>2. CASE pc = "scan" /\ (rec.key = NOEVENT \/ ~IsFull)
  <2>1. CASE rec.key = NOEVENT
    BY <1>2, <2>1 DEF Keep, FirstTaps
  <2>2. CASE rec.key # NOEVENT
    <3>1. waiting_buffer' = Append(waiting_buffer, rec) /\ rec \in Records
      BY <1>2, <2>2, GivenEvent DEF Keep
    <3>2. /\ Len(Append(waiting_buffer, rec)) = Len(waiting_buffer) + 1
          /\ \A i \in 1 .. Len(waiting_buffer) :
                Append(waiting_buffer, rec)[i] = waiting_buffer[i]
          /\ Append(waiting_buffer, rec)[Len(waiting_buffer) + 1] = rec
      BY <1>0, <3>1, AppendProperties
    <3>3. ASSUME NEW i \in 1 .. Len(waiting_buffer) + 1
          PROVE  Append(waiting_buffer, rec)[i].count <= 1
      <4>1. Len(waiting_buffer) \in Nat
        BY <1>0, LenProperties
      <4>2. i \in 1 .. Len(waiting_buffer) \/ i = Len(waiting_buffer) + 1
        BY <4>1
      <4> QED BY <2>2, <3>2, <4>2 DEF FirstTaps
    <3> QED BY <3>1, <3>2, <3>3 DEF FirstTaps
  <2> QED BY <2>1, <2>2
<1>3. CASE pc = "scan" /\ rec.key # NOEVENT /\ IsFull
  <2>1. waiting_buffer' = <<>>
    BY <1>3 DEF Keep
  <2> QED BY <2>1, EmptySeq DEF FirstTaps
<1> QED BY <1>1, <1>2, <1>3 DEF Engine

LEMMA FirstTapsAfterStart ==
    ASSUME Engine, FirstTaps, NEW rec \in Records, NEW before,
           pc = "drain" => waiting_buffer # <<>>,
           StartTapping(before, rec)
    PROVE  FirstTaps'
<1>0. waiting_buffer \in Seq(Records)
  BY DEF Engine
<1>1. CASE Consume(before, rec, waiting_buffer, {})
  BY <1>0, <1>1, FirstTapsAfterConsume DEF FirstTaps
<1>2. CASE ~Consume(before, rec, waiting_buffer, {})
  <2> DEFINE i == CHOOSE i \in TapRelease(rec) : \A j \in TapRelease(rec) : i <= j
             tap == [rec EXCEPT !.count = 1]
             buffer == [waiting_buffer EXCEPT ![i].count = 1]
  <2>1. /\ TapRelease(rec) # {}
        /\ Consume(process_action(before, tap), tap, buffer, {rec})
    BY <1>2 DEF StartTapping
  <2>2. i \in TapRelease(rec)
    <3>1. \A y \in TapRelease(rec) : y \in Nat
      BY DEF TapRelease
    <3> QED BY <2>1, <3>1, Least
  <2>3. i \in 1 .. Len(waiting_buffer)
    BY <2>2 DEF TapRelease
  <2> HIDE DEF i
  <2>4. waiting_buffer[i] \in Records
    BY <1>0, <2>3, ElementOfSeq
  <2>5. buffer \in Seq(Records) /\ Len(buffer) = Len(waiting_buffer)
    <3>1. [waiting_buffer[i] EXCEPT !.count = 1] \in Records
      BY <2>4, RecordFields
    <3> QED BY <1>0, <2>3, <3>1, ExceptSeq
  <2>6. ASSUME NEW j \in 1 .. Len(waiting_buffer) PROVE buffer[j].count <= 1
    <3>1. CASE j = i
      <4>1. buffer[j] = [waiting_buffer[i] EXCEPT !.count = 1]
        BY <1>0, <2>3, <3>1
      <4> QED BY <2>4, <4>1 DEF Records
    <3>2. CASE j # i
      BY <1>0, <2>3, <3>2 DEF FirstTaps
    <3> QED BY <3>1, <3>2
  <2> HIDE DEF tap, buffer
  <2> QED BY <2>1, <2>5, <2>6, FirstTapsAfterConsume
<1> QED BY <1>1, <1>2

LEMMA FirstTapsStep ==
    ASSUME Engine, FirstTaps, NEW rec, Given(rec),
           rec.key # NOEVENT => rec.count <= 1, process_tapping(rec)
    PROVE  FirstTaps'
<1>0. waiting_buffer \in Seq(Records) /\ (pc = "drain" => waiting_buffer # <<>>)
  BY DEF Engine, Given
<1>1. CASE FirstTap(rec)
  <2> DEFINE tap == [tapping_key EXCEPT !.count = 1]
             t == Decided(tap)
             kept == [rec EXCEPT !.count = t.count, !.interrupted = t.interrupted]
  <2>1. tapping_key \in Records /\ rec.key # NOEVENT
    BY <1>1, TappingKey DEF FirstTap, OwnRelease, IS_TAPPING_KEY, IS_TAPPING
  <2>2. rec \in Records
    BY <2>1, GivenEvent
  <2>3. tap \in Records /\ tap.count = 1
    BY <2>1, RecordFields DEF Records
  <2> HIDE DEF tap
  <2>4. t \in Records /\ t.count <= 1
    BY <2>3, TappingAssumption DEF Decided, Records
  <2>5. kept \in Records /\ kept.count <= 1
    BY <2>2, <2>4 DEF Records
  <2> HIDE DEF t, kept
  <2>6. Keep(Act(tap), t, kept, {tap})
    BY <1>1 DEF FirstTap, tap, t, kept
  <2>7. Given(kept)
    BY <1>0, <2>5 DEF Given
  <2> QED BY <2>5, <2>6, <2>7, FirstTapsAfterKeep
<1>2. CASE RetainModifier(rec) \/ WaitForDecision(rec) \/ Timeout(rec) \/ TapExpires(rec)
  <2>1. \E newKb, tapping, done : Keep(newKb, tapping, rec, done)
    BY <1>2, Zenon DEF RetainModifier, WaitForDecision, Timeout, TapExpires
  <2> QED BY <2>1, FirstTapsAfterKeep
<1>3. CASE \/ ReleaseAtOnce(rec) \/ TapReleased(rec) \/ EventDuringTap(rec)
           \/ SequentialTap(rec) \/ StartAgain(rec) \/ EventAfterTap(rec) \/ PlainEvent(rec)
  <2>1. \E newKb, tapping, done : Consume(newKb, tapping, waiting_buffer, done)
    BY <1>3, Zenon DEF ReleaseAtOnce, TapReleased, EventDuringTap, SequentialTap,
       StartAgain, EventAfterTap, PlainEvent
  <2> QED BY <1>0, <2>1, FirstTapsAfterConsume DEF FirstTaps
<1>4. CASE NextTapKey(rec) \/ OtherTapKey(rec) \/ PressTapKey(rec)
  <2>1. rec \in Records
    BY <1>4, GivenEvent DEF NextTapKey, OtherTapKey, PressTapKey, StartsTap
  <2>2. \E before : StartTapping(before, rec)
    BY <1>4, Zenon DEF NextTapKey, OtherTapKey, PressTapKey
  <2> QED BY <1>0, <2>1, <2>2, FirstTapsAfterStart
<1> QED BY <1>1, <1>2, <1>3, <1>4 DEF process_tapping

LEMMA FirstTapsInvariant == Inv /\ FirstTaps /\ [Next]_vars => FirstTaps'
<1> SUFFICES ASSUME Inv, FirstTaps, [Next]_vars PROVE FirstTaps'
  OBVIOUS
<1>0. Engine
  BY DEF Inv
<1>1. ASSUME NEW key \in Keys, Event(key) PROVE FirstTaps'
  <2> DEFINE rec == Record(key, key \in down', now)
  <2>1. process_tapping(rec) /\ pc = "scan"
    BY <1>1 DEF Event
  <2>2. rec \in Records /\ rec.count <= 1
    <3>1. (key \in down') \in BOOLEAN
      OBVIOUS
    <3> QED BY <3>1, TappingAssumption DEF Record, Records, Inv
  <2> HIDE DEF rec
  <2>3. Given(rec)
    BY <2>1, <2>2 DEF Given
  <2> QED BY <1>0, <2>1, <2>2, <2>3, FirstTapsStep
<1>2. CASE Tick
  <2>1. process_tapping(TICK) /\ pc = "scan"
    BY <1>2 DEF Tick
  <2>2. Given(TICK) /\ TICK.key = NOEVENT
    BY <2>1 DEF Given, TICK, Record
  <2> QED BY <1>0, <2>1, <2>2, FirstTapsStep
<1>3. CASE Drain
  <2>1. process_tapping(waiting_buffer[1]) /\ waiting_buffer # <<>> /\ pc = "drain"
    BY <1>3 DEF Drain
  <2>2. 1 \in 1 .. Len(waiting_buffer)
    BY <1>0, <2>1, EmptySeq DEF Engine
  <2>3. waiting_buffer[1] \in Records /\ waiting_buffer[1].count <= 1
    BY <1>0, <2>2, ElementOfSeq DEF Engine, FirstTaps
  <2>4. Given(waiting_buffer[1])
    BY <2>1, <2>3 DEF Given
  <2> QED BY <1>0, <2>1, <2>3, <2>4, FirstTapsStep
<1>4. CASE WaitPass \/ WaitStep \/ Drained \/ UNCHANGED vars
  BY <1>4 DEF WaitPass, WaitStep, Wait, Drained, vars, FirstTaps
<1> QED BY <1>1, <1>2, <1>3, <1>4 DEF Next

(* What the registers do to the modifiers that are down.                   *)
LEMMA RealAfterRegister ==
    ASSUME NEW q \in Kb, NEW code, NEW mods
    PROVE  /\ q.real \subseteq register_mods(q, mods).real
           /\ code \notin Mods => unregister_code(q, code).real = q.real
           /\ unregister_mods(q, {}) = q
<1>1. ASSUME NEW r \in Kb PROVE send_keyboard_report(r).real = r.real
  BY DEF send_keyboard_report, Kb
<1>2. q.real \subseteq register_mods(q, mods).real
  <2>1. /\ send_keyboard_report([q EXCEPT !.real = @ \cup mods]).real = q.real \cup mods
    BY DEF send_keyboard_report, Kb
  <2> QED BY <2>1 DEF register_mods
<1>3. ASSUME code \notin Mods PROVE unregister_code(q, code).real = q.real
  <2>1. [q EXCEPT !.keys = @ \ {code}] \in Kb
        /\ [q EXCEPT !.keys = @ \ {code}].real = q.real
    BY DEF Kb
  <2>2. \A page : host_send(q, page, KC_NO).real = q.real
    BY DEF host_send, Kb
  <2> QED BY <1>1, <1>3, <2>1, <2>2, Zenon DEF unregister_code
<1> QED BY <1>2, <1>3 DEF unregister_mods

(* The release of a key that is not held back switches no modifier off.    *)
LEMMA ReleaseRetains ==
    ASSUME RetainedKinds, Engine, NEW rec \in Records, ~rec.pressed, rec.count <= 1,
           ~IsModifierRelease(rec)
    PROVE  process_action(kb, rec).real = kb.real
<1> DEFINE a == layer_switch_get_action(kb, rec)
           l == kb.pressed[rec.key]
<1>1. /\ kb \in Kb /\ rec.key \in Keys /\ rec.pressed = FALSE
      /\ rec.count \in Nat /\ rec.interrupted \in BOOLEAN
  BY TappingAssumption DEF Engine, Records
<1>2. Track(kb, rec) = kb
  BY DEF Track
<1>3. a \in Actions
  BY <1>1, GetActionType
<1>4. /\ a.kind = "LAYER_MODS" => a.mods = {}
      /\ a.kind = "LAYER_TAP" => a.code \notin Mods
      /\ a.kind = "MODS_TAP" => a.code # MODS_TAP_TOGGLE
  <2>1. l \in Layers /\ kb.keymap \in DOMAIN KeyMaps
    BY <1>1 DEF Kb
  <2>2. a = KeyMaps[kb.keymap][l][rec.key]
    BY <1>2 DEF layer_switch_get_action, action_for_key
  <2> HIDE DEF a
  <2> QED BY <1>1, <2>1, <2>2 DEF RetainedKinds
<1>5. /\ a.kind \in {"MODS", "MODS_TAP"} => a.code \notin Mods
      /\ a.kind = "MODS" => a.mods = {} \/ a.code # KC_NO
      /\ a.kind = "MODS_TAP" => a.mods = {} \/ rec.count = 1
  BY <1>1, <1>3, ActionFields DEF IsModifierRelease
<1>d. process_action(kb, rec) =
        CASE a.kind = "MODS"       -> ProcessMods(kb, a, FALSE)
          [] a.kind = "MODS_TAP" /\ a.code = MODS_ONESHOT ->
                ProcessOneShot(kb, a.mods, rec)
          [] a.kind = "MODS_TAP" /\ a.code = MODS_TAP_TOGGLE ->
                ProcessTapToggle(kb, a.mods, rec)
          [] a.kind = "MODS_TAP" /\ a.code \notin {MODS_ONESHOT, MODS_TAP_TOGGLE} ->
                ProcessModsTap(kb, a, rec)
          [] a.kind = "USAGE"      -> host_send(kb, a.page, KC_NO)
          [] a.kind = "LAYER"      -> ProcessLayer(kb, a, FALSE)
          [] a.kind = "LAYER_TAP"  -> ProcessLayerTap(kb, a, rec)
          [] a.kind = "LAYER_MODS" -> ProcessLayerMods(kb, a, FALSE)
          [] OTHER                 -> kb
  BY <1>1, <1>2 DEF process_action
<1>m. a.kind \in {"MODS", "MODS_TAP", "LAYER_MODS"} => a.mods \in SUBSET Mods
  BY <1>3, ActionFields
<1>v. a.kind \in {"LAYER_TAP", "LAYER_MODS"} => a.val \in Layers
  BY <1>3, ActionFields
<1> HIDE DEF a
<1>u. a.code \notin Mods => unregister_code(kb, a.code).real = kb.real
  BY <1>1, RealAfterRegister
<1>6. CASE a.kind = "MODS"
  <2> DEFINE released == unregister_code(kb, a.code)
  <2>1. released \in Kb /\ released.real = kb.real
    BY <1>1, <1>5, <1>6, <1>u, RegisterCodeType
  <2>2. ProcessMods(kb, a, FALSE) =
          IF a.mods = {} THEN released
          ELSE send_keyboard_report([released EXCEPT !.weak = @ \ a.mods])
    BY DEF ProcessMods
  <2> HIDE DEF released
  <2>3. send_keyboard_report([released EXCEPT !.weak = @ \ a.mods]).real = released.real
    BY <2>1 DEF send_keyboard_report, Kb
  <2> QED BY <1>6, <1>d, <2>1, <2>2, <2>3
<1>7. CASE a.kind = "MODS_TAP" /\ a.code = MODS_ONESHOT
  <2>1. ProcessOneShot(kb, a.mods, rec) =
          IF rec.count = 1 THEN kb ELSE unregister_mods([kb EXCEPT !.oneshot = {}], a.mods)
    BY <1>1 DEF ProcessOneShot
  <2>2. [kb EXCEPT !.oneshot = {}] \in Kb /\ [kb EXCEPT !.oneshot = {}].real = kb.real
    BY <1>1 DEF Kb
  <2>3. unregister_mods([kb EXCEPT !.oneshot = {}], {}).real = kb.real
    BY <2>2, RealAfterRegister
  <2>4. process_action(kb, rec) = ProcessOneShot(kb, a.mods, rec)
    BY <1>7, <1>d DEF MODS_ONESHOT, MODS_TAP_TOGGLE
  <2>5. a.mods = {} \/ rec.count = 1
    BY <1>5, <1>7
  <2> QED BY <2>1, <2>3, <2>4, <2>5
<1>8. CASE a.kind = "MODS_TAP" /\ a.code # MODS_ONESHOT
  <2>1. a.code \notin {MODS_ONESHOT, MODS_TAP_TOGGLE}
    BY <1>4, <1>8
  <2>2. ProcessModsTap(kb, a, rec) =
          IF rec.count > 0 THEN unregister_code(kb, a.code) ELSE unregister_mods(kb, a.mods)
    BY <1>1 DEF ProcessModsTap
  <2>3. CASE rec.count = 1
    BY <1>5, <1>8, <1>d, <1>u, <2>1, <2>2, <2>3
  <2>4. CASE rec.count # 1
    <3>1. rec.count = 0 /\ a.mods = {}
      BY <1>1, <1>5, <1>8, <2>4
    <3> QED BY <1>1, <1>8, <1>d, <2>1, <2>2, <3>1, RealAfterRegister
  <2> QED BY <2>3, <2>4
<1>9. CASE a.kind = "USAGE"
  BY <1>1, <1>9, <1>d DEF host_send, Kb
<1>10. CASE a.kind = "LAYER"
  BY <1>1, <1>10, <1>d DEF ProcessLayer, Kb
<1>11. CASE a.kind = "LAYER_TAP"
  <2>1. /\ layer_on(kb, a.val).real = kb.real /\ layer_off(kb, a.val).real = kb.real
        /\ layer_invert(kb, a.val).real = kb.real /\ layer_clear(kb).real = kb.real
    BY <1>1 DEF layer_on, layer_off, layer_invert, layer_clear, Kb
  <2>2. unregister_code(kb, a.code).real = kb.real
    BY <1>4, <1>11, <1>u
  <2>3. ProcessLayerTap(kb, a, rec) \in
          {layer_on(kb, a.val), layer_off(kb, a.val), layer_invert(kb, a.val),
           layer_clear(kb), unregister_code(kb, a.code), kb}
    <3>1. CASE a.code \in LayerModes
      BY <1>1, <3>1 DEF ProcessLayerTap, LayerModes, OP_TAP_TOGGLE, OP_ON_OFF, OP_OFF_ON,
         OP_SET_CLEAR
    <3>2. CASE a.code \notin LayerModes
      BY <1>1, <3>2 DEF ProcessLayerTap, LayerModes, OP_TAP_TOGGLE, OP_ON_OFF, OP_OFF_ON,
         OP_SET_CLEAR
    <3> QED BY <3>1, <3>2
  <2>4. process_action(kb, rec) = ProcessLayerTap(kb, a, rec)
    BY <1>11, <1>d
  <2> QED BY <2>1, <2>2, <2>3, <2>4
<1>12. CASE a.kind = "LAYER_MODS"
  <2>1. layer_off(kb, a.val) \in Kb /\ layer_off(kb, a.val).real = kb.real
    BY <1>1, <1>v, <1>12 DEF layer_off, Kb
  <2>2. unregister_mods(layer_off(kb, a.val), {}) = layer_off(kb, a.val)
    BY <2>1, RealAfterRegister
  <2>3. ProcessLayerMods(kb, a, FALSE) = layer_off(kb, a.val)
    BY <1>4, <1>12, <2>2 DEF ProcessLayerMods
  <2> QED BY <1>12, <1>d, <2>1, <2>3
<1>13. CASE a.kind \notin {"MODS", "MODS_TAP", "USAGE", "LAYER", "LAYER_TAP", "LAYER_MODS"}
  BY <1>13, <1>d
<1> QED BY <1>6, <1>7, <1>8, <1>9, <1>10, <1>11, <1>12, <1>13

(* A tap that another key cancelled acts as the modifier it is.            *)
LEMMA CancelledRetains ==
    ASSUME Engine, NEW tap \in Records, Cancels(kb, tap)
    PROVE  kb.real \subseteq process_action(kb, tap).real
<1> DEFINE a == layer_switch_get_action(kb, tap)
           t == Track(kb, tap)
<1>1. /\ kb \in Kb /\ tap.key \in Keys /\ tap.count \in Nat
      /\ tap.pressed \in BOOLEAN /\ tap.interrupted \in BOOLEAN
  BY TappingAssumption DEF Engine, Records
<1>2. t \in Kb /\ t.real = kb.real
  <2>1. Track(kb, tap).real = kb.real
    BY <1>1 DEF Track, Kb
  <2> QED BY <1>1, <2>1, TrackType
<1>3. /\ a.kind = "MODS_TAP" /\ a.code \notin {MODS_ONESHOT, MODS_TAP_TOGGLE}
      /\ tap.pressed /\ tap.count > 0 /\ tap.interrupted
  BY DEF Cancels
<1>4. process_action(kb, tap) = ProcessModsTap(t, a, tap)
  BY <1>3 DEF process_action
<1> HIDE DEF a, t
<1>5. ProcessModsTap(t, a, tap) = register_mods(t, a.mods)
  BY <1>1, <1>3 DEF ProcessModsTap
<1> QED BY <1>2, <1>4, <1>5, RealAfterRegister

(* While the tapping key stays undecided, no call of process_tapping       *)
(* switches a modifier off.                                                *)
LEMMA CallRetains ==
    ASSUME RetainedKinds, Engine, NEW rec, Given(rec),
           rec.key # NOEVENT => rec.count <= 1, process_tapping(rec),
           Undecided, Undecided', tapping_key'.key = tapping_key.key
    PROVE  kb.real \subseteq kb'.real
<1>0. /\ tapping_key \in Records /\ tapping_key.count = 0 /\ tapping_key.pressed
      /\ tapping_key'.key # NOEVENT /\ tapping_key'.count = 0
  BY TappingKey DEF Undecided, IS_TAPPING_PRESSED, IS_TAPPING
<1>1. NoTapping.key = NOEVENT
  BY DEF NoTapping, Record
<1>k. ASSUME NEW newKb, NEW tapping, NEW kept, NEW done, Keep(newKb, tapping, kept, done)
      PROVE  kb' = newKb /\ tapping_key' = tapping
  BY <1>0, <1>1, <1>k DEF Keep
<1>2. CASE FirstTap(rec)
  <2> DEFINE tap == [tapping_key EXCEPT !.count = 1]
             t == Decided(tap)
             kept == [rec EXCEPT !.count = t.count, !.interrupted = t.interrupted]
  <2>1. tap \in Records /\ tap.count = 1 /\ tap.key # NOEVENT
    BY <1>0, RecordFields DEF Records
  <2> HIDE DEF tap
  <2>2. t = IF Cancels(kb, tap) THEN [tap EXCEPT !.count = 0] ELSE tap
    BY DEF Decided
  <2> HIDE DEF t, kept
  <2>3. Keep(Act(tap), t, kept, {tap})
    BY <1>2 DEF FirstTap, tap, t, kept
  <2>4. kb' = Act(tap) /\ t.count = 0
    BY <1>0, <1>k, <2>3
  <2>5. Cancels(kb, tap)
    BY <2>1, <2>2, <2>4
  <2> QED BY <2>1, <2>4, <2>5, CancelledRetains DEF Act
<1>3. CASE RetainModifier(rec) \/ WaitForDecision(rec)
  BY <1>3, <1>k DEF RetainModifier, WaitForDecision
<1>4. CASE ReleaseAtOnce(rec)
  <2>1. rec \in Records /\ ~rec.pressed /\ rec.key # NOEVENT /\ ~IsModifierRelease(rec)
    BY <1>4, GivenEvent DEF ReleaseAtOnce, OtherRelease
  <2>2. kb' = process_action(kb, rec)
    BY <1>4, <2>1 DEF ReleaseAtOnce, Consume, Act
  <2> QED BY <2>1, <2>2, ReleaseRetains
<1>5. CASE Timeout(rec)
  BY <1>0, <1>1, <1>5, <1>k DEF Timeout
<1>6. ~Tapped /\ ~IS_TAPPING_RELEASED /\ IS_TAPPING
  BY <1>0 DEF Tapped, Undecided, IS_TAPPING_RELEASED, IS_TAPPING_PRESSED
<1> QED BY <1>2, <1>3, <1>4, <1>5, <1>6 DEF process_tapping, TapReleased, NextTapKey,
   EventDuringTap, SequentialTap, StartAgain, OtherTapKey, EventAfterTap, TapExpires,
   PressTapKey, PlainEvent

LEMMA StepRetains ==
    ASSUME RetainedKinds, Inv, FirstTaps, Next,
           Undecided, Undecided', tapping_key'.key = tapping_key.key
    PROVE  kb.real \subseteq kb'.real
<1>0. Engine
  BY DEF Inv
<1>1. ASSUME NEW key \in Keys, Event(key) PROVE kb.real \subseteq kb'.real
  <2> DEFINE rec == Record(key, key \in down', now)
  <2>1. process_tapping(rec) /\ pc = "scan"
    BY <1>1 DEF Event
  <2>2. rec \in Records /\ rec.count <= 1
    <3>1. (key \in down') \in BOOLEAN
      OBVIOUS
    <3> QED BY <3>1, TappingAssumption DEF Record, Records, Inv
  <2> HIDE DEF rec
  <2>3. Given(rec)
    BY <2>1, <2>2 DEF Given
  <2> QED BY <1>0, <2>1, <2>2, <2>3, CallRetains
<1>2. CASE Tick
  <2>1. process_tapping(TICK) /\ pc = "scan"
    BY <1>2 DEF Tick
  <2>2. Given(TICK) /\ TICK.key = NOEVENT
    BY <2>1 DEF Given, TICK, Record
  <2> QED BY <1>0, <2>1, <2>2, CallRetains
<1>3. CASE Drain
  <2>1. process_tapping(waiting_buffer[1]) /\ waiting_buffer # <<>> /\ pc = "drain"
    BY <1>3 DEF Drain
  <2>2. 1 \in 1 .. Len(waiting_buffer)
    BY <1>0, <2>1, EmptySeq DEF Engine
  <2>3. waiting_buffer[1] \in Records /\ waiting_buffer[1].count <= 1
    BY <1>0, <2>2, ElementOfSeq DEF Engine, FirstTaps
  <2>4. Given(waiting_buffer[1])
    BY <2>1, <2>3 DEF Given
  <2> QED BY <1>0, <2>1, <2>3, <2>4, CallRetains
<1>4. CASE WaitPass \/ WaitStep \/ Drained
  BY <1>4 DEF WaitPass, WaitStep, Wait, Drained
<1> QED BY <1>1, <1>2, <1>3, <1>4 DEF Next

(* "Modifier should be retained till end of this tapping" holds for every  *)
(* keymap whose modifiers are switched by the kinds of key that the check  *)
(* of process_tapping names.                                               *)
THEOREM ModifiersRetained ==
    ASSUME RetainedKinds
    PROVE  Spec => ModsRetained
<1>1. Init => FirstTaps
  BY EmptySeq DEF Init, FirstTaps
<1>2. Inv /\ FirstTaps /\ [Next]_vars =>
        [Undecided /\ Undecided' /\ tapping_key'.key = tapping_key.key
           => \/ kb.real \subseteq kb'.real
              \/ \E k \in Keys : /\ \E a \in ActionsOf(kb, k) : a.kind = "LAYER_MODS"
                                /\ settled'[k] # settled[k]]_vars
  BY StepRetains
<1> QED BY <1>1, <1>2, InvInit, InvStep, FirstTapsInvariant, PTL DEF Spec, ModsRetained

-----------------------------------------------------------------------------
(* The clock: how long ago a record was made, and TIMER_DIFF_16 of two     *)
(* records, which counts one too many when the clock has wrapped between   *)
(* them (it takes the difference modulo 2^16, the clock is modulo 2^16-1). *)
Times == 0 .. TimeMod-2
AgeAt(n, t) == IF t <= n THEN n - t ELSE n - t + TimeMod - 1
Age(t) == AgeAt(now, t)

LEMMA TimerDiff ==
    ASSUME NEW s \in Times, NEW t \in Times
    PROVE  TIMER_DIFF_16(s, t) = IF t <= s THEN s - t ELSE s - t + TimeMod
<1>1. TimeMod \in Nat /\ TimeMod > 2 /\ s \in Nat /\ t \in Nat /\ s < TimeMod /\ t < TimeMod
  BY TappingAssumption DEF Times
<1>2. CASE t <= s
  <2> DEFINE d == s - t
  <2>1. d \in Nat /\ d < TimeMod
    BY <1>1, <1>2
  <2>2. d % TimeMod = d
    <3> HIDE DEF d
    <3> QED BY <1>1, <2>1
  <2> QED BY <1>2, <2>2 DEF TIMER_DIFF_16
<1>3. CASE t > s
  <2> DEFINE d == s - t + TimeMod
  <2>1. d \in Nat /\ d < TimeMod /\ s - t = d - TimeMod
    BY <1>1, <1>3
  <2>2. (d - TimeMod) % TimeMod = d
    <3> HIDE DEF d
    <3> QED BY <1>1, <2>1
  <2> QED BY <1>1, <1>3, <2>1, <2>2 DEF TIMER_DIFF_16
<1> QED BY <1>1, <1>2, <1>3

LEMMA Ages ==
    ASSUME NEW n \in Times, NEW t \in Times
    PROVE  /\ AgeAt(n, t) \in Times
           /\ AgeAt(n, t) = 0 <=> t = n
           /\ AgeAt(n, t) <= TIMER_DIFF_16(n, t)
           /\ TIMER_DIFF_16(n, n) = 0
<1>1. TimeMod \in Nat /\ TimeMod > 2
  BY TappingAssumption
<1>2. /\ TIMER_DIFF_16(n, t) = IF t <= n THEN n - t ELSE n - t + TimeMod
      /\ TIMER_DIFF_16(n, n) = IF n <= n THEN n - n ELSE n - n + TimeMod
  BY TimerDiff
<1> QED BY <1>1, <1>2 DEF AgeAt, Times

(* Of four moments in order the inner two are no further apart than the    *)
(* outer two.                                                              *)
LEMMA InnerDiff ==
    ASSUME NEW n \in Times, NEW a \in Times, NEW b \in Times, NEW c \in Times,
           NEW d \in Times,
           AgeAt(n, a) >= AgeAt(n, b), AgeAt(n, b) >= AgeAt(n, c),
           AgeAt(n, c) >= AgeAt(n, d)
    PROVE  TIMER_DIFF_16(c, b) <= TIMER_DIFF_16(d, a)
<1>1. TimeMod \in Nat /\ TimeMod > 2
  BY TappingAssumption
<1>2. /\ TIMER_DIFF_16(c, b) = IF b <= c THEN c - b ELSE c - b + TimeMod
      /\ TIMER_DIFF_16(d, a) = IF a <= d THEN d - a ELSE d - a + TimeMod
  BY TimerDiff
<1> QED BY <1>1, <1>2 DEF AgeAt, Times

(* A step of time makes every record older by one.                         *)
LEMMA AgeStep ==
    ASSUME NEW n \in Times, NEW t \in Times, AgeAt(n, t) < TimeMod - 2
    PROVE  /\ (n + 1) % (TimeMod - 1) \in Times
           /\ AgeAt((n + 1) % (TimeMod - 1), t) = AgeAt(n, t) + 1
<1> DEFINE m == TimeMod - 1
<1>1. m \in Nat /\ m > 1 /\ n \in Nat /\ n < m /\ t \in Nat /\ t < m
  BY TappingAssumption DEF Times
<1>0. AgeAt(n, t) = (IF t <= n THEN n - t ELSE n - t + m) /\ Times = 0 .. m-1
  BY <1>1, TappingAssumption DEF AgeAt, Times
<1> DEFINE x == (n + 1) % m
<1>2. x = IF n + 1 < m THEN n + 1 ELSE 0
  <2> HIDE DEF m
  <2>1. CASE n + 1 < m
    BY <1>1, <2>1
  <2>2. CASE n + 1 = m
    BY <1>1, <2>2
  <2> QED BY <1>1, <2>1, <2>2
<1>3. AgeAt(x, t) = IF t <= x THEN x - t ELSE x - t + m
  BY <1>1, TappingAssumption DEF AgeAt
<1>4. m - 1 = TimeMod - 2
  BY TappingAssumption
<1>5. AgeAt(n, t) < m - 1
  BY <1>4
<1>6. x \in Times /\ AgeAt(x, t) = AgeAt(n, t) + 1
  <2> HIDE DEF x, m
  <2> QED BY <1>0, <1>1, <1>2, <1>3, <1>5
<1> QED BY <1>6

-----------------------------------------------------------------------------
(* The events of a key in a sequence of records.                           *)
RankIn(S, i) == Cardinality({j \in S : j <= i})

(* The numbers of a finite set are numbered without a gap in their order.  *)
LEMMA RankNumbers ==
    ASSUME NEW S, IsFiniteSet(S), \A i \in S : i \in Nat
    PROVE  /\ Cardinality(S) \in Nat
           /\ \A i \in S : RankIn(S, i) \in 1 .. Cardinality(S)
           /\ \A i, j \in S : i < j => RankIn(S, i) < RankIn(S, j)
           /\ \A n \in 1 .. Cardinality(S) : \E i \in S : RankIn(S, i) = n
           /\ \A i, j \in S : RankIn(S, i) = RankIn(S, j) => i = j
<1> DEFINE UpTo(i) == {j \in S : j <= i}
           c == Cardinality(S)
<1>1. c \in Nat /\ \A i : IsFiniteSet(UpTo(i)) /\ UpTo(i) \in SUBSET S
  <2>1. \A i : UpTo(i) \in SUBSET S
    OBVIOUS
  <2> HIDE DEF UpTo
  <2> QED BY <2>1, FS_Subset, FS_CardinalityType
<1>2. ASSUME NEW i \in S
      PROVE  RankIn(S, i) \in 1 .. c
  <2>1. {i} \in SUBSET UpTo(i)
    OBVIOUS
  <2>2. Cardinality({i}) = 1 /\ Cardinality(UpTo(i)) = RankIn(S, i)
    BY FS_Singleton DEF RankIn
  <2>3. 1 <= RankIn(S, i) /\ RankIn(S, i) <= c /\ RankIn(S, i) \in Nat
    <3> HIDE DEF UpTo
    <3> QED BY <1>1, <2>1, <2>2, FS_Subset, FS_CardinalityType
  <2> QED BY <1>1, <2>3
<1>3. ASSUME NEW i \in S, NEW j \in S, i < j
      PROVE  RankIn(S, i) < RankIn(S, j)
  <2>1. UpTo(i) \cup {j} \in SUBSET UpTo(j) /\ j \notin UpTo(i)
    BY <1>3
  <2>2. RankIn(S, i) = Cardinality(UpTo(i)) /\ RankIn(S, j) = Cardinality(UpTo(j))
    BY DEF RankIn
  <2>3. Cardinality(UpTo(i) \cup {j}) = Cardinality(UpTo(i)) + 1
    <3> HIDE DEF UpTo
    <3> QED BY <1>1, <2>1, FS_AddElement
  <2>4. Cardinality(UpTo(i) \cup {j}) <= Cardinality(UpTo(j))
    <3> HIDE DEF UpTo
    <3> QED BY <1>1, <2>1, FS_Subset
  <2>5. RankIn(S, i) \in 1 .. c /\ RankIn(S, j) \in 1 .. c
    BY <1>2
  <2> HIDE DEF c, UpTo
  <2> QED BY <1>1, <2>2, <2>3, <2>4, <2>5
<1>4. ASSUME NEW i \in S, NEW j \in S, RankIn(S, i) = RankIn(S, j)
      PROVE  i = j
  <2>1. RankIn(S, i) \in 1 .. c /\ RankIn(S, j) \in 1 .. c
    BY <1>2
  <2>2. ~(RankIn(S, i) < RankIn(S, j)) /\ ~(RankIn(S, j) < RankIn(S, i))
    <3> HIDE DEF c
    <3> QED BY <1>1, <1>4, <2>1
  <2>3. ~(i < j) /\ ~(j < i)
    BY <1>3, <2>2
  <2> QED BY <2>3
<1>5. ASSUME NEW n \in 1 .. c PROVE \E i \in S : RankIn(S, i) = n
  <2> DEFINE f == [i \in S |-> RankIn(S, i)]
             I == 1 .. c
  <2>1. f \in Injection(S, I)
    BY <1>2, <1>4 DEF Injection, IsInjective
  <2>2. IsFiniteSet(I) /\ Cardinality(I) = c
    BY <1>1, FS_Interval
  <2>3. f \in Surjection(S, I)
    <3> HIDE DEF f, I
    <3> QED BY <2>1, <2>2, FS_Injection
  <2> QED BY <2>3 DEF Surjection
<1> QED BY <1>1, <1>2, <1>3, <1>4, <1>5

LEMMA PlacesFinite ==
    ASSUME NEW s \in Seq(Records), NEW k
    PROVE  /\ IsFiniteSet(Places(s, k)) /\ \A i \in Places(s, k) : i \in Nat
           /\ Len(s) \in Nat /\ Places(s, k) \in SUBSET (1 .. Len(s))
<1>1. Len(s) \in Nat /\ Places(s, k) \in SUBSET (1 .. Len(s))
  BY LenProperties DEF Places
<1>2. IsFiniteSet(1 .. Len(s))
  BY <1>1, FS_Interval
<1> QED BY <1>1, <1>2, FS_Subset

LEMMA EventsType ==
    ASSUME NEW s \in Seq(Records), NEW k
    PROVE  /\ EventsOf(s, k) \in Seq(BOOLEAN)
           /\ Len(EventsOf(s, k)) = Cardinality(Places(s, k))
           /\ \A i \in Places(s, k) :
                 /\ RankIn(Places(s, k), i) \in 1 .. Cardinality(Places(s, k))
                 /\ EventsOf(s, k)[RankIn(Places(s, k), i)] = s[i].pressed
<1> DEFINE P == Places(s, k)
           c == Cardinality(P)
<1>1. /\ c \in Nat
      /\ \A i \in P : RankIn(P, i) \in 1 .. c
      /\ \A n \in 1 .. c : \E i \in P : RankIn(P, i) = n
      /\ \A i, j \in P : RankIn(P, i) = RankIn(P, j) => i = j
  <2> HIDE DEF P
  <2> QED BY PlacesFinite, RankNumbers DEF P
<1>2. \A n : Place(s, k, n) = CHOOSE i \in P : RankIn(P, i) = n
  BY DEF Place, RankIn
<1>3. EventsOf(s, k) = [n \in 1 .. c |-> s[Place(s, k, n)].pressed]
  BY DEF EventsOf
<1>4. \A i \in P : s[i] \in Records /\ s[i].pressed \in BOOLEAN
  <2>1. \A i \in P : s[i] \in Records
    BY ElementOfSeq DEF Places
  <2> QED BY <2>1 DEF Records
<1> HIDE DEF P, c
<1>5. \A n \in 1 .. c : Place(s, k, n) \in P
  BY <1>1, <1>2
<1>6. \A n \in 1 .. c : s[Place(s, k, n)].pressed \in BOOLEAN
  BY <1>4, <1>5
<1>7. EventsOf(s, k) \in Seq(BOOLEAN) /\ Len(EventsOf(s, k)) = c
  BY <1>1, <1>3, <1>6
<1>8. ASSUME NEW i \in P PROVE EventsOf(s, k)[RankIn(P, i)] = s[i].pressed
  <2>1. RankIn(P, i) \in 1 .. c /\ Place(s, k, RankIn(P, i)) = i
    BY <1>1, <1>2
  <2> QED BY <1>3, <2>1
<1> QED BY <1>1, <1>7, <1>8 DEF P, c

LEMMA EventsUnique ==
    ASSUME NEW s \in Seq(Records), NEW k, NEW e \in Seq(BOOLEAN),
           Len(e) = Cardinality(Places(s, k)),
           \A i \in Places(s, k) : e[RankIn(Places(s, k), i)] = s[i].pressed
    PROVE  EventsOf(s, k) = e
<1> DEFINE P == Places(s, k)
<1>1. /\ Cardinality(P) \in Nat
      /\ \A n \in 1 .. Cardinality(P) : \E i \in P : RankIn(P, i) = n
  <2> HIDE DEF P
  <2> QED BY PlacesFinite, RankNumbers DEF P
<1>2. /\ EventsOf(s, k) \in Seq(BOOLEAN) /\ Len(EventsOf(s, k)) = Cardinality(P)
      /\ \A i \in P : EventsOf(s, k)[RankIn(P, i)] = s[i].pressed
  BY EventsType
<1>3. ASSUME NEW n \in 1 .. Len(e) PROVE EventsOf(s, k)[n] = e[n]
  <2>1. PICK i \in P : RankIn(P, i) = n
    BY <1>1
  <2> QED BY <1>2, <2>1
<1> QED BY <1>2, <1>3, SeqEqual

LEMMA EventsEmpty ==
    ASSUME NEW s \in Seq(Records), NEW k
    PROVE  EventsOf(s, k) = <<>> <=> Places(s, k) = {}
<1>1. /\ EventsOf(s, k) \in Seq(BOOLEAN)
      /\ Len(EventsOf(s, k)) = Cardinality(Places(s, k)) /\ IsFiniteSet(Places(s, k))
  BY EventsType, PlacesFinite
<1>2. Cardinality(Places(s, k)) = 0 <=> Places(s, k) = {}
  BY <1>1, FS_EmptySet
<1> QED BY <1>1, <1>2, EmptySeq

LEMMA EventsAppend ==
    ASSUME NEW s \in Seq(Records), NEW r \in Records, NEW k
    PROVE  EventsOf(Append(s, r), k) =
             IF r.key = k THEN Append(EventsOf(s, k), r.pressed) ELSE EventsOf(s, k)
<1> DEFINE a == Append(s, r)
           n == Len(s) + 1
           P == Places(s, k)
           Q == Places(a, k)
           e == EventsOf(s, k)
<1>1. /\ a \in Seq(Records) /\ Len(a) = n /\ Len(s) \in Nat /\ a[n] = r
      /\ \A i \in 1 .. Len(s) : a[i] = s[i]
  BY AppendProperties, LenProperties
<1>2. /\ IsFiniteSet(P) /\ \A i \in P : i \in 1 .. Len(s)
      /\ P \in SUBSET (1 .. Len(s)) /\ \A i \in P : i \in Nat
  BY PlacesFinite
<1>3. Q = IF r.key = k THEN P \cup {n} ELSE P
  <2> HIDE DEF a
  <2> QED BY <1>1 DEF Places
<1>4. /\ e \in Seq(BOOLEAN) /\ Len(e) = Cardinality(P)
      /\ \A i \in P : RankIn(P, i) \in 1 .. Cardinality(P) /\ e[RankIn(P, i)] = s[i].pressed
  BY EventsType
<1>5. \A i \in P : RankIn(Q, i) = RankIn(P, i)
  <2>1. ASSUME NEW i \in P PROVE {j \in Q : j <= i} = {j \in P : j <= i}
    <3> HIDE DEF P, Q
    <3> QED BY <1>1, <1>2, <1>3
  <2> HIDE DEF P, Q
  <2> QED BY <2>1 DEF RankIn
<1>6. r.pressed \in BOOLEAN
  BY DEF Records
<1>7. CASE r.key # k
  <2>1. \A i \in P : a[i] = s[i]
    BY <1>1, <1>2
  <2> HIDE DEF a, e, P, Q
  <2>2. Q = P
    BY <1>3, <1>7
  <2>3. EventsOf(a, k) = e
    BY <1>1, <1>4, <2>1, <2>2, EventsUnique DEF Q
  <2> QED BY <1>7, <2>3 DEF a, e
<1>8. CASE r.key = k
  <2> DEFINE f == Append(e, r.pressed)
  <2>1. /\ f \in Seq(BOOLEAN) /\ Len(f) = Len(e) + 1 /\ f[Len(e)+1] = r.pressed
        /\ \A m \in 1 .. Len(e) : f[m] = e[m]
    <3> HIDE DEF e
    <3> QED BY <1>4, <1>6, AppendProperties
  <2>2. n \notin P /\ Cardinality(Q) = Cardinality(P) + 1
    <3>1. n \notin P
      BY <1>1, <1>2
    <3> HIDE DEF P, Q
    <3> QED BY <1>2, <1>3, <1>8, <3>1, FS_AddElement
  <2>3. RankIn(Q, n) = Cardinality(P) + 1
    <3>1. {j \in Q : j <= n} = Q
      <4>1. \A j \in P : j <= n
        BY <1>1, <1>2
      <4>2. n <= n
        BY <1>1
      <4> HIDE DEF P, Q, n
      <4> QED BY <1>3, <1>8, <4>1, <4>2
    <3> HIDE DEF P, Q
    <3> QED BY <2>2, <3>1 DEF RankIn
  <2>4. ASSUME NEW i \in Q PROVE f[RankIn(Q, i)] = a[i].pressed
    <3>1. CASE i = n
      <4> HIDE DEF f, e, P, Q
      <4> QED BY <1>1, <1>4, <2>1, <2>3, <3>1
    <3>2. CASE i # n
      <4>1. i \in P
        <5> HIDE DEF P, Q
        <5> QED BY <1>3, <1>8, <3>2
      <4>2. a[i] = s[i]
        BY <1>1, <1>2, <4>1
      <4> HIDE DEF f, e, P, Q, a
      <4> QED BY <1>4, <1>5, <2>1, <4>1, <4>2
    <3> QED BY <3>1, <3>2
  <2> HIDE DEF f, e, P, a
  <2>5. EventsOf(a, k) = f
    <3>1. Len(f) = Cardinality(Places(a, k))
      BY <1>4, <2>1, <2>2
    <3>2. \A i \in Places(a, k) : f[RankIn(Places(a, k), i)] = a[i].pressed
      BY <2>4
    <3> QED BY <1>1, <2>1, <3>1, <3>2, EventsUnique
  <2> QED BY <1>8, <2>5 DEF a, e, f
<1> QED BY <1>7, <1>8

(* Records that differ in tap.count and tap.interrupted only.              *)
LEMMA EventsAlike ==
    ASSUME NEW s \in Seq(Records), NEW t \in Seq(Records), Len(t) = Len(s),
           \A i \in 1 .. Len(s) : t[i].key = s[i].key /\ t[i].pressed = s[i].pressed,
           NEW k
    PROVE  EventsOf(t, k) = EventsOf(s, k)
<1>1. Places(t, k) = Places(s, k)
  BY DEF Places
<1>2. /\ EventsOf(s, k) \in Seq(BOOLEAN)
      /\ Len(EventsOf(s, k)) = Cardinality(Places(s, k))
      /\ \A i \in Places(s, k) :
            EventsOf(s, k)[RankIn(Places(s, k), i)] = s[i].pressed
  BY EventsType
<1>3. \A i \in Places(s, k) : t[i].pressed = s[i].pressed
  BY DEF Places
<1> QED BY <1>1, <1>2, <1>3, EventsUnique

LEMMA EventsHead ==
    ASSUME NEW s \in Seq(Records), s # <<>>
    PROVE  /\ EventsOf(s, s[1].key) # <<>>
           /\ EventsOf(s, s[1].key)[1] = s[1].pressed
<1> DEFINE k == s[1].key
           P == Places(s, k)
<1>1. Len(s) \in Nat \ {0} /\ 1 \in 1 .. Len(s)
  BY EmptySeq
<1>2. 1 \in P /\ \A i \in P : i \in Nat /\ i >= 1
  BY <1>1 DEF Places
<1>3. {j \in P : j <= 1} = {1}
  <2> HIDE DEF P
  <2> QED BY <1>2
<1>4. RankIn(P, 1) = 1
  <2> HIDE DEF P
  <2> QED BY <1>3, FS_Singleton DEF RankIn
<1>5. EventsOf(s, k)[RankIn(P, 1)] = s[1].pressed
  BY <1>2, EventsType
<1>6. EventsOf(s, k) # <<>>
  BY <1>2, EventsEmpty
<1> QED BY <1>4, <1>5, <1>6

LEMMA EventsTail ==
    ASSUME NEW s \in Seq(Records), s # <<>>, NEW k
    PROVE  EventsOf(Tail(s), k) =
             IF s[1].key = k THEN Tail(EventsOf(s, k)) ELSE EventsOf(s, k)
<1> DEFINE t == Tail(s)
           P == Places(s, k)
           Q == Places(t, k)
           e == EventsOf(s, k)
<1>1. /\ t \in Seq(Records) /\ Len(s) \in Nat \ {0} /\ Len(t) = Len(s) - 1
      /\ \A i \in 1 .. Len(t) : t[i] = s[i+1]
  BY HeadTailProperties, EmptySeq
<1>2. /\ IsFiniteSet(P) /\ \A i \in P : i \in 1 .. Len(s) /\ i \in Nat
      /\ IsFiniteSet(Q) /\ \A i \in Q : i \in 1 .. Len(t) /\ i \in Nat
  BY <1>1, PlacesFinite
<1>3. \A i \in 1 .. Len(t) : i \in Q <=> i+1 \in P
  <2>1. \A i \in 1 .. Len(t) : i+1 \in 1 .. Len(s)
    BY <1>1
  <2> HIDE DEF t
  <2> QED BY <1>1, <2>1 DEF Places
<1>4. 1 \in P <=> s[1].key = k
  BY <1>1 DEF Places
<1>5. /\ e \in Seq(BOOLEAN) /\ Len(e) = Cardinality(P)
      /\ \A i \in P : RankIn(P, i) \in 1 .. Cardinality(P) /\ e[RankIn(P, i)] = s[i].pressed
  BY EventsType
<1> DEFINE d == IF s[1].key = k THEN 1 ELSE 0
<1>6. ASSUME NEW i
      PROVE  LET A == {j \in Q : j <= i}
                 B == {j \in P : j <= i+1} \ {1}
             IN  i \in Nat => Cardinality(A) = Cardinality(B)
  <2> DEFINE A == {j \in Q : j <= i}
             B == {j \in P : j <= i+1} \ {1}
             g == [j \in A |-> j+1]
  <2> SUFFICES ASSUME i \in Nat PROVE Cardinality(A) = Cardinality(B)
    OBVIOUS
  <2>1. IsFiniteSet(A)
    <3>1. A \in SUBSET Q
      OBVIOUS
    <3> HIDE DEF A, Q
    <3> QED BY <1>2, <3>1, FS_Subset
  <2>2. \A j \in A : j+1 \in B
    <3> HIDE DEF P, Q
    <3> QED BY <1>2, <1>3
  <2>3. \A y \in B : \E j \in A : j+1 = y
    <3>1. ASSUME NEW y \in B PROVE y-1 \in A /\ (y-1)+1 = y
      <4>1. y \in P /\ y <= i+1 /\ y # 1 /\ y \in Nat /\ y \in 1 .. Len(s)
        <5> HIDE DEF P, Q
        <5> QED BY <1>2
      <4>2. y-1 \in 1 .. Len(t) /\ (y-1)+1 = y
        <5> HIDE DEF P, Q, t
        <5> QED BY <1>1, <4>1
      <4> HIDE DEF P, Q, t
      <4> QED BY <1>3, <4>1, <4>2
    <3> HIDE DEF A, B
    <3> QED BY <3>1
  <2>4. \A j, m \in A : j+1 = m+1 => j = m
    <3> HIDE DEF P, Q
    <3> QED BY <1>2
  <2> HIDE DEF A, B
  <2>5. g \in Bijection(A, B)
    BY <2>2, <2>3, <2>4 DEF Bijection, Injection, Surjection, IsInjective
  <2> QED BY <2>1, <2>5, FS_Bijection DEF ExistsBijection
<1>7. ASSUME NEW i \in Q PROVE RankIn(Q, i) = RankIn(P, i+1) - d
  <2> DEFINE B == {j \in P : j <= i+1}
  <2>1. IsFiniteSet(B) /\ i \in Nat
    <3>1. B \in SUBSET P
      OBVIOUS
    <3> HIDE DEF B, P, Q
    <3> QED BY <1>2, <3>1, FS_Subset
  <2>2. 1 \in B <=> s[1].key = k
    <3> HIDE DEF P, Q
    <3> QED BY <1>2, <1>4
  <2>3. RankIn(Q, i) = Cardinality(B \ {1}) /\ RankIn(P, i+1) = Cardinality(B)
    <3>1. RankIn(Q, i) = Cardinality({j \in Q : j <= i}) /\ RankIn(P, i+1) = Cardinality(B)
      BY DEF RankIn
    <3> HIDE DEF P, Q
    <3> QED BY <1>6, <2>1, <3>1
  <2> HIDE DEF B
  <2>4. Cardinality(B) \in Nat
    BY <2>1, FS_CardinalityType
  <2>5. Cardinality(B \ {1}) = IF 1 \in B THEN Cardinality(B)-1 ELSE Cardinality(B)
    BY <2>1, FS_RemoveElement
  <2> QED BY <2>2, <2>3, <2>4, <2>5
<1>8. Cardinality(Q) = Cardinality(P) - d
  <2> DEFINE n == Len(s)
  <2>1. {j \in Q : j <= n} = Q /\ {j \in P : j <= n+1} \ {1} = P \ {1} /\ n \in Nat
    <3> HIDE DEF P, Q
    <3> QED BY <1>1, <1>2
  <2>2. Cardinality(Q) = Cardinality(P \ {1})
    <3> HIDE DEF P, Q, n
    <3> QED BY <1>6, <2>1
  <2> HIDE DEF P, Q
  <2>3. Cardinality(P) \in Nat
    BY <1>2, FS_CardinalityType
  <2>4. Cardinality(P \ {1}) = IF 1 \in P THEN Cardinality(P)-1 ELSE Cardinality(P)
    BY <1>2, FS_RemoveElement
  <2> QED BY <1>4, <2>2, <2>3, <2>4
<1>9. CASE s[1].key # k
  <2> HIDE DEF P, Q, e, t
  <2>1. \A i \in Q : e[RankIn(Q, i)] = t[i].pressed
    <3>1. ASSUME NEW i \in Q PROVE e[RankIn(Q, i)] = t[i].pressed
      <4>1. i+1 \in P /\ t[i] = s[i+1]
        BY <1>1, <1>2, <1>3
      <4>2. RankIn(Q, i) = RankIn(P, i+1) - 0
        BY <1>7, <1>9
      <4>3. RankIn(P, i+1) \in 1 .. Cardinality(P)
        BY <1>5, <4>1
      <4>4. RankIn(Q, i) = RankIn(P, i+1)
        BY <4>2, <4>3, <1>2, FS_CardinalityType
      <4> QED BY <1>5, <4>1, <4>4
    <3> QED BY <3>1
  <2>2. Cardinality(Q) = Cardinality(P)
    BY <1>2, <1>8, <1>9, FS_CardinalityType
  <2>3. EventsOf(t, k) = e
    BY <1>1, <1>5, <2>1, <2>2, EventsUnique DEF Q
  <2> QED BY <1>9, <2>3 DEF t, e
<1>10. CASE s[1].key = k
  <2>1. e # <<>>
    BY <1>10, EventsHead
  <2> HIDE DEF P, Q, e, t
  <2> DEFINE f == Tail(e)
  <2>2. /\ f \in Seq(BOOLEAN) /\ Len(f) = Len(e) - 1 /\ Len(e) \in Nat
        /\ \A m \in 1 .. Len(f) : f[m] = e[m+1]
    BY <1>5, <2>1, HeadTailProperties, LenProperties
  <2> HIDE DEF f
  <2>3. \A i \in Q : f[RankIn(Q, i)] = t[i].pressed
    <3>1. ASSUME NEW i \in Q PROVE f[RankIn(Q, i)] = t[i].pressed
      <4>1. i+1 \in P /\ t[i] = s[i+1]
        BY <1>1, <1>2, <1>3
      <4>2. RankIn(Q, i) = RankIn(P, i+1) - 1
        BY <1>7, <1>10
      <4>3. RankIn(P, i+1) \in 1 .. Cardinality(P)
        BY <1>5, <4>1
      <4>4. RankIn(Q, i) \in 1 .. Cardinality(Q)
        BY <1>2, <1>1, EventsType DEF Q
      <4>5. RankIn(Q, i) \in 1 .. Len(f) /\ RankIn(Q, i) + 1 = RankIn(P, i+1)
        BY <1>5, <1>8, <1>10, <2>2, <4>2, <4>3, <4>4
      <4> QED BY <1>5, <2>2, <4>1, <4>5
    <3> QED BY <3>1
  <2>4. Len(f) = Cardinality(Q)
    BY <1>5, <1>8, <1>10, <2>2
  <2>5. EventsOf(t, k) = f
    BY <1>1, <2>2, <2>3, <2>4, EventsUnique DEF Q
  <2> QED BY <1>10, <2>5 DEF t, e, f
<1> QED BY <1>9, <1>10

(* The last event of a key is that of its last record.                     *)
LEMMA EventsLast ==
    ASSUME NEW s \in Seq(Records), NEW k, EventsOf(s, k) # <<>>
    PROVE  \E m \in Places(s, k) :
              /\ \A i \in Places(s, k) : i <= m
              /\ EventsOf(s, k)[Len(EventsOf(s, k))] = s[m].pressed
<1> DEFINE P == Places(s, k)
           c == Cardinality(P)
<1>0. IsFiniteSet(P) /\ \A i \in P : i \in Nat
  BY PlacesFinite
<1>1. /\ c \in Nat
      /\ \A i \in P : RankIn(P, i) \in 1 .. c
      /\ \A i, j \in P : i < j => RankIn(P, i) < RankIn(P, j)
      /\ \A n \in 1 .. c : \E i \in P : RankIn(P, i) = n
  <2> HIDE DEF P
  <2> QED BY <1>0, RankNumbers
<1>2. /\ EventsOf(s, k) \in Seq(BOOLEAN) /\ Len(EventsOf(s, k)) = c
      /\ \A i \in P : EventsOf(s, k)[RankIn(P, i)] = s[i].pressed
  BY EventsType
<1>3. c \in 1 .. c
  BY <1>1, <1>2, EmptySeq
<1>4. PICK m \in P : RankIn(P, m) = c
  BY <1>1, <1>3
<1>5. ASSUME NEW i \in P PROVE i <= m
  <2>1. ~(m < i)
    <3> SUFFICES ASSUME m < i PROVE FALSE
      OBVIOUS
    <3>1. RankIn(P, m) < RankIn(P, i) /\ RankIn(P, i) \in 1 .. c
      BY <1>1
    <3> HIDE DEF c, P
    <3> QED BY <1>1, <1>4, <3>1
  <2> QED BY <1>0, <2>1
<1> QED BY <1>2, <1>4, <1>5

-----------------------------------------------------------------------------
(* process_action stores no keymap, and records a layer at a press only.   *)
SameLayers(q, r) == r.keymap = q.keymap /\ r.pressed = q.pressed

LEMMA SendLayers ==
    ASSUME NEW q \in Kb PROVE SameLayers(q, send_keyboard_report(q))
BY DEF send_keyboard_report, Kb, SameLayers

LEMMA RegisterLayers ==
    ASSUME NEW q \in Kb, NEW mods \in SUBSET Mods, NEW code
    PROVE  /\ SameLayers(q, register_mods(q, mods))
           /\ SameLayers(q, unregister_mods(q, mods))
           /\ SameLayers(q, register_code(q, code))
           /\ SameLayers(q, unregister_code(q, code))
<1>1. ASSUME NEW r \in Kb, SameLayers(q, r) PROVE SameLayers(q, send_keyboard_report(r))
  BY <1>1, SendLayers DEF SameLayers
<1>2. /\ [q EXCEPT !.real = @ \cup mods] \in Kb /\ [q EXCEPT !.real = @ \ mods] \in Kb
      /\ SameLayers(q, [q EXCEPT !.real = @ \cup mods])
      /\ SameLayers(q, [q EXCEPT !.real = @ \ mods])
  BY DEF Kb, SameLayers
<1>3. ASSUME code \in KeyCodes
      PROVE /\ [q EXCEPT !.keys = @ \cup {code}] \in Kb /\ [q EXCEPT !.keys = @ \ {code}] \in Kb
            /\ SameLayers(q, [q EXCEPT !.keys = @ \cup {code}])
            /\ SameLayers(q, [q EXCEPT !.keys = @ \ {code}])
  BY <1>3 DEF Kb, SameLayers
<1>4. ASSUME code \in Mods
      PROVE /\ [q EXCEPT !.real = @ \cup {code}] \in Kb /\ [q EXCEPT !.real = @ \ {code}] \in Kb
            /\ SameLayers(q, [q EXCEPT !.real = @ \cup {code}])
            /\ SameLayers(q, [q EXCEPT !.real = @ \ {code}])
  BY <1>4 DEF Kb, SameLayers
<1>5. \A page, c : SameLayers(q, host_send(q, page, c))
  BY DEF host_send, Kb, SameLayers
<1>6. SameLayers(q, q)
  BY DEF SameLayers
<1>7. SameLayers(q, register_mods(q, mods)) /\ SameLayers(q, unregister_mods(q, mods))
  BY <1>1, <1>2, <1>6 DEF register_mods, unregister_mods
<1>8. SameLayers(q, register_code(q, code)) /\ SameLayers(q, unregister_code(q, code))
  <2>1. CASE code \in KeyCodes
    BY <1>1, <1>3, <2>1, ActionsAssumption DEF register_code, unregister_code, IsUsage, Pages
  <2>2. CASE code \in Mods
    BY <1>1, <1>4, <2>2, ActionsAssumption DEF register_code, unregister_code, IsUsage, Pages
  <2>3. CASE code \notin KeyCodes \cup Mods
    BY <1>5, <1>6, <2>3 DEF register_code, unregister_code
  <2> QED BY <2>1, <2>2, <2>3
<1> QED BY <1>7, <1>8

LEMMA ClearLayers ==
    ASSUME NEW q \in Kb PROVE SameLayers(q, clear_keyboard(q))
BY DEF clear_keyboard, send_keyboard_report, Kb, SameLayers

LEMMA ModsLayers ==
    ASSUME NEW q \in Kb, NEW a, a.mods \in SUBSET Mods, NEW pressed
    PROVE  SameLayers(q, ProcessMods(q, a, pressed))
<1> DEFINE released == unregister_code(q, a.code)
           held == send_keyboard_report([q EXCEPT !.weak = @ \cup a.mods])
           rest == send_keyboard_report([released EXCEPT !.weak = @ \ a.mods])
<1>1. released \in Kb /\ SameLayers(q, released)
  BY RegisterCodeType, RegisterLayers
<1> HIDE DEF released
<1>2. /\ [q EXCEPT !.weak = @ \cup a.mods] \in Kb
      /\ [released EXCEPT !.weak = @ \ a.mods] \in Kb
      /\ SameLayers(q, [q EXCEPT !.weak = @ \cup a.mods])
      /\ SameLayers(q, [released EXCEPT !.weak = @ \ a.mods])
  BY <1>1 DEF Kb, SameLayers
<1>3. held \in Kb /\ SameLayers(q, held) /\ SameLayers(q, rest)
  BY <1>2, SendType, SendLayers DEF SameLayers
<1> HIDE DEF held, rest
<1>4. \A r \in Kb : SameLayers(r, register_code(r, a.code))
  BY RegisterLayers
<1>5. SameLayers(q, register_code(q, a.code)) /\ SameLayers(q, register_code(held, a.code))
  BY <1>3, <1>4 DEF SameLayers
<1>6. ProcessMods(q, a, pressed) =
        IF pressed THEN register_code(IF a.mods = {} THEN q ELSE held, a.code)
        ELSE IF a.mods = {} THEN released ELSE rest
  BY DEF ProcessMods, held, rest, released
<1> QED BY <1>1, <1>3, <1>5, <1>6

LEMMA ProcessActionLayers ==
    ASSUME NEW q \in Kb, NEW rec \in Records
    PROVE  SameLayers(Track(q, rec), process_action(q, rec))
<1> DEFINE a == layer_switch_get_action(q, rec)
           t == Track(q, rec)
           p == process_action(q, rec)
<1>1. /\ rec.key \in Keys /\ rec.pressed \in BOOLEAN /\ rec.interrupted \in BOOLEAN
      /\ rec.count \in Nat
  BY TappingAssumption DEF Records
<1>2. a \in Actions /\ t \in Kb
  BY <1>1, GetActionType, TrackType
<1>d. p = CASE a.kind = "MODS"       -> ProcessMods(t, a, rec.pressed)
          [] a.kind = "MODS_TAP" /\ a.code = MODS_ONESHOT ->
                ProcessOneShot(t, a.mods, rec)
          [] a.kind = "MODS_TAP" /\ a.code = MODS_TAP_TOGGLE ->
                ProcessTapToggle(t, a.mods, rec)
          [] a.kind = "MODS_TAP" /\ a.code \notin {MODS_ONESHOT, MODS_TAP_TOGGLE} ->
                ProcessModsTap(t, a, rec)
          [] a.kind = "USAGE"      ->
                host_send(t, a.page, IF rec.pressed THEN a.code ELSE KC_NO)
          [] a.kind = "LAYER"      -> ProcessLayer(t, a, rec.pressed)
          [] a.kind = "LAYER_TAP"  -> ProcessLayerTap(t, a, rec)
          [] a.kind = "LAYER_MODS" -> ProcessLayerMods(t, a, rec.pressed)
          [] OTHER                 -> t
  BY DEF process_action
<1>3. /\ a.kind \in {"MODS", "MODS_TAP", "LAYER_MODS"} => a.mods \in SUBSET Mods
      /\ a.kind \in {"LAYER_TAP", "LAYER_MODS"} => a.val \in Layers
  BY <1>2, ActionFields
<1> SUFFICES SameLayers(t, p)
  OBVIOUS
<1> HIDE DEF a, t, p
<1>r. \A r \in Kb : \A mods \in SUBSET Mods : \A code :
        /\ SameLayers(r, register_mods(r, mods)) /\ SameLayers(r, unregister_mods(r, mods))
        /\ SameLayers(r, register_code(r, code)) /\ SameLayers(r, unregister_code(r, code))
  BY RegisterLayers
<1>l. \A val \in Layers :
        /\ SameLayers(t, layer_on(t, val)) /\ SameLayers(t, layer_off(t, val))
        /\ SameLayers(t, layer_invert(t, val)) /\ SameLayers(t, layer_move(t, val))
        /\ SameLayers(t, layer_clear(t)) /\ SameLayers(t, t)
  BY <1>2 DEF layer_on, layer_off, layer_invert, layer_move, layer_clear, Kb, SameLayers
<1>4. CASE a.kind = "MODS"
  BY <1>2, <1>3, <1>4, <1>d, ModsLayers
<1>5. CASE a.kind = "MODS_TAP" /\ a.code = MODS_ONESHOT
  <2>1. /\ [t EXCEPT !.oneshot = a.mods] \in Kb /\ [t EXCEPT !.oneshot = {}] \in Kb
        /\ SameLayers(t, [t EXCEPT !.oneshot = a.mods])
        /\ SameLayers(t, [t EXCEPT !.oneshot = {}])
    BY <1>2, <1>3, <1>5 DEF Kb, SameLayers
  <2>2. /\ SameLayers(t, register_mods(t, a.mods)) /\ SameLayers(t, t)
        /\ SameLayers(t, unregister_mods([t EXCEPT !.oneshot = {}], a.mods))
    BY <1>2, <1>3, <1>5, <1>r, <2>1 DEF SameLayers
  <2>3. SameLayers(t, ProcessOneShot(t, a.mods, rec))
    BY <1>1, <2>1, <2>2 DEF ProcessOneShot
  <2>4. p = ProcessOneShot(t, a.mods, rec)
    BY <1>5, <1>d DEF MODS_ONESHOT, MODS_TAP_TOGGLE
  <2> QED BY <2>3, <2>4
<1>6. CASE a.kind = "MODS_TAP" /\ a.code = MODS_TAP_TOGGLE
  <2>1. /\ SameLayers(t, register_mods(t, a.mods)) /\ SameLayers(t, t)
        /\ SameLayers(t, unregister_mods(t, a.mods))
    BY <1>2, <1>3, <1>6, <1>r DEF SameLayers
  <2>2. SameLayers(t, ProcessTapToggle(t, a.mods, rec))
    BY <2>1, Zenon DEF ProcessTapToggle
  <2>3. p = ProcessTapToggle(t, a.mods, rec)
    BY <1>6, <1>d DEF MODS_ONESHOT, MODS_TAP_TOGGLE
  <2> QED BY <2>2, <2>3
<1>7. CASE a.kind = "MODS_TAP" /\ a.code \notin {MODS_ONESHOT, MODS_TAP_TOGGLE}
  <2>1. SameLayers(t, ProcessModsTap(t, a, rec))
    BY <1>1, <1>2, <1>3, <1>7, <1>r DEF ProcessModsTap
  <2> QED BY <1>7, <1>d, <2>1
<1>8. CASE a.kind = "USAGE"
  BY <1>2, <1>8, <1>d DEF host_send, Kb, SameLayers
<1>9. CASE a.kind = "LAYER"
  BY <1>2, <1>9, <1>d DEF ProcessLayer, Kb, SameLayers
<1>10. CASE a.kind = "LAYER_TAP"
  <2>1. /\ SameLayers(t, register_code(t, a.code)) /\ SameLayers(t, unregister_code(t, a.code))
        /\ SameLayers(t, layer_on(t, a.val)) /\ SameLayers(t, layer_off(t, a.val))
        /\ SameLayers(t, layer_invert(t, a.val)) /\ SameLayers(t, layer_move(t, a.val))
        /\ SameLayers(t, layer_clear(t)) /\ SameLayers(t, t)
    BY <1>2, <1>3, <1>10, <1>r, <1>l
  <2>2. CASE a.code \in LayerModes
    BY <1>1, <1>10, <1>d, <2>1, <2>2 DEF ProcessLayerTap, LayerModes, OP_TAP_TOGGLE,
       OP_ON_OFF, OP_OFF_ON, OP_SET_CLEAR
  <2>3. CASE a.code \notin LayerModes
    BY <1>1, <1>10, <1>d, <2>1, <2>3 DEF ProcessLayerTap, LayerModes, OP_TAP_TOGGLE,
       OP_ON_OFF, OP_OFF_ON, OP_SET_CLEAR
  <2> QED BY <2>2, <2>3
<1>11. CASE a.kind = "LAYER_MODS"
  <2>1. /\ layer_on(t, a.val) \in Kb /\ layer_off(t, a.val) \in Kb
        /\ SameLayers(t, layer_on(t, a.val)) /\ SameLayers(t, layer_off(t, a.val))
    BY <1>2, <1>3, <1>11, <1>l, LayerOpsType
  <2>2. /\ SameLayers(t, register_mods(layer_on(t, a.val), a.mods))
        /\ SameLayers(t, unregister_mods(layer_off(t, a.val), a.mods))
    BY <1>3, <1>11, <1>r, <2>1 DEF SameLayers
  <2> QED BY <1>11, <1>d, <2>2 DEF ProcessLayerMods
<1>12. CASE a.kind \notin {"MODS", "MODS_TAP", "USAGE", "LAYER", "LAYER_TAP", "LAYER_MODS"}
  BY <1>2, <1>12, <1>d, <1>l, ActionsAssumption DEF SameLayers
<1> QED BY <1>4, <1>5, <1>6, <1>7, <1>8, <1>9, <1>10, <1>11, <1>12

(* A step of the engine takes a keyboard to one of the same keymap; only   *)
(* presses have their layer recorded.                                      *)
LEMMA ActLayers ==
    ASSUME NEW q \in Kb, NEW rec \in Records
    PROVE  /\ process_action(q, rec).keymap = q.keymap
           /\ \A k \in Keys : k # rec.key \/ ~rec.pressed =>
                 process_action(q, rec).pressed[k] = q.pressed[k]
           /\ process_action(q, rec).pressed = Track(q, rec).pressed
           /\ Track(q, rec).keymap = q.keymap
           /\ \A k \in Keys : k # rec.key \/ ~rec.pressed =>
                 Track(q, rec).pressed[k] = q.pressed[k]
<1>1. SameLayers(Track(q, rec), process_action(q, rec))
  BY ProcessActionLayers
<1>2. Track(q, rec).keymap = q.keymap
  BY DEF Track, Kb
<1>3. \A k \in Keys : k # rec.key \/ ~rec.pressed =>
         Track(q, rec).pressed[k] = q.pressed[k]
  BY DEF Track, Kb
<1> QED BY <1>1, <1>2, <1>3 DEF SameLayers

-----------------------------------------------------------------------------
(* The order in which the events of a key take effect.                     *)

IsTapAction(a) ==
    \/ a.kind = "MODS_TAP"
    \/ a.kind = "LAYER_TAP" /\ a.code \notin {OP_ON_OFF, OP_OFF_ON, OP_SET_CLEAR}

(* A key with such an action on some layer, and a press of one in the      *)
(* waiting buffer.                                                         *)
TapKey(k) == \E a \in ActionsOf(kb, k) : IsTapAction(a)

Slots == 1 .. Len(waiting_buffer)
TapPress(i) == waiting_buffer[i].pressed /\ TapKey(waiting_buffer[i].key)

(* The condition of the theorems below: of all the presses that wait one   *)
(* at most is of such a key.                                               *)
OneTapWaits == \A i, j \in Slots : TapPress(i) /\ TapPress(j) => i = j

(* The key of an action that is recorded has it on some layer.             *)
LEMMA StartsTapKey ==
    ASSUME Engine, NEW rec, Given(rec), StartsTap(rec)
    PROVE  rec \in Records /\ rec.pressed /\ TapKey(rec.key)
<1>1. rec \in Records /\ rec.pressed /\ is_tap_key(kb, rec)
  BY GivenEvent DEF StartsTap
<1>2. rec.key \in Keys /\ kb \in Kb
  BY <1>1, RecordFields DEF Engine
<1>3. Track(kb, rec) \in Kb
  BY <1>2, TrackType
<1> DEFINE l == Track(kb, rec).pressed[rec.key]
           a == layer_switch_get_action(kb, rec)
<1>4. l \in Layers
  BY <1>2, <1>3 DEF Kb
<1>5. a = action_for_key(kb, l, rec.key)
  BY DEF layer_switch_get_action
<1>6. a \in ActionsOf(kb, rec.key)
  <2> HIDE DEF l, a
  <2> QED BY <1>4, <1>5 DEF ActionsOf
<1>7. IsTapAction(a)
  BY <1>1 DEF is_tap_key, IsTapAction
<1> QED BY <1>1, <1>6, <1>7 DEF TapKey

LEMMA TapKeyStable ==
    ASSUME kb'.keymap = kb.keymap PROVE \A k : TapKey(k)' <=> TapKey(k)
<1>1. \A k : ActionsOf(kb, k)' = ActionsOf(kb, k)
  BY DEF ActionsOf, action_for_key
<1> QED BY <1>1 DEF TapKey, IsTapAction, OP_ON_OFF, OP_OFF_ON, OP_SET_CLEAR

(* No call of process_tapping changes the keymap.                          *)
LEMMA ActKeymap ==
    ASSUME Engine, NEW rec, rec \in Records \/ rec.key = NOEVENT
    PROVE  Act(rec) \in Kb /\ Act(rec).keymap = kb.keymap
BY ActType, ActLayers DEF Act, Engine

LEMMA KeepKeymap ==
    ASSUME Engine, NEW newKb \in Kb, newKb.keymap = kb.keymap,
           NEW tapping, NEW rec, NEW done, Keep(newKb, tapping, rec, done)
    PROVE  kb'.keymap = kb.keymap
<1>1. clear_keyboard(newKb).keymap = kb.keymap
  BY ClearLayers DEF SameLayers
<1> QED BY <1>1, Zenon DEF Keep

LEMMA StartKeymap ==
    ASSUME Engine, NEW rec \in Records, NEW before \in Kb, before.keymap = kb.keymap,
           StartTapping(before, rec)
    PROVE  kb'.keymap = kb.keymap
<1> DEFINE tap == [rec EXCEPT !.count = 1]
<1>1. tap \in Records
  BY RecordFields
<1> HIDE DEF tap
<1>2. process_action(before, tap).keymap = kb.keymap
  BY <1>1, ActLayers
<1>3. kb' = before \/ kb' = process_action(before, tap)
  BY DEF StartTapping, Consume, tap
<1> QED BY <1>2, <1>3

LEMMA CallKeymap ==
    ASSUME Engine, NEW rec, Given(rec), process_tapping(rec)
    PROVE  kb'.keymap = kb.keymap
<1>0. kb \in Kb /\ (rec \in Records \/ rec.key = NOEVENT)
  BY DEF Engine, Given
<1>1. CASE FirstTap(rec) \/ Timeout(rec)
  <2>1. tapping_key \in Records
    BY <1>1, TappingKey DEF FirstTap, Timeout, Undecided, IS_TAPPING_PRESSED
  <2> DEFINE tap == [tapping_key EXCEPT !.count = 1]
  <2>2. tap \in Records
    BY <2>1, RecordFields
  <2> HIDE DEF tap
  <2>3. /\ Act(tap) \in Kb /\ Act(tap).keymap = kb.keymap
        /\ Act(tapping_key) \in Kb /\ Act(tapping_key).keymap = kb.keymap
    BY <2>1, <2>2, ActKeymap
  <2>4. \E t, r, d : Keep(Act(tap), t, r, d) \/ Keep(Act(tapping_key), t, r, d)
    BY <1>1, Zenon DEF FirstTap, Timeout, tap
  <2> QED BY <2>3, <2>4, KeepKeymap
<1>2. CASE RetainModifier(rec) \/ WaitForDecision(rec) \/ TapExpires(rec)
  <2>1. \E t, r, d : Keep(kb, t, r, d)
    BY <1>2, Zenon DEF RetainModifier, WaitForDecision, TapExpires
  <2> QED BY <1>0, <2>1, KeepKeymap
<1>3. CASE ReleaseAtOnce(rec) \/ EventDuringTap(rec) \/ EventAfterTap(rec) \/ PlainEvent(rec)
  <2>1. kb' = Act(rec)
    BY <1>3, Zenon DEF ReleaseAtOnce, EventDuringTap, EventAfterTap, PlainEvent, Consume
  <2> QED BY <1>0, <2>1, ActKeymap
<1>4. CASE TapReleased(rec)
  <2>1. IS_TAPPING /\ rec.key # NOEVENT /\ kb' = Act(WithTap(rec))
    BY <1>4 DEF TapReleased, OwnRelease, IS_TAPPING_KEY, IS_TAPPING, Consume
  <2>2. WithTap(rec) \in Records
    BY <2>1, GivenEvent, WithTapType
  <2> QED BY <2>1, <2>2, ActKeymap
<1>5. CASE SequentialTap(rec)
  <2> DEFINE tap == [WithTap(rec) EXCEPT !.count = IF @ < TapMax THEN @ + 1 ELSE @]
  <2>1. IS_TAPPING /\ rec.key # NOEVENT /\ kb' = Act(tap)
    BY <1>5 DEF SequentialTap, IS_TAPPING_KEY, IS_TAPPING, Consume
  <2>2. WithTap(rec) \in Records
    BY <2>1, GivenEvent, WithTapType
  <2>3. tap \in Records
    BY <2>2, TappingAssumption DEF Records
  <2> HIDE DEF tap
  <2> QED BY <2>1, <2>3, ActKeymap
<1>6. CASE StartAgain(rec)
  BY <1>6 DEF StartAgain, Consume
<1>7. CASE NextTapKey(rec) \/ OtherTapKey(rec) \/ PressTapKey(rec)
  <2>1. rec \in Records /\ rec.key \in Keys
    BY <1>7, StartsTapKey, RecordFields DEF NextTapKey, OtherTapKey, PressTapKey
  <2>2. Track(kb, rec) \in Kb /\ Track(kb, rec).keymap = kb.keymap
    BY <1>0, <2>1, TrackType, ActLayers
  <2>3. IS_TAPPING => ForcedRelease(rec) \in Records
    BY <2>1, TappingKey DEF ForcedRelease, Records
  <2>4. IS_TAPPING => /\ process_action(Track(kb, rec), ForcedRelease(rec)) \in Kb
                      /\ process_action(Track(kb, rec), ForcedRelease(rec)).keymap = kb.keymap
    BY <2>2, <2>3, ProcessActionType, ActLayers
  <2>5. NextTapKey(rec) => IS_TAPPING
    BY DEF NextTapKey, Tapped, IS_TAPPING_PRESSED
  <2>6. \E before \in Kb : before.keymap = kb.keymap /\ StartTapping(before, rec)
    BY <1>7, <2>2, <2>4, <2>5 DEF NextTapKey, OtherTapKey, PressTapKey
  <2> QED BY <2>1, <2>6, StartKeymap
<1> QED BY <1>1, <1>2, <1>3, <1>4, <1>5, <1>6, <1>7 DEF process_tapping

(* A record is due when the TICK of its pass has been handled: from then   *)
(* on it waits only for a reason.                                          *)
Due(j) == waiting_buffer[j].time # now \/ pos = TickPos

(* The buffer: its records are in the order of their times, none is older  *)
(* than the tapping term allows, and a step of time made at most one of    *)
(* each key.                                                               *)
QueueInv ==
    /\ \A i \in Slots : waiting_buffer[i].pressed =>
          waiting_buffer[i].count = 0 /\ ~waiting_buffer[i].interrupted
    /\ \A i, j \in Slots : i < j =>
          Age(waiting_buffer[i].time) >= Age(waiting_buffer[j].time)
    /\ \A i \in Slots : Age(waiting_buffer[i].time) <= TAPPING_TERM + 1
    /\ \A i \in Slots : TapPress(i) => Age(waiting_buffer[i].time) <= TAPPING_TERM
    /\ \A i, j \in Slots :
          i # j /\ waiting_buffer[i].time = now /\ waiting_buffer[j].time = now
             => waiting_buffer[i].key # waiting_buffer[j].key
    /\ \A i \in Slots : waiting_buffer[i].time = now =>
          changed = "before" \/ (changed = "now" /\ waiting_buffer[i].key <= pos)

(* The ways in which a step changes the buffer.                            *)
Like(x, y) ==
    /\ x.key = y.key /\ x.pressed = y.pressed /\ x.time = y.time
    /\ x.pressed => x.count = y.count /\ x.interrupted = y.interrupted

Drops ==
    /\ Len(waiting_buffer') = Len(waiting_buffer) - 1
    /\ \A i \in 1 .. Len(waiting_buffer) - 1 : Like(waiting_buffer'[i], waiting_buffer[i+1])

Stays ==
    /\ Len(waiting_buffer') = Len(waiting_buffer)
    /\ \A i \in Slots : Like(waiting_buffer'[i], waiting_buffer[i])

Adds(r) ==
    /\ Len(waiting_buffer') = Len(waiting_buffer) + 1
    /\ \A i \in Slots : waiting_buffer'[i] = waiting_buffer[i]
    /\ waiting_buffer'[Len(waiting_buffer) + 1] = r

LEMMA LikeItself == \A x : Like(x, x)
BY DEF Like

LEMMA BufferType ==
    ASSUME Engine
    PROVE  /\ Len(waiting_buffer) \in Nat /\ waiting_buffer \in Seq(Records)
           /\ \A i \in Slots : /\ waiting_buffer[i] \in Records
                               /\ waiting_buffer[i].key \in Keys
                               /\ waiting_buffer[i].pressed \in BOOLEAN
                               /\ waiting_buffer[i].time \in Times
                               /\ waiting_buffer[i].count \in Nat
                               /\ waiting_buffer[i].interrupted \in BOOLEAN
           /\ waiting_buffer # <<>> => 1 \in Slots
<1>1. Len(waiting_buffer) \in Nat /\ waiting_buffer \in Seq(Records)
  BY LenProperties DEF Engine
<1>2. \A i \in Slots : waiting_buffer[i] \in Records
  BY <1>1, ElementOfSeq DEF Slots
<1>3. \A r \in Records : /\ r.key \in Keys /\ r.pressed \in BOOLEAN /\ r.time \in Times
                         /\ r.count \in Nat /\ r.interrupted \in BOOLEAN
  BY TappingAssumption DEF Records, Times
<1>4. waiting_buffer # <<>> => 1 \in Slots
  BY <1>1, EmptySeq DEF Slots
<1> QED BY <1>1, <1>2, <1>3, <1>4

LEMMA ConsumeShape ==
    ASSUME Engine, pc = "drain" => waiting_buffer # <<>>,
           NEW newKb, NEW tapping, NEW done,
           NEW buffer \in Seq(Records), Len(buffer) = Len(waiting_buffer),
           \A i \in Slots : Like(buffer[i], waiting_buffer[i]),
           Consume(newKb, tapping, buffer, done)
    PROVE  /\ pc' = "drain" /\ tapping_key' = tapping /\ kb' = newKb
           /\ pc = "drain" => Drops
           /\ pc = "scan" => Stays
<1>1. ASSUME pc = "drain" PROVE Drops
  <2>1. buffer # <<>>
    BY <1>1, EmptySeq DEF Engine
  <2>2. /\ Len(Tail(buffer)) = Len(buffer) - 1
        /\ \A i \in 1 .. Len(Tail(buffer)) : Tail(buffer)[i] = buffer[i+1]
    BY <2>1, HeadTailProperties
  <2>3. waiting_buffer' = Tail(buffer) /\ Len(waiting_buffer) \in Nat
    BY <1>1, BufferType DEF Consume
  <2>4. \A i \in 1 .. Len(waiting_buffer) - 1 : i+1 \in Slots
    BY <2>3 DEF Slots
  <2> QED BY <2>2, <2>3, <2>4 DEF Drops
<1>2. ASSUME pc = "scan" PROVE Stays
  BY <1>2 DEF Consume, Stays
<1> QED BY <1>1, <1>2 DEF Consume

LEMMA ConsumeSame ==
    ASSUME Engine, pc = "drain" => waiting_buffer # <<>>,
           NEW newKb, NEW tapping, NEW done,
           Consume(newKb, tapping, waiting_buffer, done)
    PROVE  /\ pc' = "drain" /\ tapping_key' = tapping /\ kb' = newKb
           /\ pc = "drain" => Drops
           /\ pc = "scan" => Stays
BY ConsumeShape, LikeItself, BufferType

LEMMA KeepShape ==
    ASSUME Engine, pc = "drain" => waiting_buffer # <<>>,
           NEW newKb, NEW tapping, NEW done, NEW rec \in Records,
           pc = "drain" => Like(rec, waiting_buffer[1]),
           Keep(newKb, tapping, rec, done)
    PROVE  /\ pc = "drain" => /\ Stays /\ pc' = "scan"
                              /\ tapping_key' = tapping /\ kb' = newKb
           /\ pc = "scan" =>
                /\ pc' = "drain"
                /\ \/ Adds(rec) /\ tapping_key' = tapping /\ kb' = newKb
                   \/ waiting_buffer' = <<>> /\ tapping_key' = NoTapping
<1>0. rec.key # NOEVENT
  BY RecordFields
<1>1. ASSUME pc = "drain"
      PROVE  Stays /\ pc' = "scan" /\ tapping_key' = tapping /\ kb' = newKb
  <2>1. waiting_buffer' = [waiting_buffer EXCEPT ![1] = rec] /\ 1 \in Slots
    BY <1>1, BufferType DEF Keep
  <2>2. /\ Len(waiting_buffer') = Len(waiting_buffer)
        /\ \A i \in Slots : waiting_buffer'[i] = IF i = 1 THEN rec ELSE waiting_buffer[i]
    BY <2>1, ExceptSeq, BufferType DEF Slots
  <2>3. Stays
    BY <1>1, <2>2, LikeItself DEF Stays
  <2> QED BY <1>1, <2>3 DEF Keep
<1>2. ASSUME pc = "scan"
      PROVE  /\ pc' = "drain"
             /\ \/ Adds(rec) /\ tapping_key' = tapping /\ kb' = newKb
                \/ waiting_buffer' = <<>> /\ tapping_key' = NoTapping
  <2>1. /\ Len(Append(waiting_buffer, rec)) = Len(waiting_buffer) + 1
        /\ \A i \in 1 .. Len(waiting_buffer) :
              Append(waiting_buffer, rec)[i] = waiting_buffer[i]
        /\ Append(waiting_buffer, rec)[Len(waiting_buffer) + 1] = rec
    BY BufferType, AppendProperties
  <2>2. \/ /\ waiting_buffer' = Append(waiting_buffer, rec) /\ pc' = "drain"
           /\ tapping_key' = tapping /\ kb' = newKb
        \/ waiting_buffer' = <<>> /\ tapping_key' = NoTapping /\ pc' = "drain"
    BY <1>0, <1>2, Zenon DEF Keep
  <2>3. waiting_buffer' = Append(waiting_buffer, rec) => Adds(rec)
    BY <2>1 DEF Adds, Slots
  <2> QED BY <2>2, <2>3
<1> QED BY <1>1, <1>2

LEMMA KeepTick ==
    ASSUME Engine, pc = "scan", NEW newKb, NEW tapping, NEW done,
           NEW rec, rec.key = NOEVENT, Keep(newKb, tapping, rec, done)
    PROVE  /\ pc' = "drain" /\ waiting_buffer' = waiting_buffer
           /\ tapping_key' = tapping /\ kb' = newKb
BY DEF Keep

LEMMA QueueDrops ==
    ASSUME Engine, waiting_buffer # <<>>, QueueInv, Drops, kb'.keymap = kb.keymap,
           UNCHANGED <<now, pos, changed>>
    PROVE  QueueInv'
<1>1. Len(waiting_buffer) \in Nat /\ Len(waiting_buffer') = Len(waiting_buffer) - 1
  BY BufferType DEF Drops
<1>2. \A i \in Slots' : i+1 \in Slots /\ Like(waiting_buffer'[i], waiting_buffer[i+1])
  BY <1>1 DEF Slots, Drops
<1>3. \A k : TapKey(k)' <=> TapKey(k)
  BY TapKeyStable
<1>4. \A i, j \in Slots' : (i < j => i+1 < j+1) /\ (i # j => i+1 # j+1)
  BY <1>1 DEF Slots
<1> QED BY <1>2, <1>3, <1>4 DEF QueueInv, Like, TapPress, Age

LEMMA QueueStays ==
    ASSUME Engine, QueueInv, Stays, kb'.keymap = kb.keymap,
           UNCHANGED <<now, pos, changed>>
    PROVE  QueueInv'
<1>1. Slots' = Slots /\ \A i \in Slots : Like(waiting_buffer'[i], waiting_buffer[i])
  BY DEF Slots, Stays
<1>3. \A k : TapKey(k)' <=> TapKey(k)
  BY TapKeyStable
<1> QED BY <1>1, <1>3 DEF QueueInv, Like, TapPress, Age

LEMMA QueueEmpty == waiting_buffer' = <<>> => QueueInv'
<1> SUFFICES ASSUME waiting_buffer' = <<>> PROVE QueueInv'
  OBVIOUS
<1>1. Slots' = {}
  BY EmptySeq DEF Slots
<1> QED BY <1>1 DEF QueueInv

(* A key that is scanned now has no record of this step in the buffer.     *)
LEMMA NotYetScanned ==
    ASSUME Engine, QueueInv, NEW key \in Keys, pos \in 0 .. TickPos, pos < key,
           changed # "before"
    PROVE  \A i \in Slots : waiting_buffer[i].time = now =>
              waiting_buffer[i].key # key /\ waiting_buffer[i].key <= pos
<1>1. \A i \in Slots : waiting_buffer[i].key \in Nat
  BY BufferType DEF Keys
<1>2. pos \in Nat /\ key \in Nat
  BY ActionsAssumption DEF TickPos, Keys
<1> QED BY <1>1, <1>2 DEF QueueInv

LEMMA QueueScan ==
    ASSUME Engine, QueueInv, NEW key \in Keys, pos \in 0 .. TickPos, pos < key,
           changed # "before", pos' = key, changed' = "now", now' = now, now \in Times,
           kb'.keymap = kb.keymap,
           \/ waiting_buffer' = <<>>
           \/ Stays
           \/ \E r \in Records : /\ Adds(r) /\ r.key = key /\ r.time = now
                                 /\ r.count = 0 /\ (r.pressed => ~r.interrupted)
           \/ \E r \in Records : Adds(r) /\ r.key = key /\ r.time = now /\ ~r.pressed
    PROVE  QueueInv'
<1>0. /\ Len(waiting_buffer) \in Nat /\ pos \in Nat /\ key \in Nat
      /\ \A i \in Slots : waiting_buffer[i].key \in Nat /\ waiting_buffer[i].time \in Times
  BY BufferType, ActionsAssumption DEF TickPos, Keys
<1>1. \A k : TapKey(k)' <=> TapKey(k)
  BY TapKeyStable
<1>2. \A i \in Slots : waiting_buffer[i].time = now =>
              waiting_buffer[i].key # key /\ waiting_buffer[i].key <= pos
  BY NotYetScanned
<1>3. CASE Stays
  <2>1. Slots' = Slots /\ \A i \in Slots : Like(waiting_buffer'[i], waiting_buffer[i])
    BY <1>3 DEF Slots, Stays
  <2> QED BY <1>0, <1>1, <1>2, <2>1 DEF QueueInv, Like, TapPress, Age
<1>4. ASSUME NEW r \in Records, Adds(r), r.key = key, r.time = now,
             r.pressed => r.count = 0 /\ ~r.interrupted
      PROVE  QueueInv'
  <2> DEFINE n == Len(waiting_buffer) + 1
  <2>1. /\ Slots' = 1 .. n /\ waiting_buffer'[n] = r
        /\ \A i \in Slots' : i \in Slots \/ i = n
        /\ \A i \in Slots : waiting_buffer'[i] = waiting_buffer[i] /\ i < n
    BY <1>0, <1>4 DEF Slots, Adds
  <2>2. AgeAt(now, now) = 0 /\ \A i \in Slots : AgeAt(now, waiting_buffer[i].time) >= 0
    <3>1. AgeAt(now, now) = 0 /\ \A i \in Slots : AgeAt(now, waiting_buffer[i].time) \in Times
      BY <1>0, Ages
    <3>2. \A t \in Times : t >= 0
      BY TappingAssumption DEF Times
    <3> QED BY <3>1, <3>2
  <2> HIDE DEF n
  <2>3. TAPPING_TERM \in Nat /\ n \in Nat
    BY <1>0, TappingAssumption DEF n
  <2>4. \A i \in Slots' : waiting_buffer'[i].pressed =>
          waiting_buffer'[i].count = 0 /\ ~waiting_buffer'[i].interrupted
    BY <1>4, <2>1 DEF QueueInv
  <2>5. ASSUME NEW i \in Slots', NEW j \in Slots', i < j
        PROVE  AgeAt(now, waiting_buffer'[i].time) >= AgeAt(now, waiting_buffer'[j].time)
    <3>1. i \in Slots
      BY <2>1, <2>3, <2>5 DEF Slots
    <3>2. CASE j \in Slots
      BY <2>1, <2>5, <3>1, <3>2 DEF QueueInv, Age
    <3>3. CASE j = n
      BY <1>4, <2>1, <2>2, <3>1, <3>3
    <3> QED BY <2>1, <3>2, <3>3
  <2>6. \A i \in Slots' : /\ AgeAt(now, waiting_buffer'[i].time) <= TAPPING_TERM + 1
                          /\ TapPress(i)' => AgeAt(now, waiting_buffer'[i].time) <= TAPPING_TERM
    BY <1>1, <1>4, <2>1, <2>2, <2>3 DEF QueueInv, Age, TapPress
  <2>7. \A i, j \in Slots' :
          i # j /\ waiting_buffer'[i].time = now /\ waiting_buffer'[j].time = now
             => waiting_buffer'[i].key # waiting_buffer'[j].key
    BY <1>2, <1>4, <2>1 DEF QueueInv
  <2>8. \A i \in Slots' : waiting_buffer'[i].time = now => waiting_buffer'[i].key <= key
    BY <1>0, <1>2, <1>4, <2>1
  <2> QED BY <2>4, <2>5, <2>6, <2>7, <2>8 DEF QueueInv, Age
<1>5. CASE waiting_buffer' = <<>>
  BY <1>5, QueueEmpty
<1> QED BY <1>3, <1>4, <1>5

LEMMA QueueTick ==
    ASSUME Engine, QueueInv, Stays, pos \in 0 .. TickPos, pos' = TickPos,
           changed' = changed, now' = now, kb'.keymap = kb.keymap
    PROVE  QueueInv'
<1>0. /\ pos \in Nat /\ pos <= TickPos /\ TickPos \in Nat
      /\ \A i \in Slots : waiting_buffer[i].key \in Nat /\ waiting_buffer[i].key <= TickPos
  BY BufferType, ActionsAssumption DEF TickPos, Keys
<1>1. Slots' = Slots /\ \A i \in Slots : Like(waiting_buffer'[i], waiting_buffer[i])
  BY DEF Slots, Stays
<1>2. \A k : TapKey(k)' <=> TapKey(k)
  BY TapKeyStable
<1> QED BY <1>0, <1>1, <1>2 DEF QueueInv, Like, TapPress, Age

LEMMA QueueWaitPass ==
    ASSUME Engine, QueueInv, WaitPass
    PROVE  QueueInv'
<1>1. /\ waiting_buffer' = waiting_buffer /\ kb' = kb /\ now' = now /\ pos' = 0
      /\ changed' = (IF changed = "no" THEN "no" ELSE "before")
  BY DEF WaitPass, Wait
<1>2. \A k : TapKey(k)' <=> TapKey(k)
  BY <1>1, TapKeyStable
<1> QED BY <1>1, <1>2 DEF QueueInv, Slots, TapPress, Age

(* A step of time makes all records older by one, which the buffer has     *)
(* room for when none is at its limit yet.                                 *)
LEMMA QueueWaitStep ==
    ASSUME Engine, QueueInv, WaitStep, now \in Times,
           \A i \in Slots : Age(waiting_buffer[i].time) <= TAPPING_TERM,
           \A i \in Slots : TapPress(i) => Age(waiting_buffer[i].time) < TAPPING_TERM
    PROVE  /\ QueueInv' /\ now' \in Times
           /\ \A i \in Slots : /\ waiting_buffer[i].time # now'
                               /\ AgeAt(now', waiting_buffer[i].time) =
                                    Age(waiting_buffer[i].time) + 1
<1>1. /\ waiting_buffer' = waiting_buffer /\ kb' = kb /\ pos' = 0 /\ changed' = "no"
      /\ now' = (now + 1) % (TimeMod - 1)
  BY DEF WaitStep, Wait
<1>2. \A k : TapKey(k)' <=> TapKey(k)
  BY <1>1, TapKeyStable
<1>3. /\ TAPPING_TERM \in Nat /\ TimeMod \in Nat /\ TAPPING_TERM < TimeMod - 2
      /\ TAPPING_TERM >= 1 /\ now \in Times
  BY TappingAssumption DEF Times
<1>4. now' \in Times
  <2>1. AgeAt(now, now) = 0
    BY <1>3, Ages
  <2> QED BY <1>1, <1>3, <2>1, AgeStep
<1>5. ASSUME NEW i \in Slots
      PROVE /\ AgeAt(now, waiting_buffer[i].time) \in Nat
            /\ AgeAt(now', waiting_buffer[i].time) = AgeAt(now, waiting_buffer[i].time) + 1
  <2>1. waiting_buffer[i].time \in Times
    BY BufferType
  <2>2. AgeAt(now, waiting_buffer[i].time) \in Nat
    <3>1. AgeAt(now, waiting_buffer[i].time) \in Times
      BY <1>3, <2>1, Ages
    <3> QED BY <1>3, <3>1 DEF Times
  <2>3. AgeAt(now, waiting_buffer[i].time) < TimeMod - 2
    BY <1>3, <2>2 DEF Age
  <2> QED BY <1>1, <1>3, <2>1, <2>2, <2>3, AgeStep
<1>6. ASSUME NEW i \in Slots PROVE waiting_buffer[i].time # now'
  <2>1. waiting_buffer[i].time \in Times
    BY BufferType
  <2>2. AgeAt(now', waiting_buffer[i].time) # 0
    BY <1>5
  <2> QED BY <1>4, <2>1, <2>2, Ages
<1>7. \A i, j \in Slots : i < j =>
        AgeAt(now', waiting_buffer[i].time) >= AgeAt(now', waiting_buffer[j].time)
  BY <1>5 DEF QueueInv, Age
<1>8. \A i \in Slots : /\ AgeAt(now', waiting_buffer[i].time) <= TAPPING_TERM + 1
                       /\ TapPress(i) => AgeAt(now', waiting_buffer[i].time) <= TAPPING_TERM
  BY <1>3, <1>5 DEF Age
<1>9. Slots' = Slots /\ \A i \in Slots : TapPress(i)' <=> TapPress(i)
  BY <1>1, <1>2 DEF Slots, TapPress
<1>10. QueueInv'
  BY <1>1, <1>6, <1>7, <1>8, <1>9 DEF QueueInv, Age
<1> QED BY <1>4, <1>5, <1>6, <1>10 DEF Age

(* What keeps a record of the tapping key's release behind it: a press, or *)
(* a release of another key that is held back.                             *)
Blocks(i) ==
    LET r == waiting_buffer[i]
    IN  \/ r.pressed
        \/ r.key # tapping_key.key /\ (IsModifierRelease(r) \/ waiting_buffer_typed(r))

(* Records that wait lie within a tapping term of each other and of the    *)
(* tapping key, up to those of the step that is scanned now; otherwise     *)
(* nothing but plain keys waits, for nothing.                              *)
PlainOnly == ~IS_TAPPING /\ \A i \in Slots : ~TapPress(i)

GapInv ==
    \A i, j \in Slots : i < j /\ Due(j) =>
        \/ TIMER_DIFF_16(waiting_buffer[j].time, waiting_buffer[i].time) < TAPPING_TERM
        \/ PlainOnly

InTerm ==
    Undecided \/ IS_TAPPING_RELEASED =>
        \A j \in Slots : Due(j) => WITHIN_TAPPING_TERM(waiting_buffer[j])

(* The release of an undecided tapping key stands behind something that    *)
(* blocks the buffer, or it has just come and is about to make a tap.      *)
Blocked ==
    Undecided => \A j \in Slots : OwnRelease(waiting_buffer[j]) =>
        \/ \E i \in Slots : i < j /\ Blocks(i)
        \/ pc = "drain" /\ ~Due(j) /\ ~tapping_key.interrupted

(* While it is a tap, the key is not pressed and released again in the     *)
(* buffer.                                                                 *)
NotAgain ==
    IS_TAPPING /\ tapping_key.count > 0 =>
        \A i, j \in Slots :
            /\ i < j /\ waiting_buffer[i].key = tapping_key.key /\ waiting_buffer[i].pressed
            /\ OwnRelease(waiting_buffer[j])
            => ~Due(j)

(* The buffer is drained unless the tapping key is undecided.              *)
NoneDue == \A j \in Slots : ~Due(j)
DrainedInv == pc = "scan" => Undecided \/ NoneDue

(* When a TICK or a record of this step was handled, an undecided tapping  *)
(* key is within its term, or no tap key waits behind it.                  *)
LatePlain ==
    Undecided /\ (pos = TickPos \/ \E j \in Slots : waiting_buffer[j].time = now) =>
        \/ TIMER_DIFF_16(now, tapping_key.time) < TAPPING_TERM
        \/ \A i \in Slots : ~TapPress(i)

TapAge ==
    Undecided =>
        /\ Age(tapping_key.time) <= TAPPING_TERM + 1
        /\ pos = TickPos => Age(tapping_key.time) <= TAPPING_TERM
        /\ \A j \in Slots : Age(tapping_key.time) >= Age(waiting_buffer[j].time)

TapState ==
    /\ Undecided /\ tapping_key.interrupted => \E i \in Slots : waiting_buffer[i].pressed
    /\ IS_TAPPING => TapKey(tapping_key.key)
    /\ IS_TAPPING_RELEASED => tapping_key.count > 0

TapInv ==
    /\ InTerm /\ Blocked /\ NotAgain /\ DrainedInv /\ LatePlain /\ TapAge /\ TapState

OrderInv == QueueInv /\ GapInv /\ TapInv

-----------------------------------------------------------------------------
(* What the next state has to satisfy, by the state of the tapping key.    *)

LEMMA AfterNone ==
    ASSUME ~IS_TAPPING', pc' = "scan" => NoneDue' PROVE TapInv'
BY DEF TapInv, InTerm, Blocked, NotAgain, DrainedInv, LatePlain, TapAge, TapState,
   Undecided, IS_TAPPING_PRESSED, IS_TAPPING_RELEASED

LEMMA AfterTapped ==
    ASSUME IS_TAPPING', tapping_key'.pressed, tapping_key'.count > 0,
           TapKey(tapping_key.key)', NotAgain', pc' = "scan" => NoneDue',
           tapping_key'.count \in Nat
    PROVE  TapInv'
BY DEF TapInv, InTerm, Blocked, DrainedInv, LatePlain, TapAge, TapState,
   Undecided, IS_TAPPING_PRESSED, IS_TAPPING_RELEASED

LEMMA AfterReleased ==
    ASSUME IS_TAPPING', ~tapping_key'.pressed, tapping_key'.count > 0,
           TapKey(tapping_key.key)', NotAgain', pc' = "scan" => NoneDue', InTerm'
    PROVE  TapInv'
BY DEF TapInv, Blocked, DrainedInv, LatePlain, TapAge, TapState,
   Undecided, IS_TAPPING_PRESSED, IS_TAPPING_RELEASED

LEMMA AfterUndecided ==
    ASSUME Undecided', InTerm', Blocked', LatePlain', TapAge', TapState'
    PROVE  TapInv'
BY DEF TapInv, NotAgain, DrainedInv, Undecided, IS_TAPPING_PRESSED

LEMMA TapStates ==
    ASSUME Engine
    PROVE  /\ IS_TAPPING => /\ tapping_key \in Records
                            /\ tapping_key.key \in Keys /\ tapping_key.pressed \in BOOLEAN
                            /\ tapping_key.time \in Times /\ tapping_key.count \in Nat
                            /\ tapping_key.interrupted \in BOOLEAN
           /\ Undecided \/ Tapped \/ IS_TAPPING_RELEASED => IS_TAPPING
           /\ Undecided => /\ tapping_key.pressed /\ tapping_key.count = 0
           /\ Tapped => tapping_key.pressed /\ tapping_key.count > 0
           /\ IS_TAPPING_RELEASED => ~tapping_key.pressed
           /\ IS_TAPPING <=> tapping_key.key # NOEVENT
<1>1. \A r \in Records : /\ r.key \in Keys /\ r.pressed \in BOOLEAN /\ r.time \in Times
                         /\ r.count \in Nat /\ r.interrupted \in BOOLEAN
  BY TappingAssumption DEF Records, Times
<1> QED BY <1>1, TappingKey DEF Undecided, Tapped, IS_TAPPING_PRESSED, IS_TAPPING_RELEASED,
        IS_TAPPING

(* The gaps survive a step that takes the first record away, or none.      *)
GapStrong ==
    \A i, j \in Slots : i < j /\ Due(j) =>
        TIMER_DIFF_16(waiting_buffer[j].time, waiting_buffer[i].time) < TAPPING_TERM

LEMMA GapsWhileTapping ==
    ASSUME GapInv, IS_TAPPING \/ \E i \in Slots : TapPress(i) PROVE GapStrong
BY DEF GapInv, GapStrong, PlainOnly

LEMMA GapDrops ==
    ASSUME Engine, waiting_buffer # <<>>, GapInv, Drops, kb'.keymap = kb.keymap,
           UNCHANGED <<now, pos>>,
           IS_TAPPING \/ (\E i \in Slots : TapPress(i)) \/ ~IS_TAPPING'
    PROVE  GapInv'
<1>1. Len(waiting_buffer) \in Nat /\ Len(waiting_buffer') = Len(waiting_buffer) - 1
  BY BufferType DEF Drops
<1>2. \A i \in Slots' : i+1 \in Slots /\ Like(waiting_buffer'[i], waiting_buffer[i+1])
  BY <1>1 DEF Slots, Drops
<1>3. \A k : TapKey(k)' <=> TapKey(k)
  BY TapKeyStable
<1>4. \A i, j \in Slots' : i < j => i+1 < j+1
  BY <1>1 DEF Slots
<1>5. \A i \in Slots' : Due(i)' <=> Due(i+1)
  BY <1>2 DEF Due, Like
<1>6. GapStrong => GapInv'
  BY <1>2, <1>4, <1>5 DEF GapStrong, GapInv, Like, TIMER_DIFF_16
<1>7. PlainOnly /\ ~IS_TAPPING' => PlainOnly'
  BY <1>2, <1>3 DEF PlainOnly, TapPress, Like
<1>8. ~GapStrong => PlainOnly
  BY DEF GapInv, GapStrong
<1>9. CASE GapStrong
  BY <1>6, <1>9
<1>10. CASE PlainOnly /\ ~IS_TAPPING'
  BY <1>7, <1>10 DEF GapInv
<1> QED BY <1>8, <1>9, <1>10, GapsWhileTapping

LEMMA GapStays ==
    ASSUME Engine, GapInv, Stays, kb'.keymap = kb.keymap,
           now' = now, (pos' = TickPos) <=> (pos = TickPos), IS_TAPPING \/ ~IS_TAPPING'
    PROVE  GapInv'
<1>1. Slots' = Slots /\ \A i \in Slots : Like(waiting_buffer'[i], waiting_buffer[i])
  BY DEF Slots, Stays
<1>3. \A k : TapKey(k)' <=> TapKey(k)
  BY TapKeyStable
<1>5. \A i \in Slots : Due(i)' <=> Due(i)
  BY <1>1 DEF Due, Like, TickPos
<1>6. GapStrong => GapInv'
  BY <1>1, <1>5 DEF GapStrong, GapInv, Like, TIMER_DIFF_16
<1>7. PlainOnly /\ ~IS_TAPPING' => PlainOnly'
  BY <1>1, <1>3 DEF PlainOnly, TapPress, Like
<1>8. ~GapStrong => PlainOnly
  BY DEF GapInv, GapStrong
<1>9. CASE GapStrong
  BY <1>6, <1>9
<1>10. CASE PlainOnly /\ ~IS_TAPPING'
  BY <1>7, <1>10 DEF GapInv
<1> QED BY <1>8, <1>9, <1>10, GapsWhileTapping

LEMMA GapNone == NoneDue' => GapInv'
BY DEF NoneDue, GapInv

-----------------------------------------------------------------------------
(* The loop over the buffer                                                *)

DrainCall ==
    /\ pc = "drain" /\ waiting_buffer # <<>>
    /\ UNCHANGED <<down, pos, now, changed>>

LEMMA DrainGiven ==
    ASSUME Inv, DrainCall
    PROVE  /\ Engine /\ 1 \in Slots /\ waiting_buffer[1] \in Records
           /\ waiting_buffer[1].key # NOEVENT /\ waiting_buffer[1].key \in Keys
           /\ Given(waiting_buffer[1]) /\ now \in Times /\ now' = now /\ pos' = pos
           /\ Len(waiting_buffer) \in Nat
<1>1. Engine /\ now \in Times
  BY DEF Inv, Times
<1>2. 1 \in Slots /\ waiting_buffer[1] \in Records /\ Len(waiting_buffer) \in Nat
  BY <1>1, BufferType DEF DrainCall
<1>3. waiting_buffer[1].key # NOEVENT /\ waiting_buffer[1].key \in Keys
  BY <1>2, RecordFields
<1> QED BY <1>1, <1>2, <1>3 DEF DrainCall, Given

LEMMA HeadNotDue ==
    ASSUME Inv, OrderInv, DrainCall, ~Due(1) PROVE NoneDue
<1>1. \A j \in Slots : waiting_buffer[j].time \in Times
  BY BufferType DEF Inv
<1>2. now \in Times /\ 1 \in Slots
  BY DrainGiven
<1>3. waiting_buffer[1].time = now /\ pos # TickPos
  BY DEF Due
<1>4. ASSUME NEW j \in Slots PROVE waiting_buffer[j].time = now
  <2>1. AgeAt(now, now) = 0 /\ AgeAt(now, waiting_buffer[j].time) \in Times
    BY <1>1, <1>2, Ages
  <2>2. AgeAt(now, waiting_buffer[j].time) <= 0 \/ j = 1
    <3>1. j = 1 \/ 1 < j
      BY BufferType DEF Slots
    <3> QED BY <1>2, <1>3, <2>1, <3>1 DEF OrderInv, QueueInv, Age
  <2>3. AgeAt(now, waiting_buffer[j].time) = 0 \/ j = 1
    BY <2>1, <2>2, TappingAssumption DEF Times
  <2> QED BY <1>1, <1>2, <1>3, <2>3, Ages
<1> QED BY <1>3, <1>4 DEF NoneDue, Due

(* The records that are left, each one place further to the front.         *)
LEMMA DropFacts ==
    ASSUME Inv, DrainCall, Drops, kb'.keymap = kb.keymap
    PROVE  /\ \A i \in Slots' :
                 /\ i+1 \in Slots /\ 1 < i+1 /\ i+1 # 1
                 /\ waiting_buffer'[i].key = waiting_buffer[i+1].key
                 /\ waiting_buffer'[i].pressed = waiting_buffer[i+1].pressed
                 /\ waiting_buffer'[i].time = waiting_buffer[i+1].time
                 /\ Due(i)' <=> Due(i+1)
                 /\ TapPress(i)' <=> TapPress(i+1)
           /\ \A i, j \in Slots' : i < j => i+1 < j+1
           /\ \A k : TapKey(k)' <=> TapKey(k)
<1>1. Len(waiting_buffer) \in Nat /\ Len(waiting_buffer') = Len(waiting_buffer) - 1
  BY DrainGiven DEF Drops
<1>2. \A i \in Slots' : i+1 \in Slots /\ 1 < i+1 /\ i+1 # 1
                        /\ Like(waiting_buffer'[i], waiting_buffer[i+1])
  BY <1>1 DEF Slots, Drops
<1>3. \A k : TapKey(k)' <=> TapKey(k)
  BY TapKeyStable
<1>4. \A i, j \in Slots' : i < j => i+1 < j+1
  BY <1>1 DEF Slots
<1>5. now' = now /\ pos' = pos
  BY DEF DrainCall
<1>6. \A i \in Slots' : (Due(i)' <=> Due(i+1)) /\ (TapPress(i)' <=> TapPress(i+1))
  BY <1>2, <1>3, <1>5 DEF Due, Like, TapPress, TickPos
<1> QED BY <1>2, <1>3, <1>4, <1>6 DEF Like

LEMMA StayFacts ==
    ASSUME Inv, DrainCall, Stays, kb'.keymap = kb.keymap
    PROVE  /\ Slots' = Slots
           /\ \A i \in Slots :
                 /\ waiting_buffer'[i].key = waiting_buffer[i].key
                 /\ waiting_buffer'[i].pressed = waiting_buffer[i].pressed
                 /\ waiting_buffer'[i].time = waiting_buffer[i].time
                 /\ Due(i)' <=> Due(i)
                 /\ TapPress(i)' <=> TapPress(i)
           /\ \A k : TapKey(k)' <=> TapKey(k)
<1>1. Slots' = Slots /\ \A i \in Slots : Like(waiting_buffer'[i], waiting_buffer[i])
  BY DEF Slots, Stays
<1>2. \A k : TapKey(k)' <=> TapKey(k)
  BY TapKeyStable
<1>3. now' = now /\ pos' = pos
  BY DEF DrainCall
<1> QED BY <1>1, <1>2, <1>3 DEF Due, Like, TapPress, TickPos

LEMMA DrainFirstTap ==
    ASSUME Inv, OrderInv, DrainCall, FirstTap(waiting_buffer[1])
    PROVE  OrderInv' /\ Tapped'
<1> DEFINE rec == waiting_buffer[1]
           tap == [tapping_key EXCEPT !.count = 1]
           t == Decided(tap)
           kept == [rec EXCEPT !.count = t.count, !.interrupted = t.interrupted]
<1>0. process_tapping(waiting_buffer[1])
  BY DEF process_tapping
<1>1. /\ Engine /\ 1 \in Slots /\ rec \in Records /\ Given(rec) /\ rec.key # NOEVENT
      /\ now' = now /\ pos' = pos /\ now \in Times
  BY DrainGiven
<1>2. kb'.keymap = kb.keymap
  BY <1>0, <1>1, CallKeymap
<1>3. Undecided /\ OwnRelease(rec) /\ IS_TAPPING
  BY TapStates, <1>1 DEF FirstTap
<1>4. /\ tapping_key \in Records /\ tapping_key.pressed /\ tapping_key.key # NOEVENT
  BY <1>1, <1>3, TapStates
<1>5. ~Due(1) /\ ~tapping_key.interrupted
  <2>1. \A i \in Slots : ~(i < 1)
    BY DEF Slots
  <2> QED BY <1>1, <1>3, <2>1 DEF OrderInv, TapInv, Blocked
<1>6. tap \in Records /\ ~tap.interrupted /\ tap.count = 1 /\ tap.pressed
      /\ tap.key = tapping_key.key
  BY <1>4, <1>5, RecordFields DEF Records
<1> HIDE DEF tap
<1>7. t = tap
  BY <1>6 DEF Decided, Cancels
<1> HIDE DEF t
<1>8. kept \in Records /\ Like(kept, rec)
  <2>1. kept \in Records
    BY <1>1, <1>6, <1>7 DEF Records
  <2>2. ~rec.pressed
    BY <1>3 DEF OwnRelease
  <2>3. kept.key = rec.key /\ kept.pressed = rec.pressed /\ kept.time = rec.time
    BY <1>1 DEF Records
  <2> QED BY <2>1, <2>2, <2>3 DEF Like
<1>9. Keep(Act(tap), t, kept, {tap})
  BY DEF FirstTap, tap, t
<1> HIDE DEF kept
<1>10. Stays /\ pc' = "scan" /\ tapping_key' = tap
  BY <1>1, <1>7, <1>8, <1>9, KeepShape DEF DrainCall
<1>11. IS_TAPPING' /\ tapping_key'.pressed /\ tapping_key'.count > 0 /\ tapping_key'.count \in Nat
  BY <1>4, <1>6, <1>10 DEF IS_TAPPING
<1>12. /\ Slots' = Slots /\ (\A i \in Slots : Due(i)' <=> Due(i))
       /\ \A k : TapKey(k)' <=> TapKey(k)
  BY <1>2, <1>10, StayFacts
<1>13. NoneDue
  BY <1>5, HeadNotDue
<1>14. NoneDue'
  BY <1>12, <1>13 DEF NoneDue
<1>15. QueueInv'
  BY <1>1, <1>2, <1>10, QueueStays DEF OrderInv, DrainCall
<1>16. GapInv'
  BY <1>14, GapNone
<1>17. NotAgain'
  BY <1>14 DEF NotAgain, NoneDue
<1>18. TapKey(tapping_key.key)'
  BY <1>3, <1>6, <1>10, <1>12 DEF OrderInv, TapInv, TapState
<1>19. TapInv'
  BY <1>11, <1>14, <1>17, <1>18, AfterTapped
<1> QED BY <1>11, <1>15, <1>16, <1>19 DEF OrderInv, Tapped, IS_TAPPING_PRESSED

LEMMA DrainTimeout ==
    ASSUME Inv, OrderInv, DrainCall,
           Timeout(waiting_buffer[1]) \/ TapExpires(waiting_buffer[1])
    PROVE  OrderInv' /\ ~IS_TAPPING'
<1> DEFINE rec == waiting_buffer[1]
<1>0. process_tapping(waiting_buffer[1])
  BY DEF process_tapping
<1>1. /\ Engine /\ 1 \in Slots /\ rec \in Records /\ Given(rec)
      /\ now' = now /\ pos' = pos /\ now \in Times
  BY DrainGiven
<1>2. kb'.keymap = kb.keymap
  BY <1>0, <1>1, CallKeymap
<1>3. (Undecided \/ IS_TAPPING_RELEASED) /\ ~WITHIN_TAPPING_TERM(rec)
  BY DEF Timeout, TapExpires
<1>4. ~Due(1)
  BY <1>1, <1>3 DEF OrderInv, TapInv, InTerm
<1>5. \E newKb, done : Keep(newKb, NoTapping, rec, done)
  BY Zenon DEF Timeout, TapExpires
<1>6. Stays /\ pc' = "scan" /\ tapping_key' = NoTapping
  BY <1>1, <1>5, KeepShape, LikeItself DEF DrainCall
<1>7. ~IS_TAPPING'
  BY <1>6 DEF IS_TAPPING, NoTapping, Record
<1>8. Slots' = Slots /\ (\A i \in Slots : Due(i)' <=> Due(i))
  BY <1>2, <1>6, StayFacts
<1>9. NoneDue
  BY <1>4, HeadNotDue
<1>10. NoneDue'
  BY <1>8, <1>9 DEF NoneDue
<1>11. QueueInv'
  BY <1>1, <1>2, <1>6, QueueStays DEF OrderInv, DrainCall
<1> QED BY <1>7, <1>10, <1>11, GapNone, AfterNone DEF OrderInv

LEMMA DrainConsumes ==
    ASSUME Inv, OrderInv, DrainCall, NEW newKb, NEW tapping, NEW done,
           Consume(newKb, tapping, waiting_buffer, done), kb'.keymap = kb.keymap
    PROVE  /\ Drops /\ pc' = "drain" /\ tapping_key' = tapping /\ kb' = newKb
           /\ QueueInv'
           /\ IS_TAPPING \/ (\E i \in Slots : TapPress(i)) \/ ~IS_TAPPING' => GapInv'
<1>1. Engine /\ waiting_buffer # <<>> /\ pc = "drain"
  BY DEF Inv, DrainCall
<1>2. Drops /\ pc' = "drain" /\ tapping_key' = tapping /\ kb' = newKb
  BY <1>1, ConsumeSame
<1>3. QueueInv'
  BY <1>1, <1>2, QueueDrops DEF OrderInv, DrainCall
<1> QED BY <1>1, <1>2, <1>3, GapDrops DEF OrderInv, DrainCall

(* The records that pass the tapping key.                                  *)
LEMMA DrainPlain ==
    ASSUME Inv, OrderInv, DrainCall,
           \/ EventDuringTap(waiting_buffer[1]) \/ EventAfterTap(waiting_buffer[1])
           \/ PlainEvent(waiting_buffer[1])
    PROVE  OrderInv'
<1> DEFINE rec == waiting_buffer[1]
<1>0. process_tapping(waiting_buffer[1])
  BY DEF process_tapping
<1>1. Engine /\ Given(rec) /\ rec \in Records /\ now' = now
  BY DrainGiven
<1>2. kb'.keymap = kb.keymap
  BY <1>0, <1>1, CallKeymap
<1>3. CASE EventDuringTap(rec)
  <2>1. Consume(Act(rec), tapping_key, waiting_buffer, {rec}) /\ Tapped
    BY <1>3 DEF EventDuringTap
  <2>2. IS_TAPPING /\ tapping_key.pressed /\ tapping_key.count > 0 /\ tapping_key.count \in Nat
    BY <1>1, <2>1, TapStates
  <2>3. /\ Drops /\ pc' = "drain" /\ tapping_key' = tapping_key /\ QueueInv' /\ GapInv'
    BY <1>2, <2>1, <2>2, DrainConsumes
  <2>4. NotAgain'
    BY <1>2, <2>2, <2>3, DropFacts DEF NotAgain, OwnRelease, IS_TAPPING_KEY, IS_TAPPING,
       OrderInv, TapInv
  <2>5. IS_TAPPING' /\ TapKey(tapping_key.key)'
    BY <1>2, <2>2, <2>3, TapKeyStable DEF IS_TAPPING, OrderInv, TapInv, TapState
  <2>6. TapInv'
    BY <2>2, <2>3, <2>4, <2>5, AfterTapped
  <2> QED BY <2>3, <2>6 DEF OrderInv
<1>4. CASE EventAfterTap(rec)
  <2> DEFINE t == [tapping_key EXCEPT !.interrupted = @ \/ rec.pressed]
  <2>1. Consume(Act(rec), t, waiting_buffer, {rec}) /\ IS_TAPPING_RELEASED
    BY <1>4 DEF EventAfterTap
  <2>2. /\ IS_TAPPING /\ ~tapping_key.pressed /\ tapping_key \in Records
        /\ tapping_key.count > 0
    BY <1>1, <2>1, TapStates DEF OrderInv, TapInv, TapState
  <2>3. /\ t.key = tapping_key.key /\ t.pressed = tapping_key.pressed
        /\ t.time = tapping_key.time /\ t.count = tapping_key.count
    BY <2>2 DEF Records
  <2> HIDE DEF t
  <2>4. /\ Drops /\ pc' = "drain" /\ tapping_key' = t /\ QueueInv' /\ GapInv'
    BY <1>2, <2>1, <2>2, DrainConsumes
  <2>5. NotAgain'
    BY <1>2, <2>2, <2>3, <2>4, DropFacts DEF NotAgain, OwnRelease, IS_TAPPING_KEY,
       IS_TAPPING, OrderInv, TapInv
  <2>6. IS_TAPPING' /\ TapKey(tapping_key.key)'
    BY <1>2, <2>2, <2>3, <2>4, TapKeyStable DEF IS_TAPPING, OrderInv, TapInv, TapState
  <2>7. InTerm'
    BY <1>2, <2>1, <2>3, <2>4, DropFacts DEF InTerm, WITHIN_TAPPING_TERM, OrderInv, TapInv,
       TIMER_DIFF_16
  <2>8. TapInv'
    BY <2>2, <2>3, <2>4, <2>5, <2>6, <2>7, AfterReleased
  <2> QED BY <2>4, <2>8 DEF OrderInv
<1>5. CASE PlainEvent(rec)
  <2>1. Consume(Act(rec), tapping_key, waiting_buffer, {rec}) /\ ~IS_TAPPING
    BY <1>5 DEF PlainEvent
  <2>2. tapping_key' = tapping_key /\ pc' = "drain" /\ QueueInv'
    BY <1>2, <2>1, DrainConsumes
  <2>3. ~IS_TAPPING'
    BY <2>1, <2>2 DEF IS_TAPPING
  <2>4. GapInv'
    BY <1>2, <2>1, <2>3, DrainConsumes
  <2> QED BY <2>2, <2>3, <2>4, AfterNone DEF OrderInv
<1> QED BY <1>3, <1>4, <1>5

LEMMA DrainTapReleased ==
    ASSUME Inv, OrderInv, DrainCall, TapReleased(waiting_buffer[1])
    PROVE  OrderInv'
<1> DEFINE rec == waiting_buffer[1]
           t == IF WITHIN_TAPPING_TERM(rec) THEN WithTap(rec) ELSE NoTapping
<1>0. process_tapping(waiting_buffer[1])
  BY DEF process_tapping
<1>1. Engine /\ Given(rec) /\ rec \in Records /\ now' = now /\ 1 \in Slots
  BY DrainGiven
<1>2. kb'.keymap = kb.keymap
  BY <1>0, <1>1, CallKeymap
<1>3. /\ Consume(Act(WithTap(rec)), t, waiting_buffer, {rec})
      /\ Tapped /\ OwnRelease(rec)
  BY DEF TapReleased
<1>4. IS_TAPPING /\ tapping_key.count > 0 /\ tapping_key.key = rec.key /\ ~rec.pressed
  BY <1>1, <1>3, TapStates DEF OwnRelease, IS_TAPPING_KEY
<1>5. /\ WithTap(rec).key = tapping_key.key /\ WithTap(rec).pressed = FALSE
      /\ WithTap(rec).time = rec.time /\ WithTap(rec).count = tapping_key.count
  BY <1>1, <1>4 DEF WithTap, Records
<1> HIDE DEF t
<1>6. /\ Drops /\ pc' = "drain" /\ tapping_key' = t /\ QueueInv' /\ GapInv'
  BY <1>2, <1>3, <1>4, DrainConsumes
<1>7. CASE WITHIN_TAPPING_TERM(rec)
  <2>1. tapping_key' = WithTap(rec)
    BY <1>6, <1>7 DEF t
  <2>2. IS_TAPPING' /\ TapKey(tapping_key.key)'
    BY <1>2, <1>4, <1>5, <2>1, TapKeyStable DEF IS_TAPPING, OrderInv, TapInv, TapState
  <2>3. NotAgain'
    BY <1>2, <1>4, <1>5, <1>6, <2>1, DropFacts DEF NotAgain, OwnRelease, IS_TAPPING_KEY,
       IS_TAPPING, OrderInv, TapInv
  <2>4. GapStrong
    BY <1>4, GapsWhileTapping DEF OrderInv
  <2>5. InTerm'
    <3>1. \A j \in Slots' : Due(j)' => TIMER_DIFF_16(waiting_buffer'[j].time, rec.time)
                                          < TAPPING_TERM
      BY <1>1, <1>2, <1>6, <2>4, DropFacts DEF GapStrong
    <3> QED BY <1>5, <2>1, <3>1 DEF InTerm, WITHIN_TAPPING_TERM, TIMER_DIFF_16
  <2>6. TapInv'
    BY <1>4, <1>5, <1>6, <2>1, <2>2, <2>3, <2>5, AfterReleased
  <2> QED BY <1>6, <2>6 DEF OrderInv
<1>8. CASE ~WITHIN_TAPPING_TERM(rec)
  <2>1. ~IS_TAPPING'
    BY <1>6, <1>8 DEF t, IS_TAPPING, NoTapping, Record
  <2> QED BY <1>6, <2>1, AfterNone DEF OrderInv
<1> QED BY <1>7, <1>8

(* A press of the only tap key that waits leaves none behind it.           *)
LEMMA OthersPlain ==
    ASSUME Inv, OneTapWaits, DrainCall, Drops, kb'.keymap = kb.keymap, TapPress(1)
    PROVE  \A i \in Slots' : /\ ~TapPress(i)'
                             /\ waiting_buffer'[i].key = waiting_buffer[1].key
                                  => ~waiting_buffer'[i].pressed
<1>1. 1 \in Slots
  BY DrainGiven
<1>2. ASSUME NEW i \in Slots' PROVE ~TapPress(i+1) /\ i+1 \in Slots
  BY <1>1, DropFacts DEF OneTapWaits
<1> QED BY <1>2, DropFacts DEF TapPress

LEMMA DrainToTapped ==
    ASSUME Inv, OrderInv, OneTapWaits, DrainCall, TapPress(1), Drops, QueueInv', GapInv',
           pc' = "drain", kb'.keymap = kb.keymap,
           tapping_key'.key = waiting_buffer[1].key, tapping_key'.pressed,
           tapping_key'.count > 0, tapping_key'.count \in Nat
    PROVE  OrderInv' /\ Tapped'
<1>1. waiting_buffer[1].key # NOEVENT
  BY DrainGiven
<1>2. IS_TAPPING' /\ TapKey(tapping_key.key)'
  BY <1>1, TapKeyStable DEF IS_TAPPING, TapPress
<1>3. NotAgain'
  BY OthersPlain DEF NotAgain
<1>4. TapInv'
  BY <1>2, <1>3, AfterTapped
<1> QED BY <1>2, <1>4 DEF OrderInv, Tapped, IS_TAPPING_PRESSED

LEMMA DrainToUndecided ==
    ASSUME Inv, OrderInv, OneTapWaits, DrainCall, TapPress(1), NEW newKb, NEW done,
           Consume(newKb, waiting_buffer[1], waiting_buffer, done), kb'.keymap = kb.keymap,
           \A j \in Slots : /\ waiting_buffer[j].key = waiting_buffer[1].key
                            /\ ~waiting_buffer[j].pressed
                            => ~Due(j)
    PROVE  OrderInv' /\ Undecided'
<1> DEFINE rec == waiting_buffer[1]
<1>1. /\ Engine /\ rec \in Records /\ now' = now /\ pos' = pos /\ 1 \in Slots
      /\ rec.key # NOEVENT
  BY DrainGiven
<1>2. Drops /\ pc' = "drain" /\ tapping_key' = rec /\ QueueInv' /\ GapInv'
  BY <1>1, DrainConsumes
<1>3. rec.pressed /\ TapKey(rec.key) /\ rec.count = 0 /\ ~rec.interrupted
  BY <1>1 DEF TapPress, OrderInv, QueueInv
<1>4. IS_TAPPING' /\ Undecided' /\ ~IS_TAPPING_RELEASED'
  BY <1>1, <1>2, <1>3 DEF IS_TAPPING, Undecided, IS_TAPPING_PRESSED, IS_TAPPING_RELEASED
<1>5. GapStrong
  BY <1>1, GapsWhileTapping DEF OrderInv
<1>6. InTerm'
  <2>1. \A j \in Slots' : Due(j)' => TIMER_DIFF_16(waiting_buffer'[j].time, rec.time)
                                        < TAPPING_TERM
    BY <1>1, <1>2, <1>5, DropFacts DEF GapStrong
  <2> QED BY <1>2, <2>1 DEF InTerm, WITHIN_TAPPING_TERM, TIMER_DIFF_16
<1>7. Blocked'
  <2>1. \A j \in Slots' : waiting_buffer'[j].key = rec.key /\ ~waiting_buffer'[j].pressed
                            => ~Due(j)'
    BY <1>1, <1>2, DropFacts
  <2> QED BY <1>2, <1>3, <2>1 DEF Blocked, OwnRelease, IS_TAPPING_KEY
<1>8. LatePlain'
  BY <1>2, OthersPlain DEF LatePlain
<1>9. TapAge'
  <2>1. Age(rec.time) <= TAPPING_TERM
    BY <1>1 DEF OrderInv, QueueInv
  <2>2. \A j \in Slots' : Age(rec.time) >= Age(waiting_buffer'[j].time)
    BY <1>1, <1>2, DropFacts DEF OrderInv, QueueInv
  <2>3. Age(rec.time) \in Int
    <3>1. now \in Times /\ rec.time \in Times
      BY <1>1, BufferType, DrainGiven
    <3>2. AgeAt(now, rec.time) \in Times
      BY <3>1, Ages
    <3> QED BY <3>2 DEF Times, Age
  <2>4. Age(rec.time) <= TAPPING_TERM + 1
    BY <2>1, <2>3, TappingAssumption
  <2> QED BY <1>1, <1>2, <2>1, <2>2, <2>4 DEF TapAge, Age
<1>10. TapState'
  BY <1>1, <1>2, <1>3, <1>4, TapKeyStable DEF TapState
<1>11. TapInv'
  BY <1>4, <1>6, <1>7, <1>8, <1>9, <1>10, AfterUndecided
<1> QED BY <1>2, <1>4, <1>11 DEF OrderInv

(* The two ways in which waiting_buffer_scan_tap ends.                     *)
LEMMA StartSplit ==
    ASSUME Engine, NEW rec \in Records, rec.count = 0, NEW before, StartTapping(before, rec)
    PROVE  \/ TapRelease(rec) = {} /\ Consume(before, rec, waiting_buffer, {})
           \/ /\ TapRelease(rec) # {}
              /\ \E buffer \in Seq(Records) :
                    /\ Len(buffer) = Len(waiting_buffer)
                    /\ \A i \in Slots : Like(buffer[i], waiting_buffer[i])
                    /\ Consume(process_action(before, [rec EXCEPT !.count = 1]),
                               [rec EXCEPT !.count = 1], buffer, {rec})
<1>0. waiting_buffer \in Seq(Records)
  BY DEF Engine
<1>1. CASE TapRelease(rec) = {}
  BY <1>1 DEF StartTapping
<1>2. CASE TapRelease(rec) # {}
  <2> DEFINE i == CHOOSE i \in TapRelease(rec) : \A j \in TapRelease(rec) : i <= j
             buffer == [waiting_buffer EXCEPT ![i].count = 1]
  <2>1. Consume(process_action(before, [rec EXCEPT !.count = 1]),
                [rec EXCEPT !.count = 1], buffer, {rec})
    BY <1>2 DEF StartTapping
  <2>2. i \in TapRelease(rec)
    <3>1. \A y \in TapRelease(rec) : y \in Nat
      BY DEF TapRelease
    <3> QED BY <1>2, <3>1, Least
  <2>3. i \in Slots /\ ~waiting_buffer[i].pressed
    BY <2>2 DEF TapRelease, Slots
  <2> HIDE DEF i
  <2>4. waiting_buffer[i] \in Records
    BY <2>3, BufferType
  <2>5. [waiting_buffer[i] EXCEPT !.count = 1] \in Records
    BY <2>4, RecordFields
  <2>6. buffer \in Seq(Records) /\ Len(buffer) = Len(waiting_buffer)
    BY <1>0, <2>3, <2>5, ExceptSeq DEF Slots
  <2>7. Like([waiting_buffer[i] EXCEPT !.count = 1], waiting_buffer[i])
    BY <2>3, <2>4 DEF Like, Records
  <2>8. ASSUME NEW j \in Slots PROVE Like(buffer[j], waiting_buffer[j])
    <3>1. CASE j = i
      <4>1. buffer[j] = [waiting_buffer[i] EXCEPT !.count = 1]
        BY <1>0, <2>3, <3>1 DEF Slots
      <4> QED BY <2>7, <3>1, <4>1
    <3>2. CASE j # i
      <4>1. buffer[j] = waiting_buffer[j]
        BY <1>0, <2>3, <3>2 DEF Slots
      <4> QED BY <4>1, LikeItself
    <3> QED BY <3>1, <3>2
  <2> HIDE DEF buffer
  <2> QED BY <1>2, <2>1, <2>6, <2>8
<1> QED BY <1>1, <1>2

LEMMA DrainStart ==
    ASSUME Inv, OrderInv, OneTapWaits, DrainCall,
           \/ NextTapKey(waiting_buffer[1]) \/ OtherTapKey(waiting_buffer[1])
           \/ PressTapKey(waiting_buffer[1])
    PROVE  OrderInv'
<1> DEFINE rec == waiting_buffer[1]
           tap == [rec EXCEPT !.count = 1]
<1>0. process_tapping(waiting_buffer[1])
  BY DEF process_tapping
<1>1. /\ Engine /\ Given(rec) /\ rec \in Records /\ 1 \in Slots /\ now' = now /\ pos' = pos
      /\ waiting_buffer # <<>> /\ pc = "drain"
  BY DrainGiven DEF DrainCall
<1>2. kb'.keymap = kb.keymap
  BY <1>0, <1>1, CallKeymap
<1>3. StartsTap(rec) /\ \E before : StartTapping(before, rec)
  BY Zenon DEF NextTapKey, OtherTapKey, PressTapKey
<1>4. TapPress(1)
  BY <1>1, <1>3, StartsTapKey DEF TapPress
<1>5. rec.count = 0
  BY <1>1, <1>4 DEF OrderInv, QueueInv, TapPress
<1>6. PICK before : StartTapping(before, rec)
  BY <1>3
<1>7. CASE TapRelease(rec) = {} /\ Consume(before, rec, waiting_buffer, {})
  <2>1. GapStrong
    BY <1>1, <1>4, GapsWhileTapping DEF OrderInv
  <2>2. ASSUME NEW j \in Slots, waiting_buffer[j].key = rec.key, ~waiting_buffer[j].pressed
        PROVE  ~Due(j)
    <3>1. j = 1 \/ 1 < j
      BY <1>1, BufferType DEF Slots
    <3>2. j # 1
      BY <1>4, <2>2 DEF TapPress
    <3>3. Due(j) => TIMER_DIFF_16(waiting_buffer[j].time, rec.time) < TAPPING_TERM
      BY <1>1, <2>1, <3>1, <3>2 DEF GapStrong
    <3> QED BY <1>7, <2>2, <3>3 DEF TapRelease, Slots
  <2> QED BY <1>1, <1>2, <1>4, <1>7, <2>2, DrainToUndecided
<1>8. CASE \E buffer \in Seq(Records) :
              /\ Len(buffer) = Len(waiting_buffer)
              /\ \A i \in Slots : Like(buffer[i], waiting_buffer[i])
              /\ Consume(process_action(before, tap), tap, buffer, {rec})
  <2>1. tap.key = rec.key /\ tap.pressed /\ tap.count = 1
    BY <1>1, <1>4 DEF Records, TapPress
  <2> HIDE DEF tap
  <2>2. Drops /\ pc' = "drain" /\ tapping_key' = tap
    BY <1>1, <1>8, ConsumeShape
  <2>3. QueueInv' /\ GapInv'
    BY <1>1, <1>2, <1>4, <2>2, QueueDrops, GapDrops DEF OrderInv, DrainCall
  <2> QED BY <1>1, <1>2, <1>4, <2>1, <2>2, <2>3, DrainToTapped
<1> HIDE DEF tap
<1> QED BY <1>1, <1>5, <1>6, <1>7, <1>8, StartSplit DEF tap

LEMMA DrainAgain ==
    ASSUME Inv, OrderInv, OneTapWaits, DrainCall,
           StartAgain(waiting_buffer[1]) \/ SequentialTap(waiting_buffer[1])
    PROVE  OrderInv'
<1> DEFINE rec == waiting_buffer[1]
<1>0. process_tapping(waiting_buffer[1])
  BY DEF process_tapping
<1>1. /\ Engine /\ Given(rec) /\ rec \in Records /\ 1 \in Slots /\ now' = now /\ pos' = pos
  BY DrainGiven
<1>2. kb'.keymap = kb.keymap
  BY <1>0, <1>1, CallKeymap
<1>3. IS_TAPPING_RELEASED /\ rec.pressed /\ IS_TAPPING_KEY(rec.key)
  BY DEF StartAgain, SequentialTap
<1>4. IS_TAPPING /\ tapping_key \in Records /\ tapping_key.key = rec.key /\ tapping_key.count > 0
  BY <1>1, <1>3, TapStates DEF IS_TAPPING_KEY, OrderInv, TapInv, TapState
<1>5. TapPress(1)
  BY <1>3, <1>4 DEF TapPress, OrderInv, TapInv, TapState
<1>6. CASE StartAgain(rec)
  <2>1. ASSUME NEW j \in Slots, waiting_buffer[j].key = rec.key, ~waiting_buffer[j].pressed
        PROVE  ~Due(j)
    <3>1. j = 1 \/ 1 < j
      BY <1>1, BufferType DEF Slots
    <3>2. j # 1
      BY <1>3, <2>1
    <3>3. OwnRelease(waiting_buffer[j])
      BY <1>3, <2>1 DEF OwnRelease
    <3> QED BY <1>1, <1>3, <1>4, <3>1, <3>2, <3>3 DEF OrderInv, TapInv, NotAgain
  <2>2. Consume(kb, rec, waiting_buffer, {})
    BY <1>6 DEF StartAgain
  <2> QED BY <1>1, <1>2, <1>5, <2>1, <2>2, DrainToUndecided
<1>7. CASE SequentialTap(rec)
  <2> DEFINE tap == [WithTap(rec) EXCEPT !.count = IF @ < TapMax THEN @ + 1 ELSE @]
  <2>1. WithTap(rec) \in Records
    BY <1>1, <1>4, WithTapType
  <2>2. WithTap(rec).key = rec.key /\ WithTap(rec).pressed /\ WithTap(rec).count > 0
        /\ WithTap(rec).count \in Nat
    BY <1>1, <1>3, <1>4, TappingAssumption DEF WithTap, Records
  <2>3. tap.key = rec.key /\ tap.pressed /\ tap.count > 0 /\ tap.count \in Nat
    BY <2>1, <2>2 DEF Records
  <2>4. Consume(Act(tap), tap, waiting_buffer, {tap})
    BY <1>7 DEF SequentialTap
  <2> HIDE DEF tap
  <2>5. Drops /\ pc' = "drain" /\ tapping_key' = tap /\ QueueInv' /\ GapInv'
    BY <1>2, <1>4, <2>4, DrainConsumes
  <2> QED BY <1>1, <1>2, <1>5, <2>3, <2>5, DrainToTapped
<1> QED BY <1>6, <1>7

(* The action of a key that comes up is the one of the layer recorded.     *)
LEMMA ModifierStable ==
    ASSUME kb'.keymap = kb.keymap, NEW r, NEW s, r.key = s.key, r.count = s.count,
           ~r.pressed, ~s.pressed, kb'.pressed[r.key] = kb.pressed[r.key]
    PROVE  LET after == KeyMaps[kb'.keymap][kb'.pressed[s.key]][s.key]
           IN  IsModifierRelease(r) =>
                 \/ after.kind \in {"MODS", "MODS_TAP"} /\ after.code \in Mods
                 \/ after.kind = "MODS" /\ after.mods # {} /\ after.code = KC_NO
                 \/ after.kind = "MODS_TAP" /\ after.mods # {} /\ s.count = 0
<1>1. Track(kb, r) = kb
  BY DEF Track
<1>2. layer_switch_get_action(kb, r) = KeyMaps[kb.keymap][kb.pressed[r.key]][r.key]
  BY <1>1 DEF layer_switch_get_action, action_for_key
<1> QED BY <1>2 DEF IsModifierRelease

LEMMA ModifierAfter ==
    ASSUME kb'.keymap = kb.keymap, NEW i \in Slots, NEW j \in Nat,
           waiting_buffer'[j] = waiting_buffer[i], ~waiting_buffer[i].pressed,
           kb'.pressed[waiting_buffer[i].key] = kb.pressed[waiting_buffer[i].key],
           IsModifierRelease(waiting_buffer[i])
    PROVE  IsModifierRelease(waiting_buffer[j])'
<1> DEFINE s == waiting_buffer[j]'
<1>1. ~s.pressed /\ s = waiting_buffer[i]
  OBVIOUS
<1>2. Track(kb', s) = kb'
  BY <1>1 DEF Track
<1>3. layer_switch_get_action(kb', s) = KeyMaps[kb'.keymap][kb'.pressed[s.key]][s.key]
  BY <1>2 DEF layer_switch_get_action, action_for_key
<1>4. LET after == KeyMaps[kb'.keymap][kb'.pressed[s.key]][s.key]
      IN  \/ after.kind \in {"MODS", "MODS_TAP"} /\ after.code \in Mods
          \/ after.kind = "MODS" /\ after.mods # {} /\ after.code = KC_NO
          \/ after.kind = "MODS_TAP" /\ after.mods # {} /\ s.count = 0
  BY <1>1, ModifierStable
<1> QED BY <1>3, <1>4 DEF IsModifierRelease, KC_NO

LEMMA DrainReleaseAtOnce ==
    ASSUME Inv, OrderInv, DrainCall, ReleaseAtOnce(waiting_buffer[1])
    PROVE  OrderInv' /\ Undecided'
<1> DEFINE rec == waiting_buffer[1]
<1>0. process_tapping(waiting_buffer[1])
  BY DEF process_tapping
<1>1. /\ Engine /\ Given(rec) /\ rec \in Records /\ 1 \in Slots /\ now' = now /\ pos' = pos
      /\ waiting_buffer # <<>> /\ pc = "drain" /\ Len(waiting_buffer) \in Nat
  BY DrainGiven DEF DrainCall
<1>2. kb'.keymap = kb.keymap
  BY <1>0, <1>1, CallKeymap
<1>3. /\ Undecided /\ rec.key # NOEVENT /\ ~rec.pressed /\ ~OwnRelease(rec)
      /\ ~waiting_buffer_typed(rec) /\ ~IsModifierRelease(rec)
      /\ Consume(Act(rec), tapping_key, waiting_buffer, {rec})
  BY DEF ReleaseAtOnce, OtherRelease
<1>4. IS_TAPPING /\ tapping_key.pressed /\ tapping_key.count = 0
  BY <1>1, <1>3, TapStates
<1>5. /\ Drops /\ pc' = "drain" /\ tapping_key' = tapping_key /\ kb' = Act(rec)
      /\ QueueInv' /\ GapInv'
  BY <1>2, <1>3, <1>4, DrainConsumes
<1>6. \A k \in Keys : kb'.pressed[k] = kb.pressed[k]
  BY <1>1, <1>3, <1>5, ActLayers DEF Act, Engine
<1>7. \A i \in Slots' : i+1 \in Slots /\ waiting_buffer'[i] = waiting_buffer[i+1]
  <2>1. waiting_buffer' = Tail(waiting_buffer)
    BY <1>1, <1>3 DEF Consume
  <2>2. /\ Len(waiting_buffer') = Len(waiting_buffer) - 1
        /\ \A i \in 1 .. Len(waiting_buffer') : waiting_buffer'[i] = waiting_buffer[i+1]
    BY <1>1, <2>1, BufferType, HeadTailProperties
  <2>3. \A i \in 1 .. Len(waiting_buffer) - 1 : i+1 \in 1 .. Len(waiting_buffer)
    BY <1>1
  <2> QED BY <2>2, <2>3 DEF Slots
<1>8. \A m \in Slots : m # 1 => m-1 \in Slots' /\ m-1 \in Nat /\ (m-1)+1 = m
                                /\ waiting_buffer'[m-1] = waiting_buffer[m]
  <2>1. \A m \in Slots : m # 1 => m-1 \in Slots' /\ m-1 \in Nat /\ (m-1)+1 = m
    BY <1>1, <1>5 DEF Slots, Drops
  <2> QED BY <1>7, <2>1
<1>9. Undecided' /\ IS_TAPPING' /\ ~IS_TAPPING_RELEASED'
  BY <1>4, <1>5 DEF Undecided, IS_TAPPING, IS_TAPPING_PRESSED, IS_TAPPING_RELEASED
<1>10. ~Blocks(1)
  BY <1>3 DEF Blocks
<1>11. ASSUME NEW m \in Slots, Blocks(m) PROVE m # 1 /\ Blocks(m-1)'
  <2>1. m # 1
    BY <1>10, <1>11
  <2>2. waiting_buffer'[m-1] = waiting_buffer[m] /\ m-1 \in Nat
    BY <1>8, <2>1
  <2>3. CASE waiting_buffer[m].pressed
    BY <2>1, <2>2, <2>3 DEF Blocks
  <2>4. CASE ~waiting_buffer[m].pressed /\ IsModifierRelease(waiting_buffer[m])
    <3>1. kb'.pressed[waiting_buffer[m].key] = kb.pressed[waiting_buffer[m].key]
      BY <1>6, <1>1, BufferType
    <3>2. IsModifierRelease(waiting_buffer[m-1])'
      BY <1>2, <2>2, <2>4, <3>1, ModifierAfter
    <3> QED BY <1>5, <1>11, <2>1, <2>2, <2>4, <3>2 DEF Blocks
  <2>5. CASE ~waiting_buffer[m].pressed /\ waiting_buffer_typed(waiting_buffer[m])
    <3>1. PICK x \in Slots : /\ waiting_buffer[x].key = waiting_buffer[m].key
                             /\ waiting_buffer[x].pressed # waiting_buffer[m].pressed
      BY <2>5 DEF waiting_buffer_typed, Slots
    <3>2. x # 1
      <4>1. waiting_buffer[x].pressed \in BOOLEAN /\ waiting_buffer[m].pressed \in BOOLEAN
        BY <1>1, BufferType
      <4> QED BY <1>3, <2>5, <3>1, <4>1
    <3>3. waiting_buffer_typed(waiting_buffer[m-1])'
      <4>1. x-1 \in Slots' /\ waiting_buffer'[x-1] = waiting_buffer[x]
        BY <1>8, <3>2
      <4> QED BY <2>2, <3>1, <4>1 DEF waiting_buffer_typed, Slots
    <3> QED BY <1>5, <1>11, <2>1, <2>2, <2>5, <3>3 DEF Blocks
  <2> QED BY <1>11, <2>3, <2>4, <2>5 DEF Blocks
<1>12. Blocked'
  <2> SUFFICES ASSUME NEW j \in Slots', OwnRelease(waiting_buffer[j])'
               PROVE  (\E i \in Slots : i < j /\ Blocks(i))'
                        \/ (pc = "drain" /\ ~Due(j) /\ ~tapping_key.interrupted)'
    BY DEF Blocked
  <2>1. j+1 \in Slots /\ OwnRelease(waiting_buffer[j+1]) /\ (Due(j)' <=> Due(j+1))
    BY <1>2, <1>5, DropFacts DEF OwnRelease, IS_TAPPING_KEY, IS_TAPPING
  <2>2. CASE ~Due(j+1) /\ ~tapping_key.interrupted
    BY <1>5, <2>1, <2>2
  <2>3. CASE \E i \in Slots : i < j+1 /\ Blocks(i)
    <3>1. PICK i \in Slots : i < j+1 /\ Blocks(i)
      BY <2>3
    <3>2. i # 1 /\ Blocks(i-1)' /\ i-1 \in Slots'
      BY <1>8, <1>11, <3>1
    <3>3. i-1 < j
      BY <3>1 DEF Slots
    <3> QED BY <3>2, <3>3
  <2> QED BY <1>3, <2>1, <2>2, <2>3 DEF OrderInv, TapInv, Blocked
<1>13. InTerm'
  BY <1>2, <1>3, <1>5, DropFacts DEF InTerm, WITHIN_TAPPING_TERM, OrderInv, TapInv,
     TIMER_DIFF_16
<1>14. LatePlain'
  BY <1>1, <1>2, <1>3, <1>5, DropFacts DEF LatePlain, OrderInv, TapInv, TIMER_DIFF_16,
     TickPos
<1>15. TapAge'
  BY <1>1, <1>2, <1>3, <1>5, DropFacts DEF TapAge, Age, OrderInv, TapInv, TickPos
<1>16. TapState'
  <2>1. ASSUME tapping_key.interrupted PROVE \E i \in Slots' : waiting_buffer'[i].pressed
    <3>1. PICK m \in Slots : waiting_buffer[m].pressed
      BY <1>3, <2>1 DEF OrderInv, TapInv, TapState
    <3> QED BY <1>3, <1>8, <3>1
  <2>2. TapKey(tapping_key.key)'
    BY <1>2, <1>4, <1>5, TapKeyStable DEF OrderInv, TapInv, TapState
  <2> QED BY <1>5, <1>9, <2>1, <2>2 DEF TapState
<1>17. TapInv'
  BY <1>9, <1>12, <1>13, <1>14, <1>15, <1>16, AfterUndecided
<1> QED BY <1>5, <1>9, <1>17 DEF OrderInv

(* The first record waits on.                                              *)
LEMMA DrainWaits ==
    ASSUME Inv, OrderInv, DrainCall,
           RetainModifier(waiting_buffer[1]) \/ WaitForDecision(waiting_buffer[1])
    PROVE  OrderInv' /\ Undecided' /\ pc' = "scan" /\ waiting_buffer' = waiting_buffer
<1> DEFINE rec == waiting_buffer[1]
<1>1. /\ Engine /\ Given(rec) /\ rec \in Records /\ 1 \in Slots /\ now' = now /\ pos' = pos
      /\ waiting_buffer # <<>> /\ pc = "drain" /\ Len(waiting_buffer) \in Nat
      /\ rec.key # NOEVENT
  BY DrainGiven DEF DrainCall
<1>2. Undecided /\ IS_TAPPING /\ tapping_key \in Records /\ tapping_key.pressed
      /\ tapping_key.count = 0
  BY <1>1, TapStates DEF RetainModifier, WaitForDecision, OtherRelease
<1>3. \E t : /\ Keep(kb, t, rec, {})
             /\ t.key = tapping_key.key /\ t.time = tapping_key.time
             /\ t.pressed = tapping_key.pressed /\ t.count = tapping_key.count
             /\ t.interrupted => tapping_key.interrupted \/ rec.pressed
  <2>1. CASE RetainModifier(rec)
    BY <2>1 DEF RetainModifier
  <2>2. CASE WaitForDecision(rec)
    <3> DEFINE t == [tapping_key EXCEPT !.interrupted = @ \/ rec.pressed]
    <3>1. /\ t.key = tapping_key.key /\ t.time = tapping_key.time
          /\ t.pressed = tapping_key.pressed /\ t.count = tapping_key.count
          /\ t.interrupted => tapping_key.interrupted \/ rec.pressed
      BY <1>2 DEF Records
    <3>2. Keep(kb, t, rec, {})
      BY <2>2 DEF WaitForDecision
    <3> HIDE DEF t
    <3> QED BY <3>1, <3>2
  <2> QED BY <2>1, <2>2
<1>4. /\ tapping_key'.key = tapping_key.key /\ tapping_key'.time = tapping_key.time
      /\ tapping_key'.pressed = tapping_key.pressed /\ tapping_key'.count = tapping_key.count
      /\ tapping_key'.interrupted => tapping_key.interrupted \/ rec.pressed
      /\ kb' = kb /\ pc' = "scan" /\ waiting_buffer' = [waiting_buffer EXCEPT ![1] = rec]
  BY <1>1, <1>3 DEF Keep
<1>5. waiting_buffer' = waiting_buffer
  <2>1. waiting_buffer \in Seq(Records)
    BY <1>1, BufferType
  <2> QED BY <1>1, <1>4, <2>1 DEF Slots
<1>6. Undecided' /\ IS_TAPPING' /\ ~IS_TAPPING_RELEASED'
  BY <1>2, <1>4 DEF Undecided, IS_TAPPING, IS_TAPPING_PRESSED, IS_TAPPING_RELEASED
<1>7. Blocks(1) /\ ~OwnRelease(rec)
  <2>1. CASE RetainModifier(rec)
    BY <1>1, <1>2, <2>1 DEF RetainModifier, OtherRelease, OwnRelease, IS_TAPPING_KEY, Blocks
  <2>2. CASE WaitForDecision(rec)
    BY <1>1, <1>2, <2>2 DEF WaitForDecision, OwnRelease, IS_TAPPING_KEY, Blocks
  <2> QED BY <2>1, <2>2
<1>8. Slots' = Slots /\ \A i \in Slots : (Due(i)' <=> Due(i)) /\ (TapPress(i)' <=> TapPress(i))
  <2>1. \A k : TapKey(k)' <=> TapKey(k)
    BY <1>4, TapKeyStable
  <2> QED BY <1>1, <1>5, <2>1 DEF Slots, Due, TapPress, TickPos
<1>9. Blocked'
  <2>1. Blocks(1)'
    BY <1>4, <1>5, <1>7 DEF Blocks, IsModifierRelease, waiting_buffer_typed,
       layer_switch_get_action, Track, action_for_key, current_layer_for_key, Visible, KC_NO
  <2>2. ASSUME NEW j \in Slots, OwnRelease(waiting_buffer[j])' PROVE 1 < j
    <3>1. OwnRelease(waiting_buffer[j])
      BY <1>2, <1>4, <1>5, <2>2 DEF OwnRelease, IS_TAPPING_KEY
    <3>2. j # 1
      BY <1>7, <3>1
    <3> QED BY <1>1, <3>2 DEF Slots
  <2> QED BY <1>1, <1>8, <2>1, <2>2 DEF Blocked
<1>10. InTerm'
  BY <1>2, <1>4, <1>5, <1>8 DEF InTerm, WITHIN_TAPPING_TERM, OrderInv, TapInv,
     TIMER_DIFF_16
<1>11. LatePlain'
  BY <1>1, <1>2, <1>4, <1>5, <1>8 DEF LatePlain, OrderInv, TapInv, TIMER_DIFF_16, TickPos
<1>12. TapAge'
  BY <1>1, <1>2, <1>4, <1>5, <1>8 DEF TapAge, Age, OrderInv, TapInv, TickPos
<1>13. TapState'
  <2>1. TapKey(tapping_key.key)'
    BY <1>2, <1>4, TapKeyStable DEF OrderInv, TapInv, TapState
  <2> QED BY <1>1, <1>2, <1>4, <1>5, <1>6, <1>8, <2>1 DEF TapState, OrderInv, TapInv
<1>14. TapInv'
  BY <1>6, <1>9, <1>10, <1>11, <1>12, <1>13, AfterUndecided
<1>15. Stays
  BY <1>5, LikeItself DEF Stays
<1>16. QueueInv' /\ GapInv'
  BY <1>1, <1>2, <1>4, <1>15, QueueStays, GapStays DEF OrderInv, DrainCall, TickPos
<1> QED BY <1>4, <1>5, <1>6, <1>14, <1>16 DEF OrderInv

LEMMA DrainOrder ==
    ASSUME Inv, OrderInv, OneTapWaits, Drain PROVE OrderInv'
<1>1. DrainCall /\ process_tapping(waiting_buffer[1])
  BY DEF Drain, DrainCall
<1> QED BY <1>1, DrainPlain, DrainTapReleased, DrainStart, DrainAgain, DrainReleaseAtOnce,
        DrainWaits, DrainFirstTap, DrainTimeout DEF process_tapping

-----------------------------------------------------------------------------
(* A change of a key                                                       *)

EventCall(key) ==
    /\ pc = "scan" /\ pos < key /\ changed # "before" /\ changed' = "now"
    /\ down' = (IF key \in down THEN down \ {key} ELSE down \cup {key})
    /\ pos' = key /\ now' = now

Changed(key) == Record(key, key \in down', now)

LEMMA ChangedFields ==
    ASSUME Inv, NEW key \in Keys, EventCall(key)
    PROVE  /\ Changed(key) \in Records /\ Changed(key).key = key /\ Changed(key).time = now
           /\ Changed(key).pressed = (key \in down') /\ Changed(key).count = 0
           /\ Changed(key).interrupted = FALSE /\ Changed(key).key # NOEVENT
           /\ Given(Changed(key)) /\ Engine /\ now \in Times /\ pc = "scan"
           /\ pos \in 0 .. TickPos /\ pos # TickPos /\ pos' # TickPos
           /\ Len(waiting_buffer) \in Nat
           /\ (key \in down') \in BOOLEAN /\ ((key \in down') <=> key \notin down)
<1>1. (key \in down') \in BOOLEAN /\ ((key \in down') <=> key \notin down)
  BY DEF EventCall
<1>2. /\ Changed(key).key = key /\ Changed(key).time = now
      /\ Changed(key).pressed = (key \in down') /\ Changed(key).count = 0
      /\ Changed(key).interrupted = FALSE
  BY DEF Changed, Record
<1>3. Changed(key) \in Records
  BY <1>1, TappingAssumption DEF Changed, Record, Records, Inv
<1>4. now \in Times /\ Engine /\ pos \in 0 .. TickPos
  BY DEF Inv, Times
<1>5. pos # TickPos /\ pos' # TickPos
  BY <1>4, ActionsAssumption DEF EventCall, TickPos, Keys
<1> QED BY <1>1, <1>2, <1>3, <1>4, <1>5, RecordFields, BufferType DEF Given, EventCall

(* The records that waited before.                                         *)
LEMMA EventFacts ==
    ASSUME Inv, NEW key \in Keys, EventCall(key), kb'.keymap = kb.keymap,
           Stays \/ (\E r : Adds(r))
    PROVE  /\ Slots \subseteq Slots'
           /\ \A i \in Slots :
                 /\ waiting_buffer'[i].key = waiting_buffer[i].key
                 /\ waiting_buffer'[i].pressed = waiting_buffer[i].pressed
                 /\ waiting_buffer'[i].time = waiting_buffer[i].time
                 /\ Due(i)' <=> Due(i)
                 /\ TapPress(i)' <=> TapPress(i)
           /\ \A k : TapKey(k)' <=> TapKey(k)
           /\ Stays => Slots' = Slots
<1>1. /\ pos # TickPos /\ pos' # TickPos /\ now' = now /\ Len(waiting_buffer) \in Nat
  BY ChangedFields DEF EventCall
<1>2. \A k : TapKey(k)' <=> TapKey(k)
  BY TapKeyStable
<1>3. Slots \subseteq Slots' /\ (Stays => Slots' = Slots)
  BY <1>1 DEF Slots, Stays, Adds
<1>4. \A i \in Slots :
         /\ waiting_buffer'[i].key = waiting_buffer[i].key
         /\ waiting_buffer'[i].pressed = waiting_buffer[i].pressed
         /\ waiting_buffer'[i].time = waiting_buffer[i].time
  BY DEF Slots, Stays, Adds, Like
<1>5. \A i \in Slots : (Due(i)' <=> Due(i)) /\ (TapPress(i)' <=> TapPress(i))
  BY <1>1, <1>2, <1>4 DEF Due, TapPress, TickPos
<1> QED BY <1>2, <1>3, <1>4, <1>5

LEMMA AddFacts ==
    ASSUME Inv, NEW key \in Keys, EventCall(key), NEW r, Adds(r), r.time = now
    PROVE  /\ Len(waiting_buffer) + 1 \in Slots'
           /\ waiting_buffer'[Len(waiting_buffer) + 1] = r
           /\ \A i \in Slots : i < Len(waiting_buffer) + 1
           /\ \A i \in Slots' : i \in Slots \/ (i = Len(waiting_buffer) + 1 /\ ~Due(i)')
<1>1. /\ pos # TickPos /\ pos' # TickPos /\ now' = now /\ Len(waiting_buffer) \in Nat
  BY ChangedFields DEF EventCall
<1>2. /\ Len(waiting_buffer) + 1 \in Slots'
      /\ waiting_buffer'[Len(waiting_buffer) + 1] = r
      /\ \A i \in Slots' : i \in Slots \/ i = Len(waiting_buffer) + 1
      /\ \A i \in Slots : i < Len(waiting_buffer) + 1
  BY <1>1 DEF Slots, Adds
<1>3. ASSUME NEW i, i = Len(waiting_buffer) + 1 PROVE ~Due(i)'
  <2>1. waiting_buffer'[i].time = now'
    BY <1>1, <1>2, <1>3
  <2> QED BY <1>1, <2>1 DEF Due, TickPos
<1> QED BY <1>2, <1>3

(* The overflow.                                                           *)
LEMMA Flushed ==
    ASSUME waiting_buffer' = <<>>, tapping_key' = NoTapping
    PROVE  OrderInv' /\ ~IS_TAPPING'
<1>1. ~IS_TAPPING'
  BY DEF IS_TAPPING, NoTapping, Record
<1>2. NoneDue'
  <2>1. Slots' = {}
    BY EmptySeq DEF Slots
  <2> QED BY <2>1 DEF NoneDue
<1> QED BY <1>1, <1>2, QueueEmpty, GapNone, AfterNone DEF OrderInv

LEMMA EventAdds ==
    ASSUME Inv, OrderInv, NEW key \in Keys, EventCall(key), kb'.keymap = kb.keymap,
           NEW r \in Records, Adds(r), r.key = key, r.time = now,
           r.pressed => r.count = 0 /\ ~r.interrupted
    PROVE  QueueInv' /\ (GapStrong => GapInv') /\ (NoneDue => NoneDue')
<1>1. /\ Engine /\ now \in Times /\ pos \in 0 .. TickPos /\ Len(waiting_buffer) \in Nat
  BY ChangedFields
<1>2. QueueInv'
  <2>1. ~r.pressed \/ (r.pressed /\ r.count = 0 /\ ~r.interrupted)
    OBVIOUS
  <2> QED BY <1>1, <2>1, QueueScan DEF OrderInv, EventCall
<1>3. ASSUME GapStrong PROVE GapInv'
  <2> SUFFICES ASSUME NEW i \in Slots', NEW j \in Slots', i < j, Due(j)'
               PROVE  TIMER_DIFF_16(waiting_buffer'[j].time, waiting_buffer'[i].time)
                        < TAPPING_TERM
    BY DEF GapInv, TIMER_DIFF_16
  <2>1. j \in Slots /\ Due(j)
    BY AddFacts, EventFacts
  <2>2. i \in Slots
    BY <1>1, <2>1 DEF Slots, Adds
  <2> QED BY <1>3, <2>1, <2>2, EventFacts DEF GapStrong
<1>4. NoneDue => NoneDue'
  BY AddFacts, EventFacts DEF NoneDue
<1> QED BY <1>2, <1>3, <1>4

LEMMA EventStays ==
    ASSUME Inv, OrderInv, NEW key \in Keys, EventCall(key), kb'.keymap = kb.keymap, Stays
    PROVE  QueueInv' /\ (GapStrong => GapInv') /\ (NoneDue => NoneDue')
<1>1. /\ Engine /\ now \in Times /\ pos \in 0 .. TickPos /\ Len(waiting_buffer) \in Nat
  BY ChangedFields
<1>2. QueueInv'
  BY <1>1, QueueScan DEF OrderInv, EventCall
<1>3. ASSUME GapStrong PROVE GapInv'
  BY <1>3, EventFacts DEF GapStrong, GapInv, TIMER_DIFF_16
<1>4. NoneDue => NoneDue'
  BY EventFacts DEF NoneDue
<1> QED BY <1>2, <1>3, <1>4

(* The tapping key stays undecided: the event waits or passes.             *)
LEMMA EventUndecided ==
    ASSUME Inv, OrderInv, NEW key \in Keys, EventCall(key), kb'.keymap = kb.keymap,
           Undecided, WITHIN_TAPPING_TERM(Changed(key)), NEW r,
           \/ waiting_buffer' = waiting_buffer
           \/ /\ r \in Records /\ Adds(r) /\ r.key = key /\ r.time = now
              /\ r.pressed => r.count = 0 /\ ~r.interrupted
              /\ OwnRelease(r) => \E i \in Slots : waiting_buffer[i].pressed,
           tapping_key'.key = tapping_key.key, tapping_key'.pressed,
           tapping_key'.time = tapping_key.time, tapping_key'.count = 0,
           tapping_key'.interrupted => \E i \in Slots' : waiting_buffer'[i].pressed,
           \A k \in Keys : k # tapping_key.key => kb'.pressed[k] = kb.pressed[k]
    PROVE  OrderInv' /\ Undecided'
<1>1. /\ Engine /\ now \in Times /\ now' = now /\ pos' # TickPos /\ pc = "scan"
      /\ Len(waiting_buffer) \in Nat /\ Changed(key).time = now
  BY ChangedFields DEF EventCall
<1>2. IS_TAPPING /\ tapping_key.time \in Times
  BY <1>1, TapStates
<1>3. Undecided' /\ IS_TAPPING' /\ ~IS_TAPPING_RELEASED'
  BY <1>2 DEF Undecided, IS_TAPPING, IS_TAPPING_PRESSED, IS_TAPPING_RELEASED
<1>4. GapStrong
  BY <1>2, GapsWhileTapping DEF OrderInv
<1>5. Stays \/ Adds(r)
  BY LikeItself DEF Stays
<1>6. QueueInv' /\ GapInv'
  <2>1. CASE waiting_buffer' = waiting_buffer
    <3>1. Stays
      BY <2>1, LikeItself DEF Stays
    <3> QED BY <1>4, <3>1, EventStays
  <2>2. CASE /\ r \in Records /\ Adds(r) /\ r.key = key /\ r.time = now
             /\ r.pressed => r.count = 0 /\ ~r.interrupted
    BY <1>4, <2>2, EventAdds
  <2> QED BY <2>1, <2>2
<1>7. /\ Slots \subseteq Slots'
      /\ \A i \in Slots : /\ waiting_buffer'[i] = waiting_buffer[i]
                          /\ Due(i)' <=> Due(i)
                          /\ TapPress(i)' <=> TapPress(i)
      /\ \A k : TapKey(k)' <=> TapKey(k)
  BY <1>5, EventFacts DEF Slots, Adds
<1>8. ASSUME NEW j \in Slots', j \notin Slots
      PROVE  /\ r \in Records /\ Adds(r) /\ r.time = now /\ waiting_buffer'[j] = r
             /\ ~Due(j)' /\ \A i \in Slots : i < j
             /\ OwnRelease(r) => \E i \in Slots : waiting_buffer[i].pressed
  <2>1. waiting_buffer' # waiting_buffer
    BY <1>8 DEF Slots
  <2>2. /\ r \in Records /\ Adds(r) /\ r.time = now
        /\ OwnRelease(r) => \E i \in Slots : waiting_buffer[i].pressed
    BY <2>1
  <2> QED BY <1>8, <2>2, AddFacts
<1>9. ASSUME NEW i \in Slots, Blocks(i) PROVE Blocks(i)'
  <2>1. i \in Nat /\ waiting_buffer'[i] = waiting_buffer[i]
    BY <1>7 DEF Slots
  <2>2. CASE waiting_buffer[i].pressed
    BY <2>1, <2>2 DEF Blocks
  <2>3. CASE /\ ~waiting_buffer[i].pressed /\ IsModifierRelease(waiting_buffer[i])
             /\ waiting_buffer[i].key # tapping_key.key
    <3>1. kb'.pressed[waiting_buffer[i].key] = kb.pressed[waiting_buffer[i].key]
      BY <1>1, <2>3, BufferType
    <3>2. IsModifierRelease(waiting_buffer[i])'
      BY <2>1, <2>3, <3>1, ModifierAfter
    <3> QED BY <2>1, <2>3, <3>2 DEF Blocks
  <2>4. CASE /\ waiting_buffer_typed(waiting_buffer[i])
             /\ waiting_buffer[i].key # tapping_key.key
    <3>1. waiting_buffer_typed(waiting_buffer[i])'
      BY <1>7, <2>1, <2>4 DEF waiting_buffer_typed, Slots
    <3> QED BY <2>1, <2>4, <3>1 DEF Blocks
  <2> QED BY <1>9, <2>2, <2>3, <2>4 DEF Blocks
<1>10. Blocked'
  <2> SUFFICES ASSUME NEW j \in Slots', OwnRelease(waiting_buffer[j])'
               PROVE  \E i \in Slots' : i < j /\ Blocks(i)'
    BY DEF Blocked
  <2>1. CASE j \in Slots
    <3>1. OwnRelease(waiting_buffer[j])
      BY <1>2, <1>7, <2>1 DEF OwnRelease, IS_TAPPING_KEY
    <3>2. \E i \in Slots : i < j /\ Blocks(i)
      BY <1>1, <2>1, <3>1 DEF OrderInv, TapInv, Blocked
    <3> QED BY <1>7, <1>9, <3>2
  <2>2. CASE j \notin Slots
    <3>1. OwnRelease(r)
      BY <1>2, <1>8, <2>2 DEF OwnRelease, IS_TAPPING_KEY
    <3>2. PICK i \in Slots : waiting_buffer[i].pressed
      BY <1>8, <2>2, <3>1
    <3>3. Blocks(i)
      BY <3>2 DEF Blocks
    <3> QED BY <1>7, <1>8, <1>9, <2>2, <3>3
  <2> QED BY <2>1, <2>2
<1>11. InTerm'
  BY <1>3, <1>7, <1>8 DEF InTerm, OrderInv, TapInv, WITHIN_TAPPING_TERM, TIMER_DIFF_16
<1>12. LatePlain'
  BY <1>1 DEF LatePlain, WITHIN_TAPPING_TERM, TIMER_DIFF_16
<1>13. TapAge'
  <2>1. AgeAt(now, now) = 0 /\ AgeAt(now, tapping_key.time) >= 0
    <3>1. AgeAt(now, now) = 0 /\ AgeAt(now, tapping_key.time) \in Times
      BY <1>1, <1>2, Ages
    <3> QED BY <3>1 DEF Times
  <2>2. \A j \in Slots' : AgeAt(now, tapping_key.time) >= AgeAt(now, waiting_buffer'[j].time)
    <3> TAKE j \in Slots'
    <3>1. CASE j \in Slots
      BY <1>7, <3>1 DEF OrderInv, TapInv, TapAge, Age
    <3>2. CASE j \notin Slots
      BY <1>8, <2>1, <3>2
    <3> QED BY <3>1, <3>2
  <2> QED BY <1>1, <2>2 DEF TapAge, Age, OrderInv, TapInv, TickPos
<1>14. TapState'
  BY <1>2, <1>3, <1>7 DEF TapState, OrderInv, TapInv
<1>15. TapInv'
  BY <1>3, <1>10, <1>11, <1>12, <1>13, <1>14, AfterUndecided
<1> QED BY <1>3, <1>6, <1>15 DEF OrderInv

LEMMA EventUndecidedWaits ==
    ASSUME Inv, OrderInv, NEW key \in Keys, EventCall(key),
           RetainModifier(Changed(key)) \/ WaitForDecision(Changed(key))
    PROVE  OrderInv'
<1> DEFINE rec == Changed(key)
<1>0. process_tapping(Changed(key))
  BY DEF process_tapping
<1>1. /\ rec \in Records /\ rec.key = key /\ rec.time = now /\ rec.count = 0
      /\ rec.interrupted = FALSE /\ Engine /\ Given(rec) /\ pc = "scan"
  BY ChangedFields
<1>2. kb'.keymap = kb.keymap
  BY <1>0, <1>1, CallKeymap
<1>3. /\ Undecided /\ IS_TAPPING /\ tapping_key \in Records /\ tapping_key.pressed
      /\ tapping_key.count = 0 /\ WITHIN_TAPPING_TERM(rec) /\ ~OwnRelease(rec)
  <2>1. Undecided /\ WITHIN_TAPPING_TERM(rec) /\ ~OwnRelease(rec)
    BY <1>1, RecordFields DEF RetainModifier, WaitForDecision, OtherRelease, OwnRelease
  <2> QED BY <1>1, <2>1, TapStates
<1>4. \E t : /\ Keep(kb, t, rec, {})
             /\ t.key = tapping_key.key /\ t.time = tapping_key.time
             /\ t.pressed = tapping_key.pressed /\ t.count = tapping_key.count
             /\ t.interrupted => tapping_key.interrupted \/ rec.pressed
  <2>1. CASE RetainModifier(rec)
    BY <2>1 DEF RetainModifier
  <2>2. CASE WaitForDecision(rec)
    <3> DEFINE t == [tapping_key EXCEPT !.interrupted = @ \/ rec.pressed]
    <3>1. /\ t.key = tapping_key.key /\ t.time = tapping_key.time
          /\ t.pressed = tapping_key.pressed /\ t.count = tapping_key.count
          /\ t.interrupted => tapping_key.interrupted \/ rec.pressed
      BY <1>3 DEF Records
    <3>2. Keep(kb, t, rec, {})
      BY <2>2 DEF WaitForDecision
    <3> HIDE DEF t
    <3> QED BY <3>1, <3>2
  <2> QED BY <2>1, <2>2
<1>5. PICK t : /\ Keep(kb, t, rec, {})
               /\ t.key = tapping_key.key /\ t.time = tapping_key.time
               /\ t.pressed = tapping_key.pressed /\ t.count = tapping_key.count
               /\ t.interrupted => tapping_key.interrupted \/ rec.pressed
  BY <1>4
<1>6. \/ Adds(rec) /\ tapping_key' = t /\ kb' = kb
      \/ waiting_buffer' = <<>> /\ tapping_key' = NoTapping
  BY <1>1, <1>5, KeepShape
<1>7. CASE Adds(rec) /\ tapping_key' = t /\ kb' = kb
  <2>1. rec.pressed => \E i \in Slots' : waiting_buffer'[i].pressed
    BY <1>1, <1>7, AddFacts
  <2>2. tapping_key.interrupted => \E i \in Slots' : waiting_buffer'[i].pressed
    <3> HAVE tapping_key.interrupted
    <3>1. PICK i \in Slots : waiting_buffer[i].pressed
      BY <1>3 DEF OrderInv, TapInv, TapState
    <3> QED BY <1>2, <1>7, <3>1, EventFacts
  <2> HIDE DEF rec
  <2>3. WITHIN_TAPPING_TERM(Changed(key))
    BY <1>3 DEF rec
  <2> QED BY <1>1, <1>2, <1>3, <1>5, <1>7, <2>1, <2>2, <2>3, EventUndecided
<1>8. CASE waiting_buffer' = <<>> /\ tapping_key' = NoTapping
  BY <1>8, Flushed
<1> QED BY <1>6, <1>7, <1>8

LEMMA EventReleaseAtOnce ==
    ASSUME Inv, OrderInv, NEW key \in Keys, EventCall(key), ReleaseAtOnce(Changed(key))
    PROVE  OrderInv' /\ Undecided' /\ waiting_buffer' = waiting_buffer
<1> DEFINE rec == Changed(key)
<1>0. process_tapping(Changed(key))
  BY DEF process_tapping
<1>1. /\ rec \in Records /\ rec.key # NOEVENT /\ Engine /\ Given(rec) /\ pc = "scan"
  BY ChangedFields
<1>2. kb'.keymap = kb.keymap
  BY <1>0, <1>1, CallKeymap
<1>3. /\ Undecided /\ WITHIN_TAPPING_TERM(rec) /\ ~rec.pressed
      /\ Consume(Act(rec), tapping_key, waiting_buffer, {rec})
  BY DEF ReleaseAtOnce, OtherRelease
<1>4. /\ tapping_key' = tapping_key /\ kb' = Act(rec) /\ waiting_buffer' = waiting_buffer
  BY <1>1, <1>3 DEF Consume
<1>5. \A k \in Keys : kb'.pressed[k] = kb.pressed[k]
  BY <1>1, <1>3, <1>4, ActLayers DEF Act, Engine
<1>6. tapping_key.pressed /\ tapping_key.count = 0
  BY <1>1, <1>3, TapStates
<1>7. tapping_key'.interrupted => \E i \in Slots' : waiting_buffer'[i].pressed
  BY <1>3, <1>4 DEF OrderInv, TapInv, TapState, Slots
<1> QED BY <1>2, <1>3, <1>4, <1>5, <1>6, <1>7, EventUndecided

(* What no record of the buffer keeps from being the last of its key.      *)
LastInv ==
    \A m \in Slots :
        (\A i \in Slots : waiting_buffer[i].key = waiting_buffer[m].key => i <= m)
            => (waiting_buffer[m].pressed <=> waiting_buffer[m].key \in down)

LEMMA LastPlace ==
    ASSUME Engine, NEW S, S \subseteq Slots, S # {}
    PROVE  \E m \in S : \A i \in S : i <= m
<1> DEFINE T == {Len(waiting_buffer) - i : i \in S}
<1>1. Len(waiting_buffer) \in Nat
  BY BufferType
<1>2. \A y \in T : y \in Nat
  BY <1>1 DEF Slots
<1>3. T # {}
  OBVIOUS
<1>4. PICK x \in T : \A y \in T : x <= y
  <2> HIDE DEF T
  <2> QED BY <1>2, <1>3, Least
<1>5. PICK m \in S : x = Len(waiting_buffer) - m
  OBVIOUS
<1>6. ASSUME NEW i \in S PROVE i <= m
  <2>1. Len(waiting_buffer) - m <= Len(waiting_buffer) - i
    BY <1>4, <1>5
  <2> QED BY <1>1, <2>1 DEF Slots
<1> QED BY <1>6

(* The last record of the key that changes is of its other state.          *)
LEMMA LastOfChanged ==
    ASSUME Inv, LastInv, NEW key \in Keys, EventCall(key), NEW j \in Slots,
           waiting_buffer[j].key = key
    PROVE  \E m \in Slots : /\ j <= m /\ waiting_buffer[m].key = key
                            /\ waiting_buffer[m].pressed = ~Changed(key).pressed
<1> DEFINE S == {i \in Slots : waiting_buffer[i].key = key}
<1>1. Engine /\ Changed(key).pressed = (key \in down') /\ ((key \in down') <=> key \notin down)
  BY ChangedFields
<1>2. PICK m \in S : \A i \in S : i <= m
  <2>1. S \subseteq Slots /\ S # {}
    OBVIOUS
  <2> HIDE DEF S
  <2> QED BY <1>1, <2>1, LastPlace
<1>3. waiting_buffer[m].pressed <=> key \in down
  BY <1>2 DEF LastInv
<1>4. waiting_buffer[m].pressed \in BOOLEAN
  BY <1>1, <1>2, BufferType
<1> QED BY <1>1, <1>2, <1>3, <1>4

LEMMA EventFirstTap ==
    ASSUME Inv, OrderInv, LastInv, OneTapWaits, NEW key \in Keys, EventCall(key),
           FirstTap(Changed(key))
    PROVE  OrderInv'
<1> DEFINE rec == Changed(key)
           tap == [tapping_key EXCEPT !.count = 1]
           t == Decided(tap)
           kept == [rec EXCEPT !.count = t.count, !.interrupted = t.interrupted]
<1>0. process_tapping(Changed(key))
  BY DEF process_tapping
<1>1. /\ rec \in Records /\ rec.key = key /\ rec.time = now /\ rec.count = 0
      /\ Engine /\ Given(rec) /\ pc = "scan" /\ rec.key # NOEVENT
  BY ChangedFields
<1>2. kb'.keymap = kb.keymap
  BY <1>0, <1>1, CallKeymap
<1>3. /\ Undecided /\ WITHIN_TAPPING_TERM(rec) /\ OwnRelease(rec)
      /\ Keep(Act(tap), t, kept, {tap})
  BY DEF FirstTap
<1>4. /\ IS_TAPPING /\ tapping_key \in Records /\ tapping_key.pressed
      /\ tapping_key.count = 0 /\ tapping_key.key = key /\ ~rec.pressed
  BY <1>1, <1>3, TapStates DEF OwnRelease, IS_TAPPING_KEY
<1>5. /\ tap \in Records /\ tap.count = 1 /\ tap.key = key /\ tap.pressed
      /\ tap.time = tapping_key.time /\ tap.interrupted = tapping_key.interrupted
  BY <1>4, RecordFields DEF Records
<1> HIDE DEF tap
<1>6. /\ t \in Records /\ t.key = key /\ t.pressed /\ t.time = tapping_key.time
      /\ t.interrupted = tapping_key.interrupted
      /\ t.count = 1 \/ (t.count = 0 /\ t.interrupted)
  <2>1. CASE Cancels(kb, tap)
    <3>1. t = [tap EXCEPT !.count = 0] /\ tap.interrupted
      BY <2>1 DEF Decided, Cancels
    <3>2. [tap EXCEPT !.count = 0] \in Records
      BY <1>5, TappingAssumption DEF Records
    <3> HIDE DEF t
    <3> QED BY <1>5, <3>1, <3>2 DEF Records
  <2>2. CASE ~Cancels(kb, tap)
    BY <1>5, <2>2 DEF Decided
  <2> QED BY <2>1, <2>2
<1> HIDE DEF t
<1>7. /\ kept \in Records /\ kept.key = key /\ ~kept.pressed /\ kept.time = now
  BY <1>1, <1>4, <1>6 DEF Records
<1> HIDE DEF kept
<1>8. \/ Adds(kept) /\ pc' = "drain" /\ tapping_key' = t /\ kb' = Act(tap)
      \/ waiting_buffer' = <<>> /\ tapping_key' = NoTapping
  BY <1>1, <1>3, <1>7, KeepShape
<1>9. CASE Adds(kept) /\ pc' = "drain" /\ tapping_key' = t /\ kb' = Act(tap) /\ t.count = 1
  <2>1. GapStrong
    BY <1>4, GapsWhileTapping DEF OrderInv
  <2>2. QueueInv' /\ GapInv'
    BY <1>2, <1>7, <1>9, <2>1, EventAdds
  <2>3. IS_TAPPING' /\ TapKey(tapping_key.key)'
    BY <1>1, <1>2, <1>4, <1>6, <1>9, TapKeyStable DEF IS_TAPPING, OrderInv, TapInv, TapState
  <2>4. NotAgain'
    <3> SUFFICES ASSUME NEW i \in Slots', NEW j \in Slots', i < j,
                        waiting_buffer'[i].key = key, waiting_buffer'[i].pressed,
                        OwnRelease(waiting_buffer[j])', Due(j)'
                 PROVE  FALSE
      BY <1>6, <1>9 DEF NotAgain
    <3>1. j \in Slots
      BY <1>7, <1>9, AddFacts
    <3>2. i \in Slots
      BY <1>1, <3>1, BufferType DEF Slots, Adds
    <3>3. waiting_buffer[i].key = key /\ waiting_buffer[i].pressed
      BY <1>2, <1>9, <3>2, EventFacts
    <3>4. waiting_buffer[j].key = key /\ ~waiting_buffer[j].pressed
      BY <1>2, <1>6, <1>9, <3>1, EventFacts DEF OwnRelease, IS_TAPPING_KEY
    <3>5. PICK m \in Slots : /\ j <= m /\ waiting_buffer[m].key = key
                             /\ waiting_buffer[m].pressed = ~rec.pressed
      BY <3>1, <3>4, LastOfChanged
    <3>6. TapPress(i) /\ TapPress(m)
      BY <1>4, <3>3, <3>5 DEF TapPress, OrderInv, TapInv, TapState
    <3>7. i = m
      BY <3>2, <3>5, <3>6 DEF OneTapWaits
    <3> QED BY <3>1, <3>2, <3>5, <3>7 DEF Slots
  <2>5. TapInv'
    BY <1>6, <1>9, <2>3, <2>4, AfterTapped
  <2> QED BY <2>2, <2>5 DEF OrderInv
<1>10. CASE /\ Adds(kept) /\ pc' = "drain" /\ tapping_key' = t /\ kb' = Act(tap)
            /\ t.count = 0 /\ t.interrupted
  <2>1. PICK i \in Slots : waiting_buffer[i].pressed
    BY <1>3, <1>6, <1>10 DEF OrderInv, TapInv, TapState
  <2>2. \E m \in Slots' : waiting_buffer'[m].pressed
    BY <1>2, <1>10, <2>1, EventFacts
  <2>3. \A k \in Keys : k # tapping_key.key => kb'.pressed[k] = kb.pressed[k]
    <3>1. kb' = process_action(kb, tap) /\ kb \in Kb
      BY <1>1, <1>5, <1>10 DEF Act, Engine
    <3> QED BY <1>4, <1>5, <3>1, ActLayers
  <2> HIDE DEF rec
  <2>4. WITHIN_TAPPING_TERM(Changed(key))
    BY <1>3 DEF rec
  <2> QED BY <1>2, <1>3, <1>4, <1>6, <1>7, <1>10, <2>1, <2>2, <2>3, <2>4, EventUndecided
<1>11. CASE waiting_buffer' = <<>> /\ tapping_key' = NoTapping
  BY <1>11, Flushed
<1> QED BY <1>6, <1>8, <1>9, <1>10, <1>11

LEMMA EventTimeout ==
    ASSUME Inv, OrderInv, NEW key \in Keys, EventCall(key),
           Timeout(Changed(key)) \/ TapExpires(Changed(key))
    PROVE  OrderInv' /\ ~IS_TAPPING'
<1> DEFINE rec == Changed(key)
<1>0. process_tapping(Changed(key))
  BY DEF process_tapping
<1>1. /\ rec \in Records /\ rec.key = key /\ rec.time = now /\ rec.count = 0
      /\ rec.interrupted = FALSE /\ Engine /\ Given(rec) /\ pc = "scan"
  BY ChangedFields
<1>2. kb'.keymap = kb.keymap
  BY <1>0, <1>1, CallKeymap
<1>3. IS_TAPPING
  BY <1>1, TapStates DEF Timeout, TapExpires
<1>4. \E newKb, done : Keep(newKb, NoTapping, rec, done)
  BY Zenon DEF Timeout, TapExpires
<1>5. \/ Adds(rec) /\ pc' = "drain" /\ tapping_key' = NoTapping
      \/ waiting_buffer' = <<>> /\ tapping_key' = NoTapping
  BY <1>1, <1>4, KeepShape
<1>6. CASE Adds(rec) /\ pc' = "drain" /\ tapping_key' = NoTapping
  <2>1. ~IS_TAPPING'
    BY <1>6 DEF IS_TAPPING, NoTapping, Record
  <2>2. GapStrong
    BY <1>3, GapsWhileTapping DEF OrderInv
  <2>3. QueueInv' /\ GapInv'
    BY <1>1, <1>2, <1>6, <2>2, EventAdds
  <2> QED BY <1>6, <2>1, <2>3, AfterNone DEF OrderInv
<1>7. CASE waiting_buffer' = <<>> /\ tapping_key' = NoTapping
  BY <1>7, Flushed
<1> QED BY <1>5, <1>6, <1>7

(* Without an undecided tapping key nothing is due when a key changes, and *)
(* no record of the key waits.                                             *)
LEMMA EventNoneDue ==
    ASSUME Inv, OrderInv, NEW key \in Keys, EventCall(key), ~Undecided
    PROVE  /\ NoneDue
           /\ \A i \in Slots : waiting_buffer[i].time = now /\ waiting_buffer[i].key # key
<1>1. /\ Engine /\ pc = "scan" /\ pos # TickPos /\ pos \in 0 .. TickPos
  BY ChangedFields
<1>2. NoneDue
  BY <1>1 DEF OrderInv, TapInv, DrainedInv
<1>3. \A i \in Slots : waiting_buffer[i].time = now
  BY <1>2 DEF NoneDue, Due
<1>4. QueueInv /\ pos < key /\ changed # "before"
  BY DEF OrderInv, EventCall
<1> QED BY <1>1, <1>2, <1>3, <1>4, NotYetScanned

LEMMA EventStart ==
    ASSUME Inv, OrderInv, NEW key \in Keys, EventCall(key), ~Undecided, Stays,
           kb'.keymap = kb.keymap, pc' = "drain",
           tapping_key' = Changed(key), Changed(key).pressed, TapKey(key)
    PROVE  OrderInv' /\ Undecided'
<1>1. /\ Engine /\ now \in Times /\ now' = now /\ pos' # TickPos
      /\ Changed(key).key = key /\ Changed(key).time = now /\ Changed(key).count = 0
      /\ Changed(key).interrupted = FALSE /\ key # NOEVENT
  BY ChangedFields DEF EventCall
<1>2. NoneDue /\ \A i \in Slots : waiting_buffer[i].time = now /\ waiting_buffer[i].key # key
  BY EventNoneDue
<1>3. QueueInv' /\ NoneDue'
  BY <1>2, EventStays
<1>4. Slots' = Slots /\ \A i \in Slots' : waiting_buffer'[i].time = now
  BY <1>2, EventFacts
<1>5. Undecided' /\ IS_TAPPING' /\ ~IS_TAPPING_RELEASED'
  BY <1>1 DEF Undecided, IS_TAPPING, IS_TAPPING_PRESSED, IS_TAPPING_RELEASED
<1>6. AgeAt(now, now) = 0 /\ TIMER_DIFF_16(now, now) = 0
  BY <1>1, Ages
<1>7. InTerm' /\ Blocked'
  BY <1>1, <1>3 DEF InTerm, Blocked, NoneDue
<1>8. LatePlain'
  BY <1>1, <1>6, TappingAssumption DEF LatePlain, TIMER_DIFF_16
<1>9. TapAge'
  BY <1>1, <1>4, <1>6, TappingAssumption DEF TapAge, Age, TickPos
<1>10. TapState'
  BY <1>1, <1>5, TapKeyStable DEF TapState
<1>11. TapInv'
  BY <1>5, <1>7, <1>8, <1>9, <1>10, AfterUndecided
<1> QED BY <1>3, <1>5, <1>11, GapNone DEF OrderInv

(* The events that pass when nothing is undecided.                         *)
LEMMA EventPasses ==
    ASSUME Inv, OrderInv, NEW key \in Keys, EventCall(key), ~Undecided, Stays,
           kb'.keymap = kb.keymap, pc' = "drain",
           ~IS_TAPPING' \/ (/\ TapKey(tapping_key'.key) /\ tapping_key'.count \in Nat
                            /\ tapping_key'.count > 0 /\ tapping_key'.pressed \in BOOLEAN)
    PROVE  OrderInv' /\ ~Undecided'
<1>1. QueueInv' /\ NoneDue'
  BY EventNoneDue, EventStays
<1>2. CASE ~IS_TAPPING'
  BY <1>1, <1>2, GapNone, AfterNone DEF OrderInv, Undecided, IS_TAPPING_PRESSED
<1>3. CASE /\ IS_TAPPING' /\ TapKey(tapping_key'.key) /\ tapping_key'.count \in Nat
           /\ tapping_key'.count > 0 /\ tapping_key'.pressed \in BOOLEAN
  <2>1. TapKey(tapping_key.key)'
    BY <1>3, TapKeyStable
  <2>2. NotAgain' /\ InTerm'
    BY <1>1 DEF NotAgain, InTerm, NoneDue
  <2>3. TapInv'
    BY <1>1, <1>3, <2>1, <2>2, AfterTapped, AfterReleased
  <2> QED BY <1>1, <1>3, <2>3, GapNone DEF OrderInv, Undecided
<1> QED BY <1>2, <1>3

LEMMA EventOthers ==
    ASSUME Inv, OrderInv, NEW key \in Keys, EventCall(key),
           \/ TapReleased(Changed(key)) \/ NextTapKey(Changed(key))
           \/ EventDuringTap(Changed(key)) \/ SequentialTap(Changed(key))
           \/ StartAgain(Changed(key)) \/ OtherTapKey(Changed(key))
           \/ EventAfterTap(Changed(key)) \/ PressTapKey(Changed(key))
           \/ PlainEvent(Changed(key))
    PROVE  OrderInv'
<1> DEFINE rec == Changed(key)
<1>0. process_tapping(Changed(key))
  BY DEF process_tapping
<1>1. /\ rec \in Records /\ rec.key = key /\ rec.time = now /\ rec.count = 0
      /\ Engine /\ Given(rec) /\ pc = "scan" /\ rec.key # NOEVENT
      /\ rec.interrupted = FALSE
  BY ChangedFields
<1>2. kb'.keymap = kb.keymap
  BY <1>0, <1>1, CallKeymap
<1>3. /\ ~Undecided
      /\ TapReleased(rec) \/ EventDuringTap(rec) \/ NextTapKey(rec) => Tapped
      /\ SequentialTap(rec) \/ StartAgain(rec) \/ OtherTapKey(rec) \/ EventAfterTap(rec)
           => IS_TAPPING_RELEASED
      /\ PressTapKey(rec) \/ PlainEvent(rec) => ~IS_TAPPING
  <2>1. /\ TapReleased(rec) \/ EventDuringTap(rec) \/ NextTapKey(rec) => Tapped
        /\ SequentialTap(rec) \/ StartAgain(rec) \/ OtherTapKey(rec) \/ EventAfterTap(rec)
           => IS_TAPPING_RELEASED
        /\ PressTapKey(rec) \/ PlainEvent(rec) => ~IS_TAPPING
    BY DEF TapReleased, NextTapKey, EventDuringTap, SequentialTap, StartAgain, OtherTapKey,
       EventAfterTap, PressTapKey, PlainEvent
  <2>2. ~Undecided
    BY <1>1, <2>1, TapStates
  <2> QED BY <2>1, <2>2
<1>4. IS_TAPPING => TapKey(tapping_key.key)
  BY DEF OrderInv, TapInv, TapState
<1>5. CASE NextTapKey(rec) \/ OtherTapKey(rec) \/ PressTapKey(rec)
  <2> DEFINE tap == [rec EXCEPT !.count = 1]
  <2>1. StartsTap(rec) /\ \E before : StartTapping(before, rec)
    BY <1>5, Zenon DEF NextTapKey, OtherTapKey, PressTapKey
  <2>2. rec.pressed /\ TapKey(key)
    BY <1>1, <2>1, StartsTapKey
  <2>3. tap.key = key /\ tap.pressed \in BOOLEAN /\ tap.count = 1
    BY <1>1, <2>2 DEF Records
  <2>4. PICK before : StartTapping(before, rec)
    BY <2>1
  <2>5. CASE Consume(before, rec, waiting_buffer, {})
    <3>1. Stays /\ pc' = "drain" /\ tapping_key' = rec
      BY <1>1, <2>5, ConsumeSame
    <3> QED BY <1>2, <1>3, <2>2, <3>1, EventStart
  <2>6. CASE \E buffer \in Seq(Records) :
              /\ Len(buffer) = Len(waiting_buffer)
              /\ \A i \in Slots : Like(buffer[i], waiting_buffer[i])
              /\ Consume(process_action(before, tap), tap, buffer, {rec})
    <3> HIDE DEF tap
    <3>1. Stays /\ pc' = "drain" /\ tapping_key' = tap
      BY <1>1, <2>6, ConsumeShape
    <3> QED BY <1>2, <1>3, <2>2, <2>3, <3>1, EventPasses
  <2> HIDE DEF tap
  <2> QED BY <1>1, <2>4, <2>5, <2>6, StartSplit DEF tap
<1>6. CASE StartAgain(rec)
  <2>1. Consume(kb, rec, waiting_buffer, {}) /\ rec.pressed /\ IS_TAPPING_KEY(rec.key)
    BY <1>6 DEF StartAgain
  <2>2. Stays /\ pc' = "drain" /\ tapping_key' = rec
    BY <1>1, <2>1, ConsumeSame
  <2>3. TapKey(key)
    BY <1>1, <1>4, <2>1 DEF IS_TAPPING_KEY
  <2> QED BY <1>2, <1>3, <2>1, <2>2, <2>3, EventStart
<1>7. CASE SequentialTap(rec)
  <2> DEFINE tap == [WithTap(rec) EXCEPT !.count = IF @ < TapMax THEN @ + 1 ELSE @]
  <2>1. IS_TAPPING /\ tapping_key.key = key
    BY <1>1, <1>7 DEF SequentialTap, IS_TAPPING_KEY
  <2>2. WithTap(rec) \in Records /\ WithTap(rec).key = key
    BY <1>1, <2>1, WithTapType DEF WithTap, Records
  <2>3. WithTap(rec).count > 0 /\ WithTap(rec).count \in Nat /\ WithTap(rec).pressed \in BOOLEAN
    <3>1. tapping_key.count > 0 /\ tapping_key.count \in Nat
      BY <1>1, <1>7, <2>1, TapStates DEF SequentialTap
    <3>2. WithTap(rec).count = tapping_key.count
      BY <1>1 DEF WithTap, Records
    <3> QED BY <2>2, <3>1, <3>2 DEF Records
  <2>4. tap.key = key /\ tap.count > 0 /\ tap.count \in Nat /\ tap.pressed \in BOOLEAN
    BY <2>2, <2>3 DEF Records
  <2>5. Consume(Act(tap), tap, waiting_buffer, {tap})
    BY <1>7 DEF SequentialTap
  <2> HIDE DEF tap
  <2>6. Stays /\ pc' = "drain" /\ tapping_key' = tap
    BY <1>1, <2>5, ConsumeSame
  <2> QED BY <1>2, <1>3, <1>4, <2>1, <2>4, <2>6, EventPasses
<1>8. CASE TapReleased(rec)
  <2> DEFINE t == IF WITHIN_TAPPING_TERM(rec) THEN WithTap(rec) ELSE NoTapping
  <2>1. /\ IS_TAPPING /\ tapping_key.key = key /\ tapping_key.count > 0
        /\ tapping_key.count \in Nat
    BY <1>1, <1>3, <1>8, TapStates DEF TapReleased, OwnRelease, IS_TAPPING_KEY
  <2>2. /\ WithTap(rec).key = key /\ WithTap(rec).count = tapping_key.count
        /\ WithTap(rec).pressed \in BOOLEAN
    BY <1>1, <2>1 DEF WithTap, Records
  <2>3. Consume(Act(WithTap(rec)), t, waiting_buffer, {rec})
    BY <1>8 DEF TapReleased
  <2>4. t = WithTap(rec) \/ t = NoTapping
    OBVIOUS
  <2> HIDE DEF t
  <2>5. Stays /\ pc' = "drain" /\ tapping_key' = t
    BY <1>1, <2>3, ConsumeSame
  <2>6. t = NoTapping => ~IS_TAPPING'
    BY <2>5 DEF IS_TAPPING, NoTapping, Record
  <2> QED BY <1>2, <1>3, <1>4, <2>1, <2>2, <2>4, <2>5, <2>6, EventPasses
<1>9. CASE EventDuringTap(rec) \/ EventAfterTap(rec)
  <2> DEFINE t == [tapping_key EXCEPT !.interrupted = @ \/ rec.pressed]
  <2>1. /\ IS_TAPPING /\ tapping_key.count > 0 /\ tapping_key.count \in Nat
        /\ tapping_key \in Records /\ tapping_key.pressed \in BOOLEAN
    BY <1>1, <1>3, <1>9, TapStates DEF OrderInv, TapInv, TapState
  <2>2. /\ t.key = tapping_key.key /\ t.count = tapping_key.count
        /\ t.pressed = tapping_key.pressed
    BY <2>1 DEF Records
  <2>3. \/ Consume(Act(rec), tapping_key, waiting_buffer, {rec})
        \/ Consume(Act(rec), t, waiting_buffer, {rec})
    BY <1>9 DEF EventDuringTap, EventAfterTap
  <2> HIDE DEF t
  <2>4. Stays /\ pc' = "drain" /\ tapping_key' \in {t, tapping_key}
    BY <1>1, <2>3, ConsumeSame
  <2> QED BY <1>2, <1>3, <1>4, <2>1, <2>2, <2>4, EventPasses
<1>10. CASE PlainEvent(rec)
  <2>1. Consume(Act(rec), tapping_key, waiting_buffer, {rec}) /\ ~IS_TAPPING
    BY <1>10 DEF PlainEvent
  <2>2. Stays /\ pc' = "drain" /\ tapping_key' = tapping_key
    BY <1>1, <2>1, ConsumeSame
  <2>3. ~IS_TAPPING'
    BY <2>1, <2>2 DEF IS_TAPPING
  <2> QED BY <1>2, <1>3, <2>2, <2>3, EventPasses
<1> QED BY <1>5, <1>6, <1>7, <1>8, <1>9, <1>10

LEMMA EventOrder ==
    ASSUME Inv, OrderInv, LastInv, OneTapWaits, NEW key \in Keys, Event(key)
    PROVE  OrderInv' /\ EventCall(key) /\ process_tapping(Changed(key))
<1>1. EventCall(key) /\ process_tapping(Changed(key))
  BY DEF Event, EventCall, Changed
<1>2. OrderInv'
  BY <1>1, EventFirstTap, EventUndecidedWaits, EventReleaseAtOnce, EventTimeout,
     EventOthers DEF process_tapping
<1> QED BY <1>1, <1>2

-----------------------------------------------------------------------------
(* The TICK of a pass                                                      *)

LEMMA TickFields ==
    ASSUME Inv, Tick
    PROVE  /\ Engine /\ now \in Times /\ pc = "scan" /\ now' = now /\ pos' = TickPos
           /\ down' = down /\ changed' = changed
           /\ pos \in 0 .. TickPos /\ pos # TickPos /\ Given(TICK) /\ TICK.key = NOEVENT
           /\ TICK.time = now /\ TICK.pressed = FALSE /\ process_tapping(TICK)
           /\ ~OwnRelease(TICK) /\ ~StartsTap(TICK)
           /\ ~(TICK.pressed /\ IS_TAPPING_KEY(TICK.key))
<1>1. /\ now' = now /\ pos' = TickPos /\ pc = "scan" /\ pos < TickPos /\ process_tapping(TICK)
      /\ down' = down /\ changed' = changed
  BY DEF Tick
<1>2. TICK.key = NOEVENT /\ TICK.time = now /\ TICK.pressed = FALSE
  BY DEF TICK, Record
<1>3. ~OwnRelease(TICK) /\ ~StartsTap(TICK) /\ Given(TICK)
  BY <1>1, <1>2 DEF OwnRelease, IS_TAPPING_KEY, IS_TAPPING, StartsTap, Given
<1>4. pos \in 0 .. TickPos /\ pos # TickPos
  BY <1>1, ActionsAssumption DEF Inv, TickPos
<1> QED BY <1>1, <1>2, <1>3, <1>4 DEF Inv, Times

(* A TICK changes no record, and makes all of them due.                    *)
LEMMA TickFacts ==
    ASSUME Inv, OrderInv, Tick, waiting_buffer' = waiting_buffer, kb'.keymap = kb.keymap
    PROVE  /\ QueueInv' /\ Slots' = Slots
           /\ \A i \in Slots : Due(i)' /\ (TapPress(i)' <=> TapPress(i))
           /\ \A k : TapKey(k)' <=> TapKey(k)
<1>1. /\ Engine /\ pos \in 0 .. TickPos /\ now' = now /\ pos' = TickPos /\ changed' = changed
  BY TickFields
<1>2. \A k : TapKey(k)' <=> TapKey(k)
  BY TapKeyStable
<1>3. Stays
  BY LikeItself DEF Stays
<1>4. QueueInv'
  BY <1>1, <1>3, QueueTick DEF OrderInv
<1> QED BY <1>1, <1>2, <1>4 DEF Slots, Due, TapPress, TickPos

LEMMA TickWaits ==
    ASSUME Inv, OrderInv, Tick, WaitForDecision(TICK)
    PROVE  /\ OrderInv' /\ Undecided' /\ waiting_buffer' = waiting_buffer
           /\ tapping_key'.key = tapping_key.key
<1> DEFINE t == [tapping_key EXCEPT !.interrupted = @ \/ TICK.pressed]
<1>1. /\ Engine /\ now \in Times /\ pc = "scan" /\ now' = now /\ pos' = TickPos
      /\ TICK.key = NOEVENT /\ TICK.time = now /\ TICK.pressed = FALSE
  BY TickFields
<1>2. Undecided /\ WITHIN_TAPPING_TERM(TICK) /\ Keep(kb, t, TICK, {})
  BY DEF WaitForDecision
<1>3. /\ IS_TAPPING /\ tapping_key \in Records /\ tapping_key.pressed
      /\ tapping_key.count = 0 /\ tapping_key.time \in Times
  BY <1>1, <1>2, TapStates
<1>4. /\ t.key = tapping_key.key /\ t.time = tapping_key.time
      /\ t.pressed = tapping_key.pressed /\ t.count = tapping_key.count
      /\ t.interrupted = tapping_key.interrupted
  BY <1>1, <1>3 DEF Records
<1> HIDE DEF t
<1>5. waiting_buffer' = waiting_buffer /\ tapping_key' = t /\ kb' = kb
  BY <1>1, <1>2, KeepTick
<1>6. /\ QueueInv' /\ Slots' = Slots
      /\ \A i \in Slots : Due(i)' /\ (TapPress(i)' <=> TapPress(i))
      /\ \A k : TapKey(k)' <=> TapKey(k)
  BY <1>5, TickFacts
<1>7. Undecided' /\ IS_TAPPING' /\ ~IS_TAPPING_RELEASED'
  BY <1>3, <1>4, <1>5 DEF Undecided, IS_TAPPING, IS_TAPPING_PRESSED, IS_TAPPING_RELEASED
<1>8. /\ TIMER_DIFF_16(now, tapping_key.time) < TAPPING_TERM
      /\ TIMER_DIFF_16(now, tapping_key.time) \in Nat
  <2>1. TIMER_DIFF_16(now, tapping_key.time) < TAPPING_TERM
    BY <1>1, <1>2 DEF WITHIN_TAPPING_TERM
  <2>2. TIMER_DIFF_16(now, tapping_key.time) \in Nat
    <3>1. TIMER_DIFF_16(now, tapping_key.time)
            = IF tapping_key.time <= now THEN now - tapping_key.time
              ELSE now - tapping_key.time + TimeMod
      BY <1>1, <1>3, TimerDiff
    <3>2. /\ TimeMod \in Nat /\ now \in Nat /\ tapping_key.time \in Nat
          /\ tapping_key.time <= TimeMod
      BY <1>1, <1>3, TappingAssumption DEF Times
    <3> HIDE DEF TIMER_DIFF_16
    <3> QED BY <3>1, <3>2
  <2> QED BY <2>1, <2>2
<1>9. /\ AgeAt(now, now) = 0 /\ AgeAt(now, tapping_key.time) \in Times
      /\ AgeAt(now, tapping_key.time) <= TIMER_DIFF_16(now, tapping_key.time)
  BY <1>1, <1>3, Ages
<1>10. AgeAt(now, tapping_key.time) \in Nat
  BY <1>9, TappingAssumption DEF Times
<1>11. ASSUME NEW i \in Slots
       PROVE  /\ waiting_buffer[i].time \in Times
              /\ AgeAt(now, tapping_key.time) >= AgeAt(now, waiting_buffer[i].time)
              /\ AgeAt(now, waiting_buffer[i].time) >= AgeAt(now, now)
  <2>1. waiting_buffer[i].time \in Times
    BY <1>1, BufferType
  <2>2. AgeAt(now, waiting_buffer[i].time) \in Times
    BY <1>1, <2>1, Ages
  <2>3. AgeAt(now, waiting_buffer[i].time) >= 0
    BY <2>2 DEF Times
  <2>4. AgeAt(now, tapping_key.time) >= AgeAt(now, waiting_buffer[i].time)
    BY <1>2 DEF OrderInv, TapInv, TapAge, Age
  <2> QED BY <1>9, <2>1, <2>3, <2>4
<1>12. ASSUME NEW i \in Slots, NEW j \in Slots, i < j
       PROVE  TIMER_DIFF_16(waiting_buffer[j].time, waiting_buffer[i].time) < TAPPING_TERM
  <2>1. AgeAt(now, waiting_buffer[i].time) >= AgeAt(now, waiting_buffer[j].time)
    BY <1>12 DEF OrderInv, QueueInv, Age
  <2>2. TIMER_DIFF_16(waiting_buffer[j].time, waiting_buffer[i].time)
          <= TIMER_DIFF_16(now, tapping_key.time)
    BY <1>1, <1>3, <1>11, <2>1, InnerDiff
  <2>3. TIMER_DIFF_16(waiting_buffer[j].time, waiting_buffer[i].time) \in Int
    BY <1>11, TimerDiff, TappingAssumption DEF Times
  <2> QED BY <1>8, <2>2, <2>3, TappingAssumption
<1>13. GapInv'
  BY <1>5, <1>6, <1>12 DEF GapInv, TIMER_DIFF_16
<1>14. ASSUME NEW j \in Slots
       PROVE  TIMER_DIFF_16(waiting_buffer[j].time, tapping_key.time) < TAPPING_TERM
  <2>1. TIMER_DIFF_16(waiting_buffer[j].time, tapping_key.time)
          <= TIMER_DIFF_16(now, tapping_key.time)
    <3>1. AgeAt(now, tapping_key.time) >= AgeAt(now, tapping_key.time)
      BY <1>10
    <3> QED BY <1>1, <1>3, <1>11, <3>1, InnerDiff
  <2>2. TIMER_DIFF_16(waiting_buffer[j].time, tapping_key.time) \in Int
    BY <1>3, <1>11, TimerDiff, TappingAssumption DEF Times
  <2> QED BY <1>8, <2>1, <2>2, TappingAssumption
<1>15. InTerm'
  BY <1>4, <1>5, <1>6, <1>14 DEF InTerm, WITHIN_TAPPING_TERM, TIMER_DIFF_16
<1>16. Blocked'
  <2>1. \A i \in Slots : Blocks(i) => Blocks(i)'
    <3>1. ASSUME NEW i \in Slots, IsModifierRelease(waiting_buffer[i])
          PROVE  IsModifierRelease(waiting_buffer[i])'
      <4>1. layer_switch_get_action(kb, waiting_buffer[i])'
              = layer_switch_get_action(kb, waiting_buffer[i])
        BY <1>5 DEF layer_switch_get_action, Track, action_for_key, current_layer_for_key,
           Visible
      <4> QED BY <1>5, <3>1, <4>1 DEF IsModifierRelease, KC_NO
    <3>2. \A i \in Slots : waiting_buffer_typed(waiting_buffer[i])
                            => waiting_buffer_typed(waiting_buffer[i])'
      BY <1>5 DEF waiting_buffer_typed
    <3> QED BY <1>4, <1>5, <3>1, <3>2 DEF Blocks
  <2>2. \A j \in Slots : OwnRelease(waiting_buffer[j])' => OwnRelease(waiting_buffer[j])
    BY <1>3, <1>4, <1>5 DEF OwnRelease, IS_TAPPING_KEY
  <2>3. \A j \in Slots : OwnRelease(waiting_buffer[j]) => \E i \in Slots : i < j /\ Blocks(i)
    BY <1>1, <1>2 DEF OrderInv, TapInv, Blocked
  <2> QED BY <1>6, <2>1, <2>2, <2>3 DEF Blocked
<1>17. LatePlain'
  BY <1>1, <1>4, <1>5, <1>8 DEF LatePlain, TIMER_DIFF_16
<1>18. TapAge'
  <2>1. AgeAt(now, tapping_key.time) <= TAPPING_TERM
    BY <1>8, <1>9, <1>10, TappingAssumption
  <2> QED BY <1>1, <1>2, <1>4, <1>5, <1>6, <1>11, <2>1 DEF TapAge, Age, OrderInv, TapInv
<1>19. TapState'
  BY <1>2, <1>3, <1>4, <1>5, <1>6, <1>7 DEF TapState, OrderInv, TapInv
<1>20. TapInv'
  BY <1>7, <1>15, <1>16, <1>17, <1>18, <1>19, AfterUndecided
<1> QED BY <1>4, <1>5, <1>6, <1>7, <1>13, <1>20 DEF OrderInv

LEMMA TickTimeout ==
    ASSUME Inv, OrderInv, Tick, Timeout(TICK)
    PROVE  OrderInv' /\ ~IS_TAPPING' /\ waiting_buffer' = waiting_buffer
<1>1. /\ Engine /\ now \in Times /\ pc = "scan" /\ now' = now /\ pos' = TickPos
      /\ TICK.key = NOEVENT /\ TICK.time = now /\ pos # TickPos
      /\ Given(TICK) /\ process_tapping(TICK)
  BY TickFields
<1>2. /\ Undecided /\ ~WITHIN_TAPPING_TERM(TICK)
      /\ Keep(Act(tapping_key), NoTapping, TICK, {tapping_key})
  BY DEF Timeout
<1>3. kb'.keymap = kb.keymap
  BY <1>1, CallKeymap
<1>4. waiting_buffer' = waiting_buffer /\ tapping_key' = NoTapping /\ pc' = "drain"
  BY <1>1, <1>2, KeepTick
<1>5. ~IS_TAPPING'
  BY <1>4 DEF IS_TAPPING, NoTapping, Record
<1>6. /\ QueueInv' /\ Slots' = Slots
      /\ \A i \in Slots : Due(i)' /\ (TapPress(i)' <=> TapPress(i))
  BY <1>3, <1>4, TickFacts
<1>7. \/ \A j \in Slots : waiting_buffer[j].time # now
      \/ \A i \in Slots : ~TapPress(i)
  BY <1>1, <1>2 DEF OrderInv, TapInv, LatePlain, WITHIN_TAPPING_TERM
<1>8. CASE \A j \in Slots : waiting_buffer[j].time # now
  <2>1. GapStrong
    BY <1>1, <1>2, GapsWhileTapping, TapStates DEF OrderInv
  <2>2. GapInv'
    BY <1>4, <1>6, <1>8, <2>1 DEF GapInv, GapStrong, Due, TIMER_DIFF_16
  <2> QED BY <1>4, <1>5, <1>6, <2>2, AfterNone DEF OrderInv
<1>9. CASE \A i \in Slots : ~TapPress(i)
  <2>1. GapInv'
    BY <1>5, <1>6, <1>9 DEF GapInv, PlainOnly
  <2> QED BY <1>4, <1>5, <1>6, <2>1, AfterNone DEF OrderInv
<1> QED BY <1>7, <1>8, <1>9

LEMMA TickOthers ==
    ASSUME Inv, OrderInv, Tick,
           \/ EventDuringTap(TICK) \/ EventAfterTap(TICK) \/ TapExpires(TICK)
           \/ PlainEvent(TICK)
    PROVE  OrderInv' /\ waiting_buffer' = waiting_buffer
<1> DEFINE t == [tapping_key EXCEPT !.interrupted = @ \/ TICK.pressed]
<1>1. /\ Engine /\ now \in Times /\ pc = "scan" /\ now' = now /\ pos' = TickPos
      /\ TICK.key = NOEVENT /\ TICK.time = now /\ TICK.pressed = FALSE /\ pos # TickPos
      /\ Given(TICK) /\ process_tapping(TICK)
  BY TickFields
<1>2. kb'.keymap = kb.keymap
  BY <1>1, CallKeymap
<1>3. ~Undecided
  BY <1>1, TapStates DEF EventDuringTap, EventAfterTap, TapExpires, PlainEvent
<1>4. \A i \in Slots : waiting_buffer[i].time = now
  BY <1>1, <1>3 DEF OrderInv, TapInv, DrainedInv, NoneDue, Due
<1>5. \/ Consume(Act(TICK), tapping_key, waiting_buffer, {TICK}) /\ EventDuringTap(TICK)
      \/ Consume(Act(TICK), t, waiting_buffer, {TICK}) /\ EventAfterTap(TICK)
      \/ Keep(kb, NoTapping, TICK, {})
      \/ Consume(Act(TICK), tapping_key, waiting_buffer, {TICK}) /\ ~IS_TAPPING
  BY DEF EventDuringTap, EventAfterTap, TapExpires, PlainEvent
<1>d. IS_TAPPING => /\ t.key = tapping_key.key /\ t.count = tapping_key.count
                    /\ t.pressed = tapping_key.pressed /\ t.time = tapping_key.time
                    /\ tapping_key.count \in Nat
  BY <1>1, TapStates DEF Records
<1> HIDE DEF t
<1>6. /\ waiting_buffer' = waiting_buffer /\ pc' = "drain"
      /\ \/ tapping_key' = tapping_key /\ EventDuringTap(TICK)
         \/ tapping_key' = t /\ EventAfterTap(TICK)
         \/ tapping_key' = NoTapping
         \/ tapping_key' = tapping_key /\ ~IS_TAPPING
  BY <1>1, <1>5, KeepTick DEF Consume
<1>7. /\ QueueInv' /\ Slots' = Slots
      /\ \A i \in Slots : Due(i)' /\ (TapPress(i)' <=> TapPress(i))
      /\ \A k : TapKey(k)' <=> TapKey(k)
  BY <1>2, <1>6, TickFacts
<1>8. GapInv'
  <2>1. TIMER_DIFF_16(now, now) < TAPPING_TERM
    BY <1>1, Ages, TappingAssumption
  <2> QED BY <1>4, <1>6, <1>7, <2>1 DEF GapInv, TIMER_DIFF_16
<1>9. NotAgain'
  <2>1. \A i, j \in Slots : i < j => i # j
    BY DEF Slots
  <2>2. \A i, j \in Slots : i < j => waiting_buffer[i].key # waiting_buffer[j].key
    BY <1>4, <2>1 DEF OrderInv, QueueInv
  <2> QED BY <1>6, <1>7, <2>2 DEF NotAgain, OwnRelease, IS_TAPPING_KEY
<1>10. CASE tapping_key' = tapping_key /\ EventDuringTap(TICK)
  <2>1. IS_TAPPING /\ tapping_key.pressed /\ tapping_key.count > 0
    BY <1>1, <1>10, TapStates DEF EventDuringTap
  <2>2. IS_TAPPING' /\ TapKey(tapping_key.key)'
    BY <1>7, <1>10, <2>1 DEF IS_TAPPING, OrderInv, TapInv, TapState
  <2>3. TapInv'
    BY <1>6, <1>9, <1>10, <1>d, <2>1, <2>2, AfterTapped
  <2> QED BY <1>6, <1>7, <1>8, <2>3 DEF OrderInv
<1>11. CASE tapping_key' = t /\ EventAfterTap(TICK)
  <2>1. IS_TAPPING /\ ~tapping_key.pressed /\ tapping_key.count > 0 /\ WITHIN_TAPPING_TERM(TICK)
    BY <1>1, <1>11, TapStates DEF EventAfterTap, OrderInv, TapInv, TapState
  <2>2. IS_TAPPING' /\ TapKey(tapping_key.key)'
    BY <1>7, <1>11, <1>d, <2>1 DEF IS_TAPPING, OrderInv, TapInv, TapState
  <2>3. InTerm'
    BY <1>1, <1>4, <1>6, <1>7, <1>11, <1>d, <2>1
       DEF InTerm, WITHIN_TAPPING_TERM, TIMER_DIFF_16
  <2>4. TapInv'
    BY <1>6, <1>9, <1>11, <1>d, <2>1, <2>2, <2>3, AfterReleased
  <2> QED BY <1>6, <1>7, <1>8, <2>4 DEF OrderInv
<1>12. CASE tapping_key' = NoTapping \/ (tapping_key' = tapping_key /\ ~IS_TAPPING)
  <2>1. ~IS_TAPPING'
    BY <1>12 DEF IS_TAPPING, NoTapping, Record
  <2> QED BY <1>6, <1>7, <1>8, <2>1, AfterNone DEF OrderInv
<1> QED BY <1>6, <1>10, <1>11, <1>12

LEMMA TickOrder ==
    ASSUME Inv, OrderInv, Tick
    PROVE  /\ OrderInv' /\ waiting_buffer' = waiting_buffer
           /\ \/ WaitForDecision(TICK) \/ Timeout(TICK) \/ EventDuringTap(TICK)
              \/ EventAfterTap(TICK) \/ TapExpires(TICK) \/ PlainEvent(TICK)
<1>1. /\ process_tapping(TICK) /\ ~OwnRelease(TICK) /\ ~StartsTap(TICK) /\ TICK.key = NOEVENT
      /\ TICK.pressed = FALSE
  BY TickFields
<1>2. \/ WaitForDecision(TICK) \/ Timeout(TICK) \/ EventDuringTap(TICK)
      \/ EventAfterTap(TICK) \/ TapExpires(TICK) \/ PlainEvent(TICK)
  BY <1>1 DEF process_tapping, FirstTap, RetainModifier, ReleaseAtOnce, OtherRelease,
     TapReleased, NextTapKey, SequentialTap, StartAgain, OtherTapKey, PressTapKey
<1> QED BY <1>2, TickWaits, TickTimeout, TickOthers

-----------------------------------------------------------------------------
(* The waits of the thread, and the end of the loop                        *)

LEMMA WaitFields ==
    ASSUME Inv, OrderInv, WaitPass \/ WaitStep
    PROVE  /\ Engine /\ now \in Times /\ pc = "scan" /\ pos = TickPos /\ pos' # TickPos
           /\ waiting_buffer' = waiting_buffer /\ kb' = kb /\ tapping_key' = tapping_key
           /\ pc' = pc /\ settled' = settled /\ down' = down
           /\ Slots' = Slots /\ (\A i \in Slots : TapPress(i)' <=> TapPress(i))
           /\ \A i \in Slots : Due(i) /\ Undecided
           /\ (Undecided' <=> Undecided) /\ (IS_TAPPING' <=> IS_TAPPING)
           /\ (IS_TAPPING_RELEASED' <=> IS_TAPPING_RELEASED)
           /\ \A k : TapKey(k)' <=> TapKey(k)
           /\ \A i \in Slots : (OwnRelease(waiting_buffer[i])' <=> OwnRelease(waiting_buffer[i]))
                               /\ (Blocks(i)' <=> Blocks(i))
<1>1. /\ pc = "scan" /\ pos = TickPos /\ pos' = 0
      /\ waiting_buffer' = waiting_buffer /\ kb' = kb /\ tapping_key' = tapping_key
      /\ pc' = pc /\ settled' = settled /\ down' = down
  BY DEF WaitPass, WaitStep, Wait
<1>2. pos' # TickPos
  BY <1>1, ActionsAssumption DEF TickPos
<1>3. \A k : TapKey(k)' <=> TapKey(k)
  BY <1>1, TapKeyStable
<1>4. /\ Slots' = Slots /\ (\A i \in Slots : TapPress(i)' <=> TapPress(i))
      /\ (Undecided' <=> Undecided) /\ (IS_TAPPING' <=> IS_TAPPING)
      /\ (IS_TAPPING_RELEASED' <=> IS_TAPPING_RELEASED)
  BY <1>1, <1>3 DEF Slots, TapPress, Undecided, IS_TAPPING, IS_TAPPING_PRESSED,
     IS_TAPPING_RELEASED
<1>5. \A i \in Slots : Due(i) /\ Undecided
  BY <1>1 DEF Due, OrderInv, TapInv, DrainedInv, NoneDue
<1>6. \A i \in Slots : (OwnRelease(waiting_buffer[i])' <=> OwnRelease(waiting_buffer[i]))
                       /\ (Blocks(i)' <=> Blocks(i))
  BY <1>1 DEF OwnRelease, IS_TAPPING_KEY, IS_TAPPING, Blocks, IsModifierRelease,
     waiting_buffer_typed, layer_switch_get_action, Track, action_for_key,
     current_layer_for_key, Visible, KC_NO
<1> QED BY <1>1, <1>2, <1>3, <1>4, <1>5, <1>6 DEF Inv, Times

LEMMA WaitKeeps ==
    ASSUME Inv, OrderInv, WaitPass \/ WaitStep, QueueInv', LatePlain', TapAge'
    PROVE  OrderInv'
<1>1. GapInv'
  BY WaitFields DEF OrderInv, GapInv, PlainOnly, TIMER_DIFF_16
<1>2. InTerm'
  BY WaitFields DEF OrderInv, TapInv, InTerm, WITHIN_TAPPING_TERM, TIMER_DIFF_16
<1>3. Blocked'
  BY WaitFields DEF OrderInv, TapInv, Blocked
<1>4. NotAgain'
  <2>1. \A i \in Slots : ~NotAgain' => Undecided
    BY WaitFields
  <2> QED BY <2>1, WaitFields DEF OrderInv, TapInv, NotAgain
<1>5. DrainedInv' /\ TapState'
  BY WaitFields DEF OrderInv, TapInv, DrainedInv, NoneDue, TapState
<1> QED BY <1>1, <1>2, <1>3, <1>4, <1>5 DEF OrderInv, TapInv

LEMMA WaitOrder ==
    ASSUME Inv, OrderInv, WaitPass \/ WaitStep PROVE OrderInv'
<1>0. Engine /\ now \in Times
  BY WaitFields
<1>t. Undecided => tapping_key.time \in Times
  BY <1>0, TapStates
<1>1. CASE WaitPass
  <2>1. now' = now
    BY <1>1 DEF WaitPass
  <2>2. QueueInv'
    BY <1>0, <1>1, QueueWaitPass DEF OrderInv
  <2>3. LatePlain' /\ TapAge'
    BY <2>1, WaitFields DEF OrderInv, TapInv, LatePlain, TapAge, Age, TIMER_DIFF_16
  <2> QED BY <2>2, <2>3, WaitKeeps
<1>2. CASE WaitStep
  <2>1. ASSUME Undecided
        PROVE  /\ AgeAt(now, tapping_key.time) <= TAPPING_TERM
               /\ AgeAt(now, tapping_key.time) \in Nat
               /\ \A i \in Slots : AgeAt(now, tapping_key.time)
                                     >= AgeAt(now, waiting_buffer[i].time)
               /\ AgeAt(now, tapping_key.time) < TAPPING_TERM \/ \A i \in Slots : ~TapPress(i)
    <3>1. /\ AgeAt(now, tapping_key.time) <= TAPPING_TERM
          /\ \A i \in Slots : AgeAt(now, tapping_key.time)
                                >= AgeAt(now, waiting_buffer[i].time)
      BY <2>1, WaitFields DEF OrderInv, TapInv, TapAge, Age
    <3>2. AgeAt(now, tapping_key.time) \in Nat
      <4>1. AgeAt(now, tapping_key.time) \in Times
        BY <1>0, <1>t, <2>1, Ages
      <4> QED BY <4>1, TappingAssumption DEF Times
    <3>3. \/ TIMER_DIFF_16(now, tapping_key.time) < TAPPING_TERM
          \/ \A i \in Slots : ~TapPress(i)
      BY <2>1, WaitFields DEF OrderInv, TapInv, LatePlain
    <3>4. /\ AgeAt(now, tapping_key.time) <= TIMER_DIFF_16(now, tapping_key.time)
      BY <1>0, <1>t, <2>1, Ages
    <3>5. TIMER_DIFF_16(now, tapping_key.time) \in Int
      BY <1>0, <1>t, <2>1, TimerDiff, TappingAssumption DEF Times
    <3> QED BY <3>1, <3>2, <3>3, <3>4, <3>5, TappingAssumption
  <2>2. ASSUME NEW i \in Slots
        PROVE  /\ AgeAt(now, waiting_buffer[i].time) \in Nat
               /\ AgeAt(now, waiting_buffer[i].time) <= TAPPING_TERM
               /\ TapPress(i) => AgeAt(now, waiting_buffer[i].time) < TAPPING_TERM
    <3>1. Undecided
      BY WaitFields
    <3>2. AgeAt(now, waiting_buffer[i].time) \in Nat
      <4>1. waiting_buffer[i].time \in Times
        BY <1>0, BufferType
      <4>2. AgeAt(now, waiting_buffer[i].time) \in Times
        BY <1>0, <4>1, Ages
      <4> QED BY <4>2, TappingAssumption DEF Times
    <3> QED BY <2>1, <3>1, <3>2, TappingAssumption
  <2>3. /\ QueueInv'
        /\ \A i \in Slots : /\ waiting_buffer[i].time # now'
                            /\ AgeAt(now', waiting_buffer[i].time) =
                                 AgeAt(now, waiting_buffer[i].time) + 1
    BY <1>0, <1>2, <2>2, QueueWaitStep DEF OrderInv, Age
  <2>4. LatePlain'
    BY <2>3, WaitFields DEF LatePlain
  <2>5. TapAge'
    <3> SUFFICES ASSUME Undecided' PROVE
          /\ AgeAt(now', tapping_key.time) <= TAPPING_TERM + 1
          /\ \A j \in Slots : AgeAt(now', tapping_key.time) >= AgeAt(now', waiting_buffer[j].time)
      BY WaitFields DEF TapAge, Age, TickPos
    <3>1. Undecided
      BY WaitFields
    <3>2. AgeAt(now', tapping_key.time) = AgeAt(now, tapping_key.time) + 1
      <4>1. AgeAt(now, tapping_key.time) < TimeMod - 2
        BY <2>1, <3>1, TappingAssumption
      <4>2. now' = (now + 1) % (TimeMod - 1)
        BY <1>2 DEF WaitStep
      <4> QED BY <1>0, <1>t, <3>1, <4>1, <4>2, AgeStep
    <3>3. AgeAt(now', tapping_key.time) <= TAPPING_TERM + 1
      BY <2>1, <3>1, <3>2, TappingAssumption
    <3>4. \A j \in Slots : AgeAt(now', tapping_key.time) >= AgeAt(now', waiting_buffer[j].time)
      BY <2>1, <2>2, <2>3, <3>1, <3>2
    <3> QED BY <3>3, <3>4
  <2> QED BY <2>3, <2>4, <2>5, WaitKeeps
<1> QED BY <1>1, <1>2

LEMMA DrainedOrder ==
    ASSUME Inv, OrderInv, Drained PROVE OrderInv'
<1>1. /\ waiting_buffer' = waiting_buffer /\ kb' = kb /\ tapping_key' = tapping_key
      /\ now' = now /\ pos' = pos /\ changed' = changed /\ waiting_buffer = <<>>
  BY DEF Drained
<1>2. Slots = {} /\ Slots' = {}
  BY <1>1, EmptySeq DEF Slots
<1>3. QueueInv' /\ GapInv'
  BY <1>2 DEF QueueInv, GapInv
<1>4. \A k : TapKey(k)' <=> TapKey(k)
  BY <1>1, TapKeyStable
<1>5. InTerm' /\ Blocked' /\ NotAgain' /\ DrainedInv' /\ LatePlain'
  BY <1>2 DEF InTerm, Blocked, NotAgain, DrainedInv, LatePlain, NoneDue
<1>6. TapAge' /\ TapState'
  BY <1>1, <1>2, <1>4 DEF TapAge, TapState, Age, OrderInv, TapInv, Undecided, IS_TAPPING,
     IS_TAPPING_PRESSED, IS_TAPPING_RELEASED, TickPos
<1> QED BY <1>3, <1>5, <1>6 DEF OrderInv, TapInv

LEMMA OrderStutters ==
    ASSUME OrderInv, UNCHANGED vars PROVE OrderInv'
<1>1. /\ waiting_buffer' = waiting_buffer /\ kb' = kb /\ tapping_key' = tapping_key
      /\ now' = now /\ pos' = pos /\ changed' = changed /\ pc' = pc
  BY DEF vars
<1>2. \A k : TapKey(k)' <=> TapKey(k)
  BY <1>1, TapKeyStable
<1>3. /\ Slots' = Slots /\ (\A i \in Slots : TapPress(i)' <=> TapPress(i))
      /\ (Undecided' <=> Undecided) /\ (IS_TAPPING' <=> IS_TAPPING)
      /\ (IS_TAPPING_RELEASED' <=> IS_TAPPING_RELEASED)
      /\ (\A i \in Slots : Due(i)' <=> Due(i)) /\ TickPos' = TickPos
  BY <1>1, <1>2 DEF Slots, TapPress, Undecided, IS_TAPPING, IS_TAPPING_PRESSED,
     IS_TAPPING_RELEASED, Due, TickPos
<1>4. \A i \in Slots : (OwnRelease(waiting_buffer[i])' <=> OwnRelease(waiting_buffer[i]))
                       /\ (Blocks(i)' <=> Blocks(i))
  BY <1>1 DEF OwnRelease, IS_TAPPING_KEY, IS_TAPPING, Blocks, IsModifierRelease,
     waiting_buffer_typed, layer_switch_get_action, Track, action_for_key,
     current_layer_for_key, Visible, KC_NO
<1>5. QueueInv'
  BY <1>1, <1>3 DEF OrderInv, QueueInv, Age
<1>6. GapInv'
  BY <1>1, <1>3 DEF OrderInv, GapInv, PlainOnly, TIMER_DIFF_16
<1>7. InTerm' /\ LatePlain'
  BY <1>1, <1>3 DEF OrderInv, TapInv, InTerm, LatePlain, WITHIN_TAPPING_TERM, TIMER_DIFF_16
<1>8. Blocked'
  BY <1>1, <1>3, <1>4 DEF OrderInv, TapInv, Blocked
<1>9. NotAgain'
  BY <1>1, <1>3, <1>4 DEF OrderInv, TapInv, NotAgain
<1>10. DrainedInv' /\ TapAge' /\ TapState'
  BY <1>1, <1>2, <1>3 DEF OrderInv, TapInv, DrainedInv, NoneDue, TapAge, Age, TapState
<1> QED BY <1>5, <1>6, <1>7, <1>8, <1>9, <1>10 DEF OrderInv, TapInv

LEMMA OrderStep ==
    ASSUME Inv, OrderInv, LastInv, OneTapWaits, [Next]_vars PROVE OrderInv'
BY OrderStutters, EventOrder, TickOrder, WaitOrder, DrainOrder, DrainedOrder DEF Next

LEMMA OrderInit == Init => OrderInv /\ LastInv
<1> SUFFICES ASSUME Init PROVE OrderInv /\ LastInv
  OBVIOUS
<1>1. /\ waiting_buffer = <<>> /\ tapping_key = NoTapping
  BY DEF Init
<1>2. Slots = {} /\ ~IS_TAPPING
  BY <1>1, EmptySeq DEF Slots, IS_TAPPING, NoTapping, Record
<1> QED BY <1>2 DEF OrderInv, LastInv, QueueInv, GapInv, TapInv, InTerm, Blocked, NotAgain,
        DrainedInv, LatePlain, TapAge, TapState, NoneDue, Undecided, IS_TAPPING_PRESSED,
        IS_TAPPING_RELEASED

-----------------------------------------------------------------------------
(* The five ways in which a call of process_tapping deals with a record    *)
(* and with the events that wait.                                          *)

(* The press of k is that of the undecided tapping key.                    *)
Holds(k) == Undecided /\ IS_TAPPING_KEY(k) /\ ~settled[k]

Settles(k, v) == \A j \in Keys : settled'[j] = IF j = k THEN v ELSE settled[j]
SettlesNone == \A j \in Keys : settled'[j] = settled[j]
HoldsSame == \A k \in Keys : Holds(k)' <=> Holds(k)

(* What happens to the buffer when the call returns true, or false.        *)
Takes == (pc = "drain" => Drops) /\ (pc = "scan" => Stays)

Leaves(rec) ==
    \/ (pc = "drain" \/ rec.key = NOEVENT) /\ Stays
    \/ /\ pc = "scan" /\ rec.key # NOEVENT
       /\ \E r : r.key = rec.key /\ r.pressed = rec.pressed /\ Adds(r)

Passes(rec) ==
    /\ Takes /\ Settles(rec.key, rec.pressed) /\ HoldsSame /\ ~Holds(rec.key)
    /\ ~Undecided \/ (~rec.pressed /\ ~waiting_buffer_typed(rec))

Starts(rec) ==
    /\ Takes /\ SettlesNone
    /\ rec.key # NOEVENT /\ rec.pressed /\ ~Undecided
    /\ Undecided' /\ tapping_key'.key = rec.key

WaitsOn(rec) == Leaves(rec) /\ SettlesNone /\ HoldsSame

Decides(rec) ==
    /\ Leaves(rec) /\ Undecided /\ Settles(tapping_key.key, TRUE)
    /\ \A k \in Keys : ~Holds(k)'

Overflows(rec) ==
    /\ pc = "scan" /\ rec.key # NOEVENT /\ IsFull
    /\ waiting_buffer' = <<>> /\ tapping_key' = NoTapping
    /\ settled' = [k \in Keys |-> k \in down']

Dealt(rec) ==
    Passes(rec) \/ Starts(rec) \/ WaitsOn(rec) \/ Decides(rec) \/ Overflows(rec)

LEMMA SettleOne ==
    ASSUME NEW x, Settle({x}) PROVE Settles(x.key, x.pressed)
<1> SUFFICES ASSUME NEW k \in Keys
             PROVE  settled'[k] = IF k = x.key THEN x.pressed ELSE settled[k]
  BY DEF Settles
<1>1. settled'[k] = IF \E r \in {x} : r.key = k
                    THEN (CHOOSE r \in {x} : r.key = k).pressed ELSE settled[k]
  BY DEF Settle
<1>2. CASE k = x.key
  <2>1. (CHOOSE r \in {x} : r.key = k) = x
    BY <1>2
  <2> QED BY <1>1, <1>2, <2>1
<1>3. CASE k # x.key
  BY <1>1, <1>3
<1> QED BY <1>2, <1>3

LEMMA SettleNone == Settle({}) => SettlesNone
BY DEF Settle, SettlesNone

LEMMA KeepWays ==
    ASSUME Engine, pc = "drain" => waiting_buffer # <<>>,
           NEW newKb, NEW tapping, NEW done, NEW rec,
           rec \in Records \/ (rec.key = NOEVENT /\ pc = "scan"),
           pc = "drain" => Like(rec, waiting_buffer[1]),
           Keep(newKb, tapping, rec, done)
    PROVE  \/ Leaves(rec) /\ tapping_key' = tapping /\ Settle(done)
           \/ Overflows(rec)
<1>1. CASE /\ pc = "drain" /\ waiting_buffer' = [waiting_buffer EXCEPT ![1] = rec]
           /\ tapping_key' = tapping /\ Settle(done)
  <2>1. 1 \in Slots /\ rec \in Records
    BY <1>1, BufferType
  <2>2. /\ Len(waiting_buffer') = Len(waiting_buffer)
        /\ \A i \in Slots : waiting_buffer'[i] = IF i = 1 THEN rec ELSE waiting_buffer[i]
    BY <1>1, <2>1, ExceptSeq, BufferType DEF Slots
  <2>3. Stays
    BY <1>1, <2>2, LikeItself DEF Stays
  <2> QED BY <1>1, <2>3 DEF Leaves
<1>2. CASE /\ pc = "scan" /\ rec.key = NOEVENT /\ waiting_buffer' = waiting_buffer
           /\ tapping_key' = tapping /\ Settle(done)
  BY <1>2, LikeItself DEF Leaves, Stays
<1>3. CASE /\ pc = "scan" /\ rec.key # NOEVENT
           /\ waiting_buffer' = Append(waiting_buffer, rec)
           /\ tapping_key' = tapping /\ Settle(done)
  <2>1. /\ Len(Append(waiting_buffer, rec)) = Len(waiting_buffer) + 1
        /\ \A i \in 1 .. Len(waiting_buffer) :
              Append(waiting_buffer, rec)[i] = waiting_buffer[i]
        /\ Append(waiting_buffer, rec)[Len(waiting_buffer) + 1] = rec
    BY <1>3, BufferType, AppendProperties
  <2>2. Adds(rec)
    BY <1>3, <2>1 DEF Adds, Slots
  <2> QED BY <1>3, <2>2 DEF Leaves
<1>4. CASE Overflows(rec)
  BY <1>4
<1> QED BY <1>1, <1>2, <1>3, <1>4, Zenon DEF Keep, Overflows

LEMMA ConsumeWays ==
    ASSUME Engine, pc = "drain" => waiting_buffer # <<>>,
           NEW newKb, NEW tapping, NEW done,
           NEW buffer \in Seq(Records), Len(buffer) = Len(waiting_buffer),
           \A i \in Slots : Like(buffer[i], waiting_buffer[i]),
           Consume(newKb, tapping, buffer, done)
    PROVE  Takes /\ tapping_key' = tapping /\ Settle(done)
<1>1. Takes
  BY ConsumeShape DEF Takes
<1> QED BY <1>1 DEF Consume

LEMMA ConsumeWay ==
    ASSUME Engine, pc = "drain" => waiting_buffer # <<>>,
           NEW newKb, NEW tapping, NEW done,
           Consume(newKb, tapping, waiting_buffer, done)
    PROVE  Takes /\ tapping_key' = tapping /\ Settle(done)
BY ConsumeWays, LikeItself, BufferType

(* No press is held when the tapping key is not undecided.                 *)
LEMMA HoldsNone ==
    /\ ~Undecided => \A k \in Keys : ~Holds(k)
    /\ ~Undecided' => \A k \in Keys : ~Holds(k)'
BY DEF Holds

LEMMA DealtWaits ==
    ASSUME Inv, NEW rec, Given(rec), pc = "drain" => rec = waiting_buffer[1],
           RetainModifier(rec) \/ WaitForDecision(rec) \/ TapExpires(rec)
    PROVE  Dealt(rec)
<1>1. /\ Engine
      /\ rec \in Records \/ (rec.key = NOEVENT /\ pc = "scan")
      /\ pc = "drain" => waiting_buffer # <<>>
      /\ pc = "drain" => Like(rec, waiting_buffer[1])
  BY LikeItself DEF Given, Inv
<1> DEFINE t == [tapping_key EXCEPT !.interrupted = @ \/ rec.pressed]
<1>2. CASE RetainModifier(rec) \/ WaitForDecision(rec)
  <2>1. Undecided /\ (Keep(kb, tapping_key, rec, {}) \/ Keep(kb, t, rec, {}))
    BY <1>2 DEF RetainModifier, OtherRelease, WaitForDecision
  <2>2. tapping_key \in Records
    BY <1>1, <2>1, TapStates
  <2>3. t.key = tapping_key.key /\ t.pressed = tapping_key.pressed /\ t.count = tapping_key.count
    BY <2>2 DEF Records
  <2> HIDE DEF t
  <2>4. \/ Leaves(rec) /\ tapping_key' \in {tapping_key, t} /\ Settle({})
        \/ Overflows(rec)
    BY <1>1, <2>1, KeepWays
  <2>5. CASE Leaves(rec) /\ tapping_key' \in {tapping_key, t} /\ Settle({})
    <3>1. SettlesNone
      BY <2>5, SettleNone
    <3>2. HoldsSame
      BY <2>3, <2>5, <3>1 DEF HoldsSame, Holds, Undecided, IS_TAPPING_PRESSED, IS_TAPPING,
         IS_TAPPING_KEY, SettlesNone
    <3> QED BY <2>5, <3>1, <3>2 DEF Dealt, WaitsOn
  <2> QED BY <2>4, <2>5 DEF Dealt
<1>3. CASE TapExpires(rec)
  <2>1. IS_TAPPING_RELEASED /\ Keep(kb, NoTapping, rec, {})
    BY <1>3 DEF TapExpires
  <2>2. \/ Leaves(rec) /\ tapping_key' = NoTapping /\ Settle({})
        \/ Overflows(rec)
    BY <1>1, <2>1, KeepWays
  <2>3. CASE Leaves(rec) /\ tapping_key' = NoTapping /\ Settle({})
    <3>1. ~Undecided /\ ~Undecided'
      BY <1>1, <2>1, <2>3, TapStates DEF Undecided, IS_TAPPING_PRESSED, IS_TAPPING,
         NoTapping, Record
    <3> QED BY <2>3, <3>1, SettleNone, HoldsNone DEF Dealt, WaitsOn, HoldsSame
  <2> QED BY <2>2, <2>3 DEF Dealt
<1> QED BY <1>2, <1>3

LEMMA DealtDecides ==
    ASSUME Inv, NEW rec, Given(rec), pc = "drain" => rec = waiting_buffer[1],
           FirstTap(rec) \/ Timeout(rec)
    PROVE  Dealt(rec)
<1>1. /\ Engine
      /\ rec \in Records \/ (rec.key = NOEVENT /\ pc = "scan")
      /\ pc = "drain" => waiting_buffer # <<>>
      /\ pc = "drain" => Like(rec, waiting_buffer[1])
  BY LikeItself DEF Given, Inv
<1>2. /\ Undecided /\ IS_TAPPING /\ tapping_key \in Records /\ tapping_key.pressed = TRUE
  BY <1>1, TapStates DEF FirstTap, Timeout
<1>3. CASE Timeout(rec)
  <2>1. Keep(Act(tapping_key), NoTapping, rec, {tapping_key})
    BY <1>3 DEF Timeout
  <2>2. \/ Leaves(rec) /\ tapping_key' = NoTapping /\ Settle({tapping_key})
        \/ Overflows(rec)
    BY <1>1, <2>1, KeepWays
  <2>3. CASE Leaves(rec) /\ tapping_key' = NoTapping /\ Settle({tapping_key})
    <3>1. ~Undecided'
      BY <2>3 DEF Undecided, IS_TAPPING_PRESSED, IS_TAPPING, NoTapping, Record
    <3>2. Settles(tapping_key.key, TRUE)
      BY <1>2, <2>3, SettleOne
    <3> QED BY <1>2, <2>3, <3>1, <3>2, HoldsNone DEF Dealt, Decides
  <2> QED BY <2>2, <2>3 DEF Dealt
<1>4. CASE FirstTap(rec)
  <2> DEFINE tap == [tapping_key EXCEPT !.count = 1]
             t == Decided(tap)
             kept == [rec EXCEPT !.count = t.count, !.interrupted = t.interrupted]
  <2>1. OwnRelease(rec) /\ Keep(Act(tap), t, kept, {tap})
    BY <1>4 DEF FirstTap
  <2>2. rec \in Records /\ rec.key # NOEVENT /\ ~rec.pressed
    BY <1>1, <1>2, <2>1 DEF OwnRelease, IS_TAPPING_KEY, IS_TAPPING
  <2>3. tap \in Records /\ tap.key = tapping_key.key /\ tap.pressed = TRUE
    BY <1>2, RecordFields DEF Records
  <2> HIDE DEF tap
  <2>4. t \in Records /\ t.key = tapping_key.key
    <3>1. t = tap \/ t = [tap EXCEPT !.count = 0]
      BY DEF Decided
    <3>2. [tap EXCEPT !.count = 0] \in Records /\ [tap EXCEPT !.count = 0].key = tap.key
      BY <2>3, TappingAssumption DEF Records
    <3> HIDE DEF t
    <3> QED BY <2>3, <3>1, <3>2
  <2> HIDE DEF t
  <2>5. /\ kept \in Records /\ kept.key = rec.key /\ kept.pressed = rec.pressed
        /\ kept.time = rec.time /\ Like(kept, rec)
    BY <2>2, <2>4 DEF Records, Like
  <2> HIDE DEF kept
  <2>6. pc = "drain" => Like(kept, waiting_buffer[1])
    BY <2>5
  <2>7. \/ Leaves(kept) /\ tapping_key' = t /\ Settle({tap})
        \/ Overflows(kept)
    BY <1>1, <2>1, <2>5, <2>6, KeepWays
  <2>8. CASE Leaves(kept) /\ tapping_key' = t /\ Settle({tap})
    <3>1. Leaves(rec)
      BY <2>5, <2>8 DEF Leaves
    <3>2. Settles(tapping_key.key, TRUE)
      BY <2>3, <2>8, SettleOne
    <3>3. \A k \in Keys : ~Holds(k)'
      BY <2>4, <2>8, <3>2 DEF Holds, IS_TAPPING_KEY, Settles
    <3> QED BY <1>2, <3>1, <3>2, <3>3 DEF Dealt, Decides
  <2>9. Overflows(kept) => Overflows(rec)
    BY <2>5 DEF Overflows
  <2> QED BY <2>7, <2>8, <2>9 DEF Dealt
<1> QED BY <1>3, <1>4

LEMMA DealtPasses ==
    ASSUME Inv, OrderInv, NEW rec, Given(rec), pc = "drain" => rec = waiting_buffer[1],
           \/ ReleaseAtOnce(rec) \/ TapReleased(rec) \/ EventDuringTap(rec)
           \/ SequentialTap(rec) \/ EventAfterTap(rec) \/ PlainEvent(rec)
    PROVE  Dealt(rec)
<1>1. Engine /\ (pc = "drain" => waiting_buffer # <<>>)
  BY DEF Given, Inv
<1>2. CASE ReleaseAtOnce(rec)
  <2>1. /\ Undecided /\ ~rec.pressed /\ ~OwnRelease(rec) /\ ~waiting_buffer_typed(rec)
        /\ Consume(Act(rec), tapping_key, waiting_buffer, {rec})
    BY <1>2 DEF ReleaseAtOnce, OtherRelease
  <2>2. Takes /\ tapping_key' = tapping_key /\ Settles(rec.key, rec.pressed)
    BY <1>1, <2>1, ConsumeWay, SettleOne
  <2>3. ~IS_TAPPING_KEY(rec.key)
    BY <2>1 DEF OwnRelease
  <2>4. HoldsSame /\ ~Holds(rec.key)
    BY <2>2, <2>3 DEF HoldsSame, Holds, Undecided, IS_TAPPING_PRESSED, IS_TAPPING,
       IS_TAPPING_KEY, Settles
  <2> QED BY <2>1, <2>2, <2>4 DEF Dealt, Passes
<1>3. ASSUME NEW newKb, NEW t, NEW x, ~Undecided, x.key = rec.key, x.pressed = rec.pressed,
             Consume(newKb, t, waiting_buffer, {x}),
             ~t.pressed \/ t.count > 0 \/ t.key = NOEVENT, t.count \in Nat
      PROVE  Dealt(rec)
  <2>1. Takes /\ tapping_key' = t /\ Settles(rec.key, rec.pressed)
    <3>1. Takes /\ tapping_key' = t /\ Settles(x.key, x.pressed)
      BY <1>1, <1>3, ConsumeWay, SettleOne
    <3> QED BY <1>3, <3>1
  <2>2. ~Undecided'
    BY <1>3, <2>1 DEF Undecided, IS_TAPPING_PRESSED, IS_TAPPING
  <2>3. ~Holds(rec.key)
    BY <1>3 DEF Holds
  <2>4. HoldsSame
    BY <1>3, <2>2, HoldsNone DEF HoldsSame
  <2> QED BY <1>3, <2>1, <2>3, <2>4 DEF Dealt, Passes
<1>4. CASE EventDuringTap(rec)
  <2>1. Consume(Act(rec), tapping_key, waiting_buffer, {rec}) /\ Tapped
    BY <1>4 DEF EventDuringTap
  <2>2. tapping_key.count > 0 /\ tapping_key.count \in Nat /\ ~Undecided
    BY <1>1, <2>1, TapStates
  <2> QED BY <1>3, <2>1, <2>2
<1>5. CASE EventAfterTap(rec)
  <2> DEFINE t == [tapping_key EXCEPT !.interrupted = @ \/ rec.pressed]
  <2>1. Consume(Act(rec), t, waiting_buffer, {rec}) /\ IS_TAPPING_RELEASED
    BY <1>5 DEF EventAfterTap
  <2>2. ~tapping_key.pressed /\ tapping_key.count \in Nat /\ ~Undecided /\ tapping_key \in Records
    BY <1>1, <2>1, TapStates
  <2>3. ~t.pressed /\ t.count \in Nat
    BY <2>2 DEF Records
  <2> HIDE DEF t
  <2> QED BY <1>3, <2>1, <2>2, <2>3
<1>6. CASE PlainEvent(rec)
  <2>1. Consume(Act(rec), tapping_key, waiting_buffer, {rec}) /\ ~IS_TAPPING
    BY <1>6 DEF PlainEvent
  <2>2. ~Undecided /\ tapping_key.key = NOEVENT
    BY <2>1 DEF Undecided, IS_TAPPING_PRESSED, IS_TAPPING
  <2>3. tapping_key.count \in Nat
    BY <1>1, TappingAssumption DEF Engine, Tappings, Records, NoTapping, Record
  <2> QED BY <1>3, <2>1, <2>2, <2>3
<1>7. CASE TapReleased(rec)
  <2> DEFINE t == IF WITHIN_TAPPING_TERM(rec) THEN WithTap(rec) ELSE NoTapping
  <2>1. Consume(Act(WithTap(rec)), t, waiting_buffer, {rec}) /\ Tapped /\ OwnRelease(rec)
    BY <1>7 DEF TapReleased
  <2>2. IS_TAPPING /\ ~Undecided /\ rec \in Records /\ ~rec.pressed
    BY <1>1, <2>1, TapStates, GivenEvent DEF OwnRelease, IS_TAPPING_KEY, IS_TAPPING
  <2>3. WithTap(rec) \in Records /\ ~WithTap(rec).pressed
    BY <1>1, <2>2, WithTapType DEF WithTap, Records
  <2>4. ~t.pressed /\ t.count \in Nat
    BY <2>3, TappingAssumption DEF Records, NoTapping, Record
  <2> HIDE DEF t
  <2> QED BY <1>3, <2>1, <2>2, <2>4
<1>8. CASE SequentialTap(rec)
  <2> DEFINE tap == [WithTap(rec) EXCEPT !.count = IF @ < TapMax THEN @ + 1 ELSE @]
  <2>1. /\ Consume(Act(tap), tap, waiting_buffer, {tap})
        /\ IS_TAPPING_RELEASED /\ IS_TAPPING_KEY(rec.key) /\ tapping_key.count > 0
        /\ rec.pressed
    BY <1>8 DEF SequentialTap
  <2>2. IS_TAPPING /\ ~Undecided /\ rec \in Records /\ tapping_key.count \in Nat
    BY <1>1, <2>1, TapStates, GivenEvent DEF IS_TAPPING_KEY, IS_TAPPING
  <2>3. /\ WithTap(rec) \in Records /\ WithTap(rec).count = tapping_key.count
        /\ WithTap(rec).key = rec.key /\ WithTap(rec).pressed = rec.pressed
        /\ WithTap(rec).count > 0 /\ WithTap(rec).count \in Nat
    BY <1>1, <2>1, <2>2, WithTapType DEF WithTap, Records
  <2>4. tap.key = rec.key /\ tap.pressed = rec.pressed /\ tap.count > 0 /\ tap.count \in Nat
    <3>1. /\ tap.key = WithTap(rec).key /\ tap.pressed = WithTap(rec).pressed
          /\ tap.count \in {WithTap(rec).count, WithTap(rec).count + 1}
      BY <2>3 DEF Records
    <3> HIDE DEF tap
    <3> QED BY <2>3, <3>1
  <2> HIDE DEF tap
  <2> QED BY <1>3, <2>1, <2>2, <2>4
<1> QED BY <1>2, <1>4, <1>5, <1>6, <1>7, <1>8

LEMMA DealtStarts ==
    ASSUME Inv, OrderInv, NEW rec, Given(rec), pc = "drain" => rec = waiting_buffer[1],
           rec.pressed => rec.count = 0,
           NextTapKey(rec) \/ OtherTapKey(rec) \/ PressTapKey(rec) \/ StartAgain(rec)
    PROVE  Dealt(rec)
<1>1. Engine /\ (pc = "drain" => waiting_buffer # <<>>)
  BY DEF Given, Inv
<1>2. ~Undecided
  BY <1>1, TapStates DEF NextTapKey, OtherTapKey, PressTapKey, StartAgain
<1>3. rec \in Records /\ rec.key # NOEVENT /\ rec.pressed /\ rec.count = 0
  <2>1. rec.key # NOEVENT /\ rec.pressed
    BY <1>1, TapStates DEF NextTapKey, OtherTapKey, PressTapKey, StartAgain, StartsTap,
       IS_TAPPING_KEY
  <2> QED BY <2>1, GivenEvent
<1>4. ASSUME NEW newKb, Consume(newKb, rec, waiting_buffer, {}) PROVE Dealt(rec)
  <2>1. Takes /\ tapping_key' = rec /\ SettlesNone
    BY <1>1, <1>4, ConsumeWay, SettleNone
  <2>2. Undecided'
    BY <1>3, <2>1 DEF Undecided, IS_TAPPING_PRESSED, IS_TAPPING
  <2> QED BY <1>2, <1>3, <2>1, <2>2 DEF Dealt, Starts
<1>5. CASE StartAgain(rec)
  BY <1>4, <1>5 DEF StartAgain
<1>6. CASE NextTapKey(rec) \/ OtherTapKey(rec) \/ PressTapKey(rec)
  <2> DEFINE tap == [rec EXCEPT !.count = 1]
  <2>1. \E before : StartTapping(before, rec)
    BY <1>6, Zenon DEF NextTapKey, OtherTapKey, PressTapKey
  <2>2. PICK before : StartTapping(before, rec)
    BY <2>1
  <2>3. CASE \E buffer \in Seq(Records) :
              /\ Len(buffer) = Len(waiting_buffer)
              /\ \A i \in Slots : Like(buffer[i], waiting_buffer[i])
              /\ Consume(process_action(before, tap), tap, buffer, {rec})
    <3>1. tap.count = 1
      BY <1>3 DEF Records
    <3> HIDE DEF tap
    <3>2. Takes /\ tapping_key' = tap /\ Settles(rec.key, rec.pressed)
      BY <1>1, <2>3, ConsumeWays, SettleOne
    <3>3. ~Undecided'
      BY <3>1, <3>2 DEF Undecided
    <3>4. HoldsSame /\ ~Holds(rec.key)
      BY <1>2, <3>3, HoldsNone DEF HoldsSame, Holds
    <3> QED BY <1>2, <3>2, <3>4 DEF Dealt, Passes
  <2>4. CASE Consume(before, rec, waiting_buffer, {})
    BY <1>4, <2>4
  <2> HIDE DEF tap
  <2> QED BY <1>1, <1>3, <2>2, <2>3, <2>4, StartSplit DEF tap
<1> QED BY <1>5, <1>6

LEMMA CallDealt ==
    ASSUME Inv, OrderInv, NEW rec, Given(rec), pc = "drain" => rec = waiting_buffer[1],
           rec.pressed => rec.count = 0, process_tapping(rec)
    PROVE  Dealt(rec)
BY DealtWaits, DealtDecides, DealtPasses, DealtStarts DEF process_tapping

-----------------------------------------------------------------------------
(* A key goes up and down in turn: what waits starts with the change from  *)
(* the event that took effect last.                                        *)
LatestOf(w, s) == IF w = <<>> THEN s ELSE w[Len(w)]

Alternates(w, s) ==
    /\ w # <<>> => w[1] = ~s
    /\ \A i \in 1 .. Len(w) - 1 : w[i+1] = ~w[i]

LEMMA AlternatesAppend ==
    ASSUME NEW s \in BOOLEAN, NEW w \in Seq(BOOLEAN), Alternates(w, s)
    PROVE  LET x == ~LatestOf(w, s)
               a == Append(w, x)
           IN  /\ a \in Seq(BOOLEAN) /\ a # <<>> /\ Alternates(a, s)
               /\ LatestOf(a, s) = x
               /\ LatestOf(w, s) \in BOOLEAN
<1> DEFINE x == ~LatestOf(w, s)
           a == Append(w, x)
<1>1. Len(w) \in Nat /\ (w # <<>> => Len(w) \in 1 .. Len(w)) /\ (w = <<>> => Len(w) = 0)
      /\ (w # <<>> => 1 \in 1 .. Len(w))
  BY EmptySeq, LenProperties
<1>2. LatestOf(w, s) \in BOOLEAN
  BY <1>1, ElementOfSeq DEF LatestOf
<1>3. x \in BOOLEAN
  BY <1>2
<1> HIDE DEF x
<1>4. /\ a \in Seq(BOOLEAN) /\ Len(a) = Len(w) + 1 /\ a[Len(w)+1] = x
      /\ \A i \in 1 .. Len(w) : a[i] = w[i]
  BY <1>3, AppendProperties
<1> HIDE DEF a
<1>5. a # <<>>
  BY <1>1, <1>4, EmptySeq
<1>6. LatestOf(a, s) = x
  BY <1>4, <1>5 DEF LatestOf
<1>7. a[1] = ~s
  BY <1>1, <1>4 DEF Alternates, LatestOf, x
<1>8. ASSUME NEW i \in 1 .. Len(a) - 1 PROVE a[i+1] = ~a[i]
  <2>1. CASE i = Len(w)
    <3>1. w # <<>> /\ a[i] = w[i]
      BY <1>1, <1>4, <1>8, <2>1
    <3>2. x = ~w[i]
      BY <2>1, <3>1 DEF x, LatestOf
    <3> QED BY <1>4, <2>1, <3>1, <3>2
  <2>2. CASE i # Len(w)
    <3>1. i \in 1 .. Len(w) - 1 /\ i \in 1 .. Len(w) /\ i+1 \in 1 .. Len(w)
      BY <1>1, <1>4, <1>8, <2>2
    <3>2. w[i+1] = ~w[i] /\ a[i] = w[i] /\ a[i+1] = w[i+1]
      BY <1>4, <3>1 DEF Alternates
    <3> QED BY <3>2
  <2> QED BY <2>1, <2>2
<1> QED BY <1>2, <1>4, <1>5, <1>6, <1>7, <1>8 DEF Alternates, a, x

LEMMA AlternatesTail ==
    ASSUME NEW s \in BOOLEAN, NEW w \in Seq(BOOLEAN), w # <<>>, Alternates(w, s)
    PROVE  /\ Tail(w) \in Seq(BOOLEAN) /\ Alternates(Tail(w), w[1])
           /\ LatestOf(Tail(w), w[1]) = LatestOf(w, s)
<1>1. /\ Len(w) \in Nat \ {0} /\ Tail(w) \in Seq(BOOLEAN) /\ Len(Tail(w)) = Len(w) - 1
      /\ \A i \in 1 .. Len(w) - 1 : Tail(w)[i] = w[i+1]
  BY EmptySeq, HeadTailProperties
<1>2. Tail(w) # <<>> => Len(Tail(w)) \in Nat \ {0}
  BY <1>1, EmptySeq
<1>3. Tail(w) = <<>> => Len(w) = 1
  BY <1>1, EmptySeq
<1>4. ASSUME Tail(w) # <<>> PROVE Tail(w)[1] = ~w[1] /\ Tail(w)[Len(Tail(w))] = w[Len(w)]
  <2>1. 1 \in 1 .. Len(w) - 1 /\ Len(w) - 1 \in 1 .. Len(w) - 1
    BY <1>1, <1>2, <1>4
  <2>2. Tail(w)[1] = w[2] /\ w[2] = ~w[1]
    BY <1>1, <2>1 DEF Alternates
  <2> QED BY <1>1, <2>1, <2>2
<1>5. ASSUME NEW i \in 1 .. Len(Tail(w)) - 1 PROVE Tail(w)[i+1] = ~Tail(w)[i]
  <2>1. i \in 1 .. Len(w) - 1 /\ i+1 \in 1 .. Len(w) - 1
    BY <1>1, <1>5
  <2>2. Tail(w)[i] = w[i+1] /\ Tail(w)[i+1] = w[(i+1)+1] /\ w[(i+1)+1] = ~w[i+1]
    BY <1>1, <2>1 DEF Alternates
  <2> QED BY <2>2
<1> QED BY <1>1, <1>3, <1>4, <1>5 DEF Alternates, LatestOf

(* The press of the tapping key stands before the records of the key.      *)
LEMMA HeldFirst ==
    ASSUME NEW e \in Seq(BOOLEAN)
    PROVE  /\ <<TRUE>> \o e \in Seq(BOOLEAN) /\ <<TRUE>> \o e # <<>>
           /\ (<<TRUE>> \o e)[1] = TRUE /\ Tail(<<TRUE>> \o e) = e
           /\ \A x \in BOOLEAN : Append(<<TRUE>> \o e, x) = <<TRUE>> \o Append(e, x)
<1> DEFINE t == <<TRUE>>
           h == t \o e
<1>1. t \in Seq(BOOLEAN) /\ Len(t) = 1 /\ t[1] = TRUE /\ Len(e) \in Nat
  BY LenProperties
<1> HIDE DEF t
<1>2. /\ h \in Seq(BOOLEAN) /\ Len(h) = 1 + Len(e)
      /\ \A i \in 1 .. 1 + Len(e) : h[i] = IF i <= 1 THEN t[i] ELSE e[i - 1]
  <2>1. /\ h \in Seq(BOOLEAN) /\ Len(h) = Len(t) + Len(e)
        /\ \A i \in 1 .. Len(t) + Len(e) :
              h[i] = IF i <= Len(t) THEN t[i] ELSE e[i - Len(t)]
    <3>1. t \in Seq(BOOLEAN)
      BY <1>1
    <3> QED BY <3>1, ConcatProperties, Zenon
  <2> HIDE DEF h
  <2> QED BY <1>1, <2>1
<1> HIDE DEF h
<1>3. h # <<>> /\ h[1] = TRUE
  BY <1>1, <1>2, EmptySeq
<1>4. Tail(h) = e
  <2>1. /\ Tail(h) \in Seq(BOOLEAN) /\ Len(Tail(h)) = Len(e)
        /\ \A i \in 1 .. Len(Tail(h)) : Tail(h)[i] = h[i+1]
    BY <1>1, <1>2, <1>3, HeadTailProperties
  <2>2. \A i \in 1 .. Len(Tail(h)) : Tail(h)[i] = e[i]
    BY <1>1, <1>2, <2>1
  <2> QED BY <2>1, <2>2, SeqEqual
<1>5. ASSUME NEW x \in BOOLEAN PROVE Append(h, x) = t \o Append(e, x)
  <2>1. Append(h, x) = h \o <<x>>
    BY <1>2, AppendIsConcat
  <2>2. Append(e, x) = e \o <<x>>
    BY AppendIsConcat
  <2>3. (t \o e) \o <<x>> = t \o (e \o <<x>>)
    BY <1>1, ConcatAssociative
  <2> QED BY <2>1, <2>2, <2>3 DEF h
<1> QED BY <1>2, <1>3, <1>4, <1>5 DEF h, t

-----------------------------------------------------------------------------
(* The records of a key under the changes of the buffer.                   *)
LEMMA EventsDrop ==
    ASSUME Engine, waiting_buffer' \in Seq(Records), waiting_buffer # <<>>, Drops, NEW k
    PROVE  EventsOf(waiting_buffer', k) =
             IF waiting_buffer[1].key = k THEN Tail(EventsOf(waiting_buffer, k))
             ELSE EventsOf(waiting_buffer, k)
<1>1. waiting_buffer \in Seq(Records)
  BY DEF Engine
<1>2. /\ Tail(waiting_buffer) \in Seq(Records) /\ Len(waiting_buffer) \in Nat
      /\ Len(Tail(waiting_buffer)) = Len(waiting_buffer) - 1
      /\ \A i \in 1 .. Len(Tail(waiting_buffer)) :
            Tail(waiting_buffer)[i] = waiting_buffer[i+1]
  BY <1>1, HeadTailProperties, LenProperties
<1>3. EventsOf(waiting_buffer', k) = EventsOf(Tail(waiting_buffer), k)
  BY <1>2, EventsAlike DEF Drops, Like
<1> QED BY <1>1, <1>3, EventsTail

LEMMA EventsStay ==
    ASSUME Engine, waiting_buffer' \in Seq(Records), Stays, NEW k
    PROVE  EventsOf(waiting_buffer', k) = EventsOf(waiting_buffer, k)
BY EventsAlike DEF Stays, Like, Slots, Engine

LEMMA EventsAdd ==
    ASSUME Engine, waiting_buffer' \in Seq(Records), NEW r, Adds(r), NEW k
    PROVE  EventsOf(waiting_buffer', k) =
             IF r.key = k THEN Append(EventsOf(waiting_buffer, k), r.pressed)
             ELSE EventsOf(waiting_buffer, k)
<1>1. waiting_buffer \in Seq(Records) /\ Len(waiting_buffer) \in Nat
  BY BufferType
<1>2. r \in Records
  <2>1. Len(waiting_buffer) + 1 \in 1 .. Len(waiting_buffer')
    BY <1>1 DEF Adds
  <2> QED BY <2>1, ElementOfSeq DEF Adds
<1>3. /\ Append(waiting_buffer, r) \in Seq(Records)
      /\ Len(Append(waiting_buffer, r)) = Len(waiting_buffer) + 1
      /\ \A i \in 1 .. Len(waiting_buffer) : Append(waiting_buffer, r)[i] = waiting_buffer[i]
      /\ Append(waiting_buffer, r)[Len(waiting_buffer) + 1] = r
  BY <1>1, <1>2, AppendProperties
<1>4. waiting_buffer' = Append(waiting_buffer, r)
  <2>1. \A i \in 1 .. Len(waiting_buffer) + 1 :
           waiting_buffer'[i] = Append(waiting_buffer, r)[i]
    BY <1>1, <1>3 DEF Adds, Slots
  <2> QED BY <1>3, <2>1, SeqEqual DEF Adds
<1> QED BY <1>1, <1>2, <1>4, EventsAppend

(* What one step does to the events of a key that wait: key changes (none  *)
(* does if it is NOEVENT), and the first event may take effect.            *)
Arrives(key, k) ==
    IF k = key THEN Append(Waiting(k), ~LatestOf(Waiting(k), settled[k])) ELSE Waiting(k)

Moves(key, k) ==
    \/ Waiting(k)' = Arrives(key, k) /\ settled'[k] = settled[k]
    \/ /\ Arrives(key, k) # <<>>
       /\ Waiting(k)' = Tail(Arrives(key, k)) /\ settled'[k] = Arrives(key, k)[1]

(* The events of a key that wait alternate, and the last of them is the    *)
(* state of the key.                                                       *)
WaitingInv ==
    \A k \in Keys :
        /\ Alternates(Waiting(k), settled[k])
        /\ LatestOf(Waiting(k), settled[k]) <=> k \in down

LEMMA WaitingForm ==
    ASSUME Engine, waiting_buffer' \in Seq(Records), settled' \in [Keys -> BOOLEAN],
           NEW k \in Keys
    PROVE  /\ EventsOf(waiting_buffer, k) \in Seq(BOOLEAN)
           /\ EventsOf(waiting_buffer', k) \in Seq(BOOLEAN)
           /\ Waiting(k) \in Seq(BOOLEAN) /\ Waiting(k)' \in Seq(BOOLEAN)
           /\ Holds(k) => Waiting(k) = <<TRUE>> \o EventsOf(waiting_buffer, k)
           /\ ~Holds(k) => Waiting(k) = EventsOf(waiting_buffer, k)
           /\ Holds(k)' => Waiting(k)' = <<TRUE>> \o EventsOf(waiting_buffer', k)
           /\ ~Holds(k)' => Waiting(k)' = EventsOf(waiting_buffer', k)
           /\ settled[k] \in BOOLEAN /\ settled'[k] \in BOOLEAN
<1> DEFINE e == EventsOf(waiting_buffer, k)
           f == EventsOf(waiting_buffer', k)
<1>1. e \in Seq(BOOLEAN) /\ f \in Seq(BOOLEAN)
  BY EventsType DEF Engine
<1>2. /\ Waiting(k) = (IF Holds(k) THEN <<TRUE>> ELSE <<>>) \o e
      /\ Waiting(k)' = (IF Holds(k)' THEN <<TRUE>> ELSE <<>>) \o f
  BY DEF Waiting, Holds
<1> HIDE DEF e, f
<1>3. <<>> \o e = e /\ <<>> \o f = f
  BY <1>1, ConcatEmptySeq
<1>4. /\ Holds(k) => Waiting(k) = <<TRUE>> \o e
      /\ ~Holds(k) => Waiting(k) = e
      /\ Holds(k)' => Waiting(k)' = <<TRUE>> \o f
      /\ ~Holds(k)' => Waiting(k)' = f
  BY <1>2, <1>3, Zenon
<1>5. <<TRUE>> \o e \in Seq(BOOLEAN) /\ <<TRUE>> \o f \in Seq(BOOLEAN)
  BY <1>1, HeldFirst
<1>6. Waiting(k) \in Seq(BOOLEAN) /\ Waiting(k)' \in Seq(BOOLEAN)
  BY <1>1, <1>4, <1>5, Zenon
<1>7. settled[k] \in BOOLEAN /\ settled'[k] \in BOOLEAN
  BY DEF Engine
<1> QED BY <1>1, <1>4, <1>6, <1>7 DEF e, f

(* Nothing arrives for the key, and nothing changes for it.                *)
LEMMA MovesSame ==
    ASSUME Engine, waiting_buffer' \in Seq(Records), settled' \in [Keys -> BOOLEAN],
           NEW key, NEW k \in Keys, k # key,
           EventsOf(waiting_buffer', k) = EventsOf(waiting_buffer, k),
           Holds(k)' <=> Holds(k), settled'[k] = settled[k]
    PROVE  Moves(key, k)
BY WaitingForm DEF Moves, Arrives

LEMMA HoldsAre ==
    ASSUME Engine, Undecided, NEW k \in Keys
    PROVE  /\ tapping_key.key \in Keys
           /\ Holds(k) <=> k = tapping_key.key /\ ~settled[k]
BY TapStates DEF Holds, IS_TAPPING_KEY

(* The tapping key is decided: its press takes effect, unless it has.      *)
LEMMA MovesDecided ==
    ASSUME Engine, waiting_buffer' \in Seq(Records), settled' \in [Keys -> BOOLEAN],
           Undecided, Settles(tapping_key.key, TRUE), \A j \in Keys : ~Holds(j)',
           NEW key, NEW k \in Keys,
           EventsOf(waiting_buffer', k) =
              IF k = key THEN Append(EventsOf(waiting_buffer, k),
                                     ~LatestOf(Waiting(k), settled[k]))
              ELSE EventsOf(waiting_buffer, k),
           LatestOf(Waiting(k), settled[k]) \in BOOLEAN
    PROVE  Moves(key, k)
<1> DEFINE e == EventsOf(waiting_buffer, k)
           f == EventsOf(waiting_buffer', k)
           x == ~LatestOf(Waiting(k), settled[k])
<1>1. e \in Seq(BOOLEAN) /\ f \in Seq(BOOLEAN) /\ x \in BOOLEAN
  BY WaitingForm
<1>2. f = IF k = key THEN Append(e, x) ELSE e
  OBVIOUS
<1>3. Waiting(k)' = f /\ settled'[k] = IF k = tapping_key.key THEN TRUE ELSE settled[k]
  BY WaitingForm DEF Settles
<1>4. Arrives(key, k) = IF k = key THEN Append(Waiting(k), x) ELSE Waiting(k)
  BY DEF Arrives
<1>5. CASE Holds(k)
  <2>1. Waiting(k) = <<TRUE>> \o e /\ k = tapping_key.key
    BY <1>5, WaitingForm, HoldsAre
  <2> HIDE DEF e, f, x
  <2>2. Arrives(key, k) = <<TRUE>> \o f
    BY <1>1, <1>2, <1>4, <2>1, HeldFirst
  <2>3. Arrives(key, k) # <<>> /\ Arrives(key, k)[1] = TRUE /\ Tail(Arrives(key, k)) = f
    BY <1>1, <2>2, HeldFirst
  <2> QED BY <1>3, <2>1, <2>3 DEF Moves
<1>6. CASE ~Holds(k)
  <2>1. Waiting(k) = e /\ settled'[k] = settled[k]
    BY <1>3, <1>6, WaitingForm, HoldsAre
  <2> HIDE DEF e, f, x
  <2> QED BY <1>2, <1>3, <1>4, <2>1 DEF Moves
<1> QED BY <1>5, <1>6

(* A press that is taken as the tapping key keeps its place.               *)
LEMMA HeadIsHeld ==
    ASSUME NEW e \in Seq(BOOLEAN), e # <<>>, e[1] = TRUE
    PROVE  <<TRUE>> \o Tail(e) = e
<1>1. /\ Len(e) \in Nat \ {0} /\ Tail(e) \in Seq(BOOLEAN) /\ Len(Tail(e)) = Len(e) - 1
      /\ \A i \in 1 .. Len(Tail(e)) : Tail(e)[i] = e[i+1]
  BY EmptySeq, HeadTailProperties
<1> DEFINE t == <<TRUE>>
           h == t \o Tail(e)
<1>2. t \in Seq(BOOLEAN) /\ Len(t) = 1 /\ t[1] = TRUE
  OBVIOUS
<1> HIDE DEF t
<1>3. /\ h \in Seq(BOOLEAN) /\ Len(h) = Len(t) + Len(Tail(e))
      /\ \A i \in 1 .. Len(t) + Len(Tail(e)) :
            h[i] = IF i <= Len(t) THEN t[i] ELSE Tail(e)[i - Len(t)]
  <2>1. t \in Seq(BOOLEAN) /\ Tail(e) \in Seq(BOOLEAN)
    BY <1>1, <1>2
  <2> QED BY <2>1, ConcatProperties, Zenon
<1> HIDE DEF h
<1>4. Len(h) = Len(e)
  BY <1>1, <1>2, <1>3
<1>5. ASSUME NEW i \in 1 .. Len(h) PROVE h[i] = e[i]
  <2>1. CASE i = 1
    BY <1>1, <1>2, <1>3, <2>1
  <2>2. CASE i # 1
    <3>1. i - 1 \in 1 .. Len(Tail(e)) /\ ~(i <= 1) /\ (i-1)+1 = i /\ i \in 1 .. Len(t) + Len(Tail(e))
      BY <1>1, <1>2, <1>4, <1>5, <2>2
    <3>2. h[i] = Tail(e)[i-1]
      BY <1>2, <1>3, <3>1
    <3> QED BY <1>1, <3>1, <3>2
  <2> QED BY <2>1, <2>2
<1>6. h = e
  BY <1>3, <1>4, <1>5, SeqEqual
<1> QED BY <1>6 DEF h, t

LEMMA DrainMoves ==
    ASSUME Inv, WaitingInv, DrainCall, Dealt(waiting_buffer[1]), NEW k \in Keys,
           waiting_buffer' \in Seq(Records), settled' \in [Keys -> BOOLEAN]
    PROVE  Moves(NOEVENT, k)
<1> DEFINE rec == waiting_buffer[1]
           e == EventsOf(waiting_buffer, k)
           f == EventsOf(waiting_buffer', k)
<1>1. /\ Engine /\ waiting_buffer # <<>> /\ pc = "drain" /\ k # NOEVENT
      /\ rec.key # NOEVENT /\ rec.key \in Keys /\ rec.pressed \in BOOLEAN
  <2>1. k # NOEVENT
    BY DEF Keys, NOEVENT
  <2> QED BY <2>1, DrainGiven, RecordFields DEF DrainCall
<1>2. e \in Seq(BOOLEAN) /\ f \in Seq(BOOLEAN) /\ settled[k] \in BOOLEAN
  BY <1>1, WaitingForm
<1>3. k = rec.key => e # <<>> /\ e[1] = rec.pressed
  BY <1>1, EventsHead DEF Engine
<1>4. Drops => f = IF rec.key = k THEN Tail(e) ELSE e
  BY <1>1, EventsDrop
<1>5. Stays => f = e
  BY <1>1, EventsStay
<1>6. Leaves(rec) => f = e
  BY <1>1, <1>5 DEF Leaves
<1>7. Arrives(NOEVENT, k) = Waiting(k)
  BY <1>1 DEF Arrives
<1>8. CASE Passes(rec)
  <2>1. CASE k = rec.key
    <3>1. ~Holds(k) /\ ~Holds(k)' /\ settled'[k] = rec.pressed /\ f = Tail(e)
      BY <1>1, <1>4, <1>8, <2>1 DEF Passes, HoldsSame, Settles, Takes
    <3>2. Waiting(k) = e /\ Waiting(k)' = f
      BY <1>1, <3>1, WaitingForm
    <3> HIDE DEF e, f
    <3> QED BY <1>3, <1>7, <2>1, <3>1, <3>2 DEF Moves
  <2>2. CASE k # rec.key
    <3>1. (Holds(k)' <=> Holds(k)) /\ settled'[k] = settled[k] /\ f = e
      BY <1>1, <1>4, <1>8, <2>2 DEF Passes, HoldsSame, Settles, Takes
    <3> QED BY <1>1, <3>1, MovesSame
  <2> QED BY <2>1, <2>2
<1>9. CASE Starts(rec)
  <2>1. ~Holds(k) /\ settled'[k] = settled[k] /\ f = IF rec.key = k THEN Tail(e) ELSE e
    BY <1>1, <1>4, <1>9 DEF Starts, Takes, SettlesNone, Holds
  <2>2. Waiting(k) = e
    BY <1>1, <2>1, WaitingForm
  <2>3. CASE k = rec.key
    <3>1. e # <<>> /\ e[1] = TRUE
      BY <1>1, <1>3, <1>9, <2>3 DEF Starts
    <3>2. ~settled[k]
      BY <1>2, <2>2, <3>1 DEF WaitingInv, Alternates
    <3>3. Holds(k)'
      BY <1>1, <1>9, <2>1, <2>3, <3>2 DEF Starts, Holds, IS_TAPPING_KEY, IS_TAPPING
    <3>4. Waiting(k)' = <<TRUE>> \o Tail(e)
      BY <1>1, <2>1, <2>3, <3>3, WaitingForm
    <3>5. <<TRUE>> \o Tail(e) = e
      <4> HIDE DEF e
      <4> QED BY <1>2, <3>1, HeadIsHeld
    <3> QED BY <1>7, <2>1, <2>2, <3>4, <3>5 DEF Moves
  <2>4. CASE k # rec.key
    <3>1. ~Holds(k)'
      BY <1>9, <2>4 DEF Starts, Holds, IS_TAPPING_KEY
    <3> QED BY <1>1, <2>1, <2>4, <3>1, MovesSame
  <2> QED BY <2>3, <2>4
<1>10. CASE WaitsOn(rec)
  <2>1. (Holds(k)' <=> Holds(k)) /\ settled'[k] = settled[k] /\ f = e
    BY <1>6, <1>10 DEF WaitsOn, HoldsSame, SettlesNone
  <2> QED BY <1>1, <2>1, MovesSame
<1>11. CASE Decides(rec)
  <2>1. f = e /\ Undecided /\ Settles(tapping_key.key, TRUE) /\ \A j \in Keys : ~Holds(j)'
    BY <1>6, <1>11 DEF Decides
  <2>2. LatestOf(Waiting(k), settled[k]) \in BOOLEAN
    BY <1>1, WaitingForm, AlternatesAppend DEF WaitingInv
  <2> QED BY <1>1, <2>1, <2>2, MovesDecided
<1> QED BY <1>1, <1>8, <1>9, <1>10, <1>11 DEF Dealt, Overflows

(* A record of the key that changes is of its other state: unless there is *)
(* one, nothing of the key waits.                                          *)
LEMMA EventPassesFirst ==
    ASSUME Inv, OrderInv, LastInv, NEW key \in Keys, EventCall(key),
           \/ ~Undecided
           \/ ~Changed(key).pressed /\ ~waiting_buffer_typed(Changed(key))
    PROVE  EventsOf(waiting_buffer, key) = <<>>
<1>1. waiting_buffer \in Seq(Records) /\ Changed(key).key = key
  BY ChangedFields DEF Engine
<1>2. ASSUME NEW j \in Slots, waiting_buffer[j].key = key PROVE FALSE
  <2>1. CASE ~Undecided
    BY <1>2, <2>1, EventNoneDue
  <2>2. CASE ~Changed(key).pressed /\ ~waiting_buffer_typed(Changed(key))
    <3>1. PICK m \in Slots : /\ waiting_buffer[m].key = key
                             /\ waiting_buffer[m].pressed = ~Changed(key).pressed
      BY <1>2, LastOfChanged
    <3> QED BY <1>1, <2>2, <3>1 DEF waiting_buffer_typed, Slots
  <2> QED BY <2>1, <2>2
<1>3. Places(waiting_buffer, key) = {}
  BY <1>2 DEF Places, Slots
<1> QED BY <1>1, <1>3, EventsEmpty

LEMMA EventMoves ==
    ASSUME Inv, OrderInv, LastInv, WaitingInv, NEW key \in Keys, EventCall(key),
           Dealt(Changed(key)), ~Overflows(Changed(key)), NEW k \in Keys,
           waiting_buffer' \in Seq(Records), settled' \in [Keys -> BOOLEAN]
    PROVE  Moves(key, k)
<1> DEFINE rec == Changed(key)
           e == EventsOf(waiting_buffer, k)
           f == EventsOf(waiting_buffer', k)
           x == ~LatestOf(Waiting(k), settled[k])
<1>1. /\ Engine /\ pc = "scan" /\ rec.key = key /\ rec.key # NOEVENT
      /\ rec.pressed = (key \in down') /\ ((key \in down') <=> key \notin down)
      /\ (key \in down') \in BOOLEAN
  BY ChangedFields
<1>2. /\ e \in Seq(BOOLEAN) /\ f \in Seq(BOOLEAN) /\ settled[k] \in BOOLEAN
      /\ Waiting(k) \in Seq(BOOLEAN)
  BY <1>1, WaitingForm
<1>3. Stays => f = e
  BY <1>1, EventsStay
<1>4. LatestOf(Waiting(k), settled[k]) \in BOOLEAN /\ x \in BOOLEAN
  BY <1>1, <1>2, AlternatesAppend DEF WaitingInv
<1>5. k = key => rec.pressed = x
  BY <1>1, <1>4 DEF WaitingInv
<1>6. Leaves(rec) => f = IF k = key THEN Append(e, x) ELSE e
  <2> SUFFICES ASSUME Leaves(rec) PROVE f = IF k = key THEN Append(e, x) ELSE e
    OBVIOUS
  <2>1. PICK r : r.key = key /\ r.pressed = rec.pressed /\ Adds(r)
    BY <1>1 DEF Leaves
  <2>2. f = IF r.key = k THEN Append(e, r.pressed) ELSE e
    BY <1>1, <2>1, EventsAdd
  <2> HIDE DEF e, f, x
  <2> QED BY <1>5, <2>1, <2>2
<1>7. Arrives(key, k) = IF k = key THEN Append(Waiting(k), x) ELSE Waiting(k)
  BY DEF Arrives
<1>8. CASE Passes(rec)
  <2>1. Stays /\ HoldsSame /\ ~Holds(key) /\ Settles(key, rec.pressed)
    BY <1>1, <1>8 DEF Passes, Takes
  <2>2. CASE k = key
    <3>1. e = <<>>
      BY <1>8, <2>2, EventPassesFirst DEF Passes
    <3>2. ~Holds(k) /\ ~Holds(k)' /\ settled'[k] = x
      BY <1>5, <2>1, <2>2 DEF HoldsSame, Settles
    <3>3. Waiting(k) = <<>> /\ Waiting(k)' = <<>>
      BY <1>1, <1>3, <2>1, <3>1, <3>2, WaitingForm
    <3>4. Arrives(key, k) = <<x>>
      <4> HIDE DEF x
      <4> QED BY <1>7, <2>2, <3>3
    <3> HIDE DEF x
    <3> QED BY <3>2, <3>3, <3>4 DEF Moves
  <2>3. CASE k # key
    <3>1. (Holds(k)' <=> Holds(k)) /\ settled'[k] = settled[k] /\ f = e
      BY <1>3, <2>1, <2>3 DEF HoldsSame, Settles
    <3> QED BY <1>1, <2>3, <3>1, MovesSame
  <2> QED BY <2>2, <2>3
<1>9. CASE Starts(rec)
  <2>1. ~Holds(k) /\ settled'[k] = settled[k] /\ f = e
    BY <1>1, <1>3, <1>9 DEF Starts, Takes, SettlesNone, Holds
  <2>2. Waiting(k) = e
    BY <1>1, <2>1, WaitingForm
  <2>3. CASE k = key
    <3>1. e = <<>>
      BY <1>9, <2>3, EventPassesFirst DEF Starts
    <3>2. x = TRUE
      BY <1>1, <1>4, <1>5, <1>9, <2>3 DEF Starts
    <3>3. settled[k] = FALSE
      BY <1>2, <2>2, <3>1, <3>2 DEF LatestOf
    <3>4. Holds(k)'
      BY <1>1, <1>9, <2>1, <2>3, <3>3 DEF Starts, Holds, IS_TAPPING_KEY, IS_TAPPING
    <3>5. Waiting(k)' = <<TRUE>> \o f
      BY <1>1, <3>4, WaitingForm
    <3>6. <<TRUE>> \o f = <<TRUE>>
      <4> HIDE DEF f
      <4>1. f = <<>>
        BY <2>1, <3>1
      <4> QED BY <4>1
    <3>7. Arrives(key, k) = <<TRUE>>
      <4> HIDE DEF x
      <4> QED BY <1>7, <2>2, <2>3, <3>1, <3>2
    <3> QED BY <2>1, <3>5, <3>6, <3>7 DEF Moves
  <2>4. CASE k # key
    <3>1. ~Holds(k)'
      BY <1>1, <1>9, <2>4 DEF Starts, Holds, IS_TAPPING_KEY
    <3> QED BY <1>1, <2>1, <2>4, <3>1, MovesSame
  <2> QED BY <2>3, <2>4
<1>10. CASE WaitsOn(rec)
  <2>1. (Holds(k)' <=> Holds(k)) /\ settled'[k] = settled[k] /\ Leaves(rec)
    BY <1>10 DEF WaitsOn, HoldsSame, SettlesNone
  <2>2. CASE Holds(k)
    <3>1. Waiting(k) = <<TRUE>> \o e /\ Waiting(k)' = <<TRUE>> \o f
      BY <1>1, <2>1, <2>2, WaitingForm
    <3>2. Append(<<TRUE>> \o e, x) = <<TRUE>> \o Append(e, x)
      BY <1>2, <1>4, HeldFirst
    <3> HIDE DEF e, f, x
    <3> QED BY <1>6, <1>7, <2>1, <3>1, <3>2 DEF Moves
  <2>3. CASE ~Holds(k)
    <3>1. Waiting(k) = e /\ Waiting(k)' = f
      BY <1>1, <2>1, <2>3, WaitingForm
    <3> HIDE DEF e, f, x
    <3> QED BY <1>6, <1>7, <2>1, <3>1 DEF Moves
  <2> QED BY <2>2, <2>3
<1>11. CASE Decides(rec)
  <2>1. /\ Undecided /\ Settles(tapping_key.key, TRUE) /\ (\A j \in Keys : ~Holds(j)')
        /\ f = IF k = key THEN Append(e, x) ELSE e
    BY <1>6, <1>11 DEF Decides
  <2> QED BY <1>1, <1>4, <2>1, MovesDecided
<1> QED BY <1>8, <1>9, <1>10, <1>11 DEF Dealt

LEMMA TickMoves ==
    ASSUME Inv, WaitingInv, Tick, Dealt(TICK), NEW k \in Keys,
           waiting_buffer' \in Seq(Records), settled' \in [Keys -> BOOLEAN]
    PROVE  Moves(NOEVENT, k)
<1> DEFINE e == EventsOf(waiting_buffer, k)
           f == EventsOf(waiting_buffer', k)
<1>1. Engine /\ pc = "scan" /\ TICK.key = NOEVENT /\ k # NOEVENT
  BY TickFields DEF Keys, NOEVENT
<1>2. Stays => f = e
  BY <1>1, EventsStay
<1>3. CASE Passes(TICK) \/ WaitsOn(TICK)
  <2>1. (Holds(k)' <=> Holds(k)) /\ settled'[k] = settled[k] /\ Stays
    BY <1>1, <1>3 DEF Passes, WaitsOn, Takes, Leaves, HoldsSame, Settles, SettlesNone
  <2> QED BY <1>1, <1>2, <2>1, MovesSame
<1>4. CASE Decides(TICK)
  <2>1. f = e /\ Undecided /\ Settles(tapping_key.key, TRUE) /\ \A j \in Keys : ~Holds(j)'
    BY <1>1, <1>2, <1>4 DEF Decides, Leaves
  <2>2. LatestOf(Waiting(k), settled[k]) \in BOOLEAN
    BY <1>1, WaitingForm, AlternatesAppend DEF WaitingInv
  <2> QED BY <1>1, <2>1, <2>2, MovesDecided
<1> QED BY <1>1, <1>3, <1>4 DEF Dealt, Starts, Overflows

LEMMA LatestHeld ==
    ASSUME NEW e \in Seq(BOOLEAN), e # <<>>
    PROVE  <<TRUE>> \o e # <<>> /\ (<<TRUE>> \o e)[Len(<<TRUE>> \o e)] = e[Len(e)]
<1> DEFINE t == <<TRUE>>
           h == t \o e
<1>1. t \in Seq(BOOLEAN) /\ Len(t) = 1
  OBVIOUS
<1> HIDE DEF t
<1>2. Len(e) \in Nat \ {0}
  BY EmptySeq
<1>3. /\ h \in Seq(BOOLEAN) /\ Len(h) = Len(t) + Len(e)
      /\ \A i \in 1 .. Len(t) + Len(e) :
            h[i] = IF i <= Len(t) THEN t[i] ELSE e[i - Len(t)]
  <2>1. t \in Seq(BOOLEAN)
    BY <1>1
  <2> QED BY <2>1, ConcatProperties, Zenon
<1> HIDE DEF h
<1>4. h # <<>> /\ h[Len(h)] = e[Len(e)]
  <2>1. Len(h) = 1 + Len(e) /\ ~(1 + Len(e) <= 1) /\ (1 + Len(e)) - 1 = Len(e)
    BY <1>1, <1>2, <1>3
  <2>2. 1 + Len(e) \in 1 .. 1 + Len(e)
    BY <1>2
  <2> QED BY <1>1, <1>2, <1>3, <2>1, <2>2, EmptySeq
<1> QED BY <1>4 DEF h, t

(* So the last record of a key that waits is of the state of the key.      *)
LEMMA WaitingLast ==
    ASSUME Engine, WaitingInv PROVE LastInv
<1> SUFFICES ASSUME NEW m \in Slots,
                    \A i \in Slots : waiting_buffer[i].key = waiting_buffer[m].key => i <= m
             PROVE  waiting_buffer[m].pressed <=> waiting_buffer[m].key \in down
  BY DEF LastInv
<1> DEFINE k == waiting_buffer[m].key
           e == EventsOf(waiting_buffer, k)
<1>1. k \in Keys /\ waiting_buffer \in Seq(Records) /\ waiting_buffer[m].pressed \in BOOLEAN
  BY BufferType
<1>2. m \in Places(waiting_buffer, k)
  BY DEF Places, Slots
<1>3. e \in Seq(BOOLEAN) /\ e # <<>>
  BY <1>1, <1>2, EventsType, EventsEmpty
<1>4. PICK p \in Places(waiting_buffer, k) :
         /\ \A i \in Places(waiting_buffer, k) : i <= p
         /\ e[Len(e)] = waiting_buffer[p].pressed
  <2>1. \E p \in Places(waiting_buffer, k) :
           /\ \A i \in Places(waiting_buffer, k) : i <= p
           /\ EventsOf(waiting_buffer, k)[Len(EventsOf(waiting_buffer, k))]
                = waiting_buffer[p].pressed
    BY <1>1, <1>3, EventsLast
  <2> QED BY <2>1
<1>5. p = m
  <2>1. p \in Slots /\ waiting_buffer[p].key = k
    BY DEF Places, Slots
  <2>2. p <= m /\ m <= p
    BY <1>2, <1>4, <2>1
  <2> QED BY <2>1, <2>2 DEF Slots
<1>6. LatestOf(Waiting(k), settled[k]) = e[Len(e)]
  <2> HIDE DEF e, k
  <2>1. CASE Holds(k)
    <3>1. Waiting(k) = <<TRUE>> \o e
      BY <1>1, <2>1 DEF Waiting, Holds, e
    <3> QED BY <1>3, <3>1, LatestHeld DEF LatestOf
  <2>2. CASE ~Holds(k)
    <3>1. Waiting(k) = <<>> \o e
      BY <1>1, <2>2 DEF Waiting, Holds, e
    <3>2. Waiting(k) = e
      BY <1>3, <3>1, ConcatEmptySeq
    <3> QED BY <1>3, <3>2 DEF LatestOf
  <2> QED BY <2>1, <2>2
<1> QED BY <1>1, <1>4, <1>5, <1>6 DEF WaitingInv

(* What the moves of the keys preserve.                                    *)
LEMMA MovesInv ==
    ASSUME Engine, WaitingInv, waiting_buffer' \in Seq(Records),
           settled' \in [Keys -> BOOLEAN], NEW key, \A k \in Keys : Moves(key, k),
           \A k \in Keys : k \in down' <=> IF k = key THEN k \notin down ELSE k \in down
    PROVE  WaitingInv'
<1> SUFFICES ASSUME NEW k \in Keys
             PROVE  /\ Alternates(Waiting(k)', settled'[k])
                    /\ LatestOf(Waiting(k)', settled'[k]) <=> k \in down'
  BY DEF WaitingInv, Alternates, LatestOf
<1> DEFINE w == Waiting(k)
           a == Arrives(key, k)
<1>1. /\ w \in Seq(BOOLEAN) /\ settled[k] \in BOOLEAN /\ settled'[k] \in BOOLEAN
      /\ Alternates(w, settled[k]) /\ (LatestOf(w, settled[k]) <=> k \in down)
  BY WaitingForm DEF WaitingInv
<1>2. LatestOf(w, settled[k]) \in BOOLEAN
  <2> HIDE DEF w
  <2> QED BY <1>1, AlternatesAppend
<1>3. a = IF k = key THEN Append(w, ~LatestOf(w, settled[k])) ELSE w
  BY DEF Arrives
<1> HIDE DEF w, a
<1>4. /\ a \in Seq(BOOLEAN) /\ Alternates(a, settled[k])
      /\ LatestOf(a, settled[k]) <=> k \in down'
  BY <1>1, <1>2, <1>3, AlternatesAppend
<1>5. CASE Waiting(k)' = a /\ settled'[k] = settled[k]
  BY <1>4, <1>5
<1>6. CASE a # <<>> /\ Waiting(k)' = Tail(a) /\ settled'[k] = a[1]
  BY <1>1, <1>4, <1>6, AlternatesTail
<1> QED BY <1>5, <1>6 DEF Moves, a

(* The moves of the keys are a step of EventQueue.                         *)
LEMMA MovesStep ==
    ASSUME Engine, WaitingInv, waiting_buffer' \in Seq(Records),
           settled' \in [Keys -> BOOLEAN], NEW key, \A k \in Keys : Moves(key, k)
    PROVE  EQ!Next
<1> DEFINE D == {k \in Keys : k = key}
           kept(k) == Waiting(k)' = Arrives(key, k) /\ settled'[k] = settled[k]
           n == [k \in Keys |-> IF kept(k) THEN 0 ELSE 1]
<1>1. \A k \in Keys : EQ!Arrived(D)[k] = Arrives(key, k)
  BY DEF EQ!Arrived, EQ!Latest, Arrives, LatestOf
<1>2. ASSUME NEW k \in Keys
      PROVE  /\ n[k] \in 0 .. 1 /\ n[k] <= Len(Arrives(key, k))
             /\ Waiting(k)' = SubSeq(Arrives(key, k), n[k] + 1, Len(Arrives(key, k)))
             /\ settled'[k] = IF n[k] = 0 THEN settled[k] ELSE Arrives(key, k)[n[k]]
  <2> DEFINE a == Arrives(key, k)
  <2>1. Waiting(k) \in Seq(BOOLEAN) /\ settled[k] \in BOOLEAN /\ Alternates(Waiting(k), settled[k])
    BY WaitingForm DEF WaitingInv
  <2>2. a \in Seq(BOOLEAN)
    BY <2>1, AlternatesAppend DEF Arrives
  <2>3. Moves(key, k) /\ n[k] = IF kept(k) THEN 0 ELSE 1
    OBVIOUS
  <2> HIDE DEF n
  <2>4. CASE kept(k)
    <3>1. n[k] = 0 /\ Waiting(k)' = a /\ settled'[k] = settled[k]
      BY <2>3, <2>4
    <3> HIDE DEF a
    <3>2. SubSeq(a, 1, Len(a)) = a /\ Len(a) \in Nat
      BY <2>2, SubSeqFull, LenProperties
    <3> QED BY <3>1, <3>2 DEF a
  <2>5. CASE ~kept(k)
    <3>1. n[k] = 1 /\ a # <<>> /\ Waiting(k)' = Tail(a) /\ settled'[k] = a[1]
      BY <2>3, <2>5 DEF Moves
    <3> HIDE DEF a
    <3>2. SubSeq(a, 2, Len(a)) = Tail(a) /\ Len(a) \in Nat \ {0}
      BY <2>2, <3>1, TailIsSubSeq, EmptySeq
    <3> QED BY <3>1, <3>2 DEF a
  <2> QED BY <2>4, <2>5
<1>3. n \in [Keys -> 0 .. 1]
  BY <1>2
<1> HIDE DEF n
<1>4. EQ!Step(D, n)
  <2>2. [k \in Keys |-> Waiting(k)]' =
           [k \in Keys |-> SubSeq(EQ!Arrived(D)[k], n[k] + 1, Len(EQ!Arrived(D)[k]))]
    BY <1>1, <1>2
  <2>3. settled' = [k \in Keys |-> IF n[k] = 0 THEN settled[k] ELSE EQ!Arrived(D)[k][n[k]]]
    <3>1. \A k \in Keys :
             settled'[k] = IF n[k] = 0 THEN settled[k] ELSE EQ!Arrived(D)[k][n[k]]
      BY <1>1, <1>2
    <3>2. settled' \in [Keys -> BOOLEAN]
      OBVIOUS
    <3> HIDE DEF D
    <3> QED BY <3>1, <3>2
  <2>4. \A k \in Keys : n[k] <= Len(EQ!Arrived(D)[k])
    BY <1>1, <1>2
  <2> HIDE DEF D
  <2> QED BY <2>2, <2>3, <2>4 DEF EQ!Step
<1>5. D \in SUBSET Keys
  OBVIOUS
<1> HIDE DEF D
<1> QED BY <1>3, <1>4, <1>5 DEF EQ!Next

(* The overflow ends all that waits: for every key the state it is in      *)
(* counts as having taken effect.                                          *)
LEMMA OverflowMoves ==
    ASSUME Inv, WaitingInv, NEW key \in Keys, EventCall(key), Overflows(Changed(key))
    PROVE  WaitingInv' /\ EQ!Next
<1>1. /\ waiting_buffer' = <<>> /\ tapping_key' = NoTapping
      /\ settled' = [k \in Keys |-> k \in down']
  BY DEF Overflows
<1>2. \A k \in Keys : Waiting(k)' = <<>>
  <2>1. ~IS_TAPPING'
    BY <1>1 DEF IS_TAPPING, NoTapping, Record
  <2>2. \A k \in Keys : ~Holds(k)'
    BY <2>1 DEF Holds, IS_TAPPING_KEY
  <2>3. \A k \in Keys : EventsOf(waiting_buffer', k) = <<>>
    <3>1. Places(<<>>, NOEVENT) = {} /\ \A k \in Keys : Places(<<>>, k) = {}
      BY DEF Places
    <3>2. <<>> \in Seq(Records)
      BY EmptySeq
    <3> QED BY <1>1, <3>1, <3>2, EventsEmpty
  <2>4. ASSUME NEW k \in Keys PROVE Waiting(k)' = <<>>
    <3>1. Waiting(k)' = (IF Holds(k)' THEN <<TRUE>> ELSE <<>>) \o EventsOf(waiting_buffer', k)
      BY DEF Waiting, Holds
    <3> QED BY <2>2, <2>3, <3>1
  <2> QED BY <2>4
<1>3. \A k \in Keys : k \in down' <=> IF k = key THEN k \notin down ELSE k \in down
  BY DEF EventCall
<1>4. WaitingInv'
  <2>1. \A k \in Keys : Alternates(<<>>, settled'[k]) /\ LatestOf(<<>>, settled'[k]) = settled'[k]
    BY EmptySeq DEF Alternates, LatestOf
  <2>2. \A k \in Keys : settled'[k] = (k \in down')
    BY <1>1
  <2> SUFFICES ASSUME NEW k \in Keys
               PROVE  /\ Alternates(Waiting(k)', settled'[k])
                      /\ LatestOf(Waiting(k)', settled'[k]) <=> k \in down'
    BY DEF WaitingInv, Alternates, LatestOf
  <2> QED BY <1>2, <2>1, <2>2
<1>5. \A k \in Keys : /\ EQ!Latest(k) = LatestOf(Waiting(k), settled[k])
                      /\ EQ!Latest(k) <=> k \in down
                      /\ EQ!Latest(k) \in BOOLEAN
  <2>1. \A k \in Keys : EQ!Latest(k) = LatestOf(Waiting(k), settled[k])
    BY DEF EQ!Latest, LatestOf
  <2>2. ASSUME NEW k \in Keys PROVE LatestOf(Waiting(k), settled[k]) \in BOOLEAN
    <3>1. Waiting(k) \in Seq(BOOLEAN) /\ settled[k] \in BOOLEAN
      <4>1. EventsOf(waiting_buffer, k) \in Seq(BOOLEAN)
        BY EventsType DEF Inv, Engine
      <4>2. Waiting(k) = <<TRUE>> \o EventsOf(waiting_buffer, k)
            \/ Waiting(k) = <<>> \o EventsOf(waiting_buffer, k)
        BY DEF Waiting
      <4>3. /\ <<TRUE>> \o EventsOf(waiting_buffer, k) \in Seq(BOOLEAN)
            /\ <<>> \o EventsOf(waiting_buffer, k) \in Seq(BOOLEAN)
        BY <4>1, HeldFirst, ConcatEmptySeq
      <4>4. settled[k] \in BOOLEAN
        BY DEF Inv, Engine
      <4> QED BY <4>2, <4>3, <4>4
    <3> QED BY <3>1, AlternatesAppend DEF WaitingInv
  <2> QED BY <2>1, <2>2 DEF WaitingInv
<1>6. EQ!Flush({key})
  <2>1. [k \in Keys |-> Waiting(k)]' = [k \in Keys |-> <<>>]
    BY <1>2
  <2>2. settled' = [k \in Keys |-> IF k \in {key} THEN ~EQ!Latest(k) ELSE EQ!Latest(k)]
    <3>1. \A k \in Keys : (k \in down') = IF k \in {key} THEN ~EQ!Latest(k) ELSE EQ!Latest(k)
      BY <1>3, <1>5
    <3> QED BY <1>1, <3>1
  <2> QED BY <2>1, <2>2 DEF EQ!Flush
<1> QED BY <1>4, <1>6 DEF EQ!Next

(* Every step preserves WaitingInv and is one of EventQueue, or none.      *)
LEMMA WaitingStep ==
    ASSUME Inv, Inv', OrderInv, WaitingInv, OneTapWaits, [Next]_vars
    PROVE  WaitingInv' /\ (EQ!Next \/ UNCHANGED EQ!vars)
<1>1. /\ Engine /\ waiting_buffer' \in Seq(Records) /\ settled' \in [Keys -> BOOLEAN]
      /\ LastInv
  BY WaitingLast DEF Inv, Engine
<1>2. NOEVENT \notin Keys
  BY DEF Keys, NOEVENT
<1>3. ASSUME NEW key \in Keys, Event(key) PROVE WaitingInv' /\ EQ!Next
  <2>1. EventCall(key) /\ process_tapping(Changed(key))
    BY <1>1, <1>3, EventOrder
  <2>2. Dealt(Changed(key))
    BY <2>1, ChangedFields, CallDealt
  <2>3. CASE Overflows(Changed(key))
    BY <2>1, <2>3, OverflowMoves
  <2>4. CASE ~Overflows(Changed(key))
    <3>1. \A k \in Keys : Moves(key, k)
      BY <1>1, <2>1, <2>2, <2>4, EventMoves
    <3>2. \A k \in Keys : k \in down' <=> IF k = key THEN k \notin down ELSE k \in down
      BY <2>1 DEF EventCall
    <3> QED BY <1>1, <3>1, <3>2, MovesInv, MovesStep
  <2> QED BY <2>3, <2>4
<1>4. CASE Tick
  <2>1. Dealt(TICK) /\ down' = down
    BY <1>4, TickFields, CallDealt
  <2>2. \A k \in Keys : Moves(NOEVENT, k)
    BY <1>1, <1>4, <2>1, TickMoves
  <2> QED BY <1>1, <1>2, <2>1, <2>2, MovesInv, MovesStep
<1>5. CASE Drain
  <2>1. DrainCall /\ process_tapping(waiting_buffer[1]) /\ down' = down
    BY <1>5 DEF Drain, DrainCall
  <2>2. waiting_buffer[1].pressed => waiting_buffer[1].count = 0
    BY <2>1, DrainGiven DEF OrderInv, QueueInv
  <2>3. Dealt(waiting_buffer[1])
    BY <2>1, <2>2, DrainGiven, CallDealt
  <2>4. \A k \in Keys : Moves(NOEVENT, k)
    BY <1>1, <2>1, <2>3, DrainMoves
  <2> QED BY <1>1, <1>2, <2>1, <2>4, MovesInv, MovesStep
<1>6. ASSUME waiting_buffer' = waiting_buffer, tapping_key' = tapping_key, settled' = settled,
             down' = down
      PROVE  WaitingInv' /\ UNCHANGED EQ!vars
  <2>1. \A k : Waiting(k)' = Waiting(k)
    BY <1>6 DEF Waiting, Undecided, IS_TAPPING_PRESSED, IS_TAPPING, IS_TAPPING_KEY
  <2>2. WaitingInv'
    BY <1>6, <2>1 DEF WaitingInv, Alternates, LatestOf
  <2>3. [k \in Keys |-> Waiting(k)]' = [k \in Keys |-> Waiting(k)]
    BY <2>1
  <2> QED BY <1>6, <2>2, <2>3 DEF EQ!vars
<1>7. CASE WaitPass \/ WaitStep \/ Drained \/ UNCHANGED vars
  BY <1>6, <1>7 DEF WaitPass, WaitStep, Wait, Drained, vars
<1> QED BY <1>3, <1>4, <1>5, <1>7 DEF Next

(* Nothing waits at first, and every key is up.                            *)
LEMMA WaitingInit == Init => WaitingInv /\ EQ!Init
<1> SUFFICES ASSUME Init PROVE WaitingInv /\ EQ!Init
  OBVIOUS
<1>1. /\ waiting_buffer = <<>> /\ tapping_key = NoTapping /\ down = {}
      /\ settled = [k \in Keys |-> FALSE]
  BY DEF Init
<1>2. ASSUME NEW k \in Keys PROVE Waiting(k) = <<>>
  <2>1. Places(<<>>, k) = {} /\ <<>> \in Seq(Records)
    BY EmptySeq DEF Places
  <2>2. EventsOf(waiting_buffer, k) = <<>>
    BY <1>1, <2>1, EventsEmpty
  <2>3. ~Undecided
    BY <1>1 DEF Undecided, IS_TAPPING_PRESSED, NoTapping, Record
  <2> QED BY <2>2, <2>3 DEF Waiting
<1>3. WaitingInv
  <2>1. Alternates(<<>>, FALSE) /\ LatestOf(<<>>, FALSE) = FALSE
    BY EmptySeq DEF Alternates, LatestOf
  <2> QED BY <1>1, <1>2, <2>1 DEF WaitingInv
<1> QED BY <1>1, <1>2, <1>3 DEF EQ!Init

(* The invariant of the two theorems.                                      *)
LineInv == Inv /\ OrderInv /\ WaitingInv

LEMMA LineInit == Init => LineInv
BY InvInit, OrderInit, WaitingInit DEF LineInv

LEMMA LineStep == LineInv /\ OneTapWaits /\ [Next]_vars => LineInv'
<1> SUFFICES ASSUME Inv, OrderInv, WaitingInv, OneTapWaits, [Next]_vars
             PROVE  Inv' /\ OrderInv' /\ WaitingInv'
  BY DEF LineInv
<1>1. Inv'
  BY InvStep
<1>2. LastInv
  BY WaitingLast DEF Inv
<1> QED BY <1>1, <1>2, OrderStep, WaitingStep

(* Through process_tapping and the waiting buffer (action_tapping.c), as   *)
(* long as one press of a tap key waits at most, the events of a key take  *)
(* effect each once and in the order in which the matrix gave them: a key  *)
(* is a queue, from which only its head is taken, or all at once when the  *)
(* buffer overflows.                                                       *)
THEOREM EventsKeepOrder == Spec /\ []OneTapWaits => EventsInOrder
<1>1. LineInv /\ OneTapWaits /\ [Next]_vars => [EQ!Next]_EQ!vars
  BY InvStep, WaitingStep DEF LineInv
<1>2. Init => EQ!Init
  BY WaitingInit
<1> QED BY <1>1, <1>2, LineInit, LineStep, PTL DEF Spec, EventsInOrder, EQ!Spec

(* Under the same condition a press that process_tapping takes at once, in *)
(* place of putting it into the waiting buffer, passes no press of an      *)
(* earlier step that still waits there.                                    *)
THEOREM PressesKeepOrder == Spec /\ []OneTapWaits => NoOvertaking
<1>1. ASSUME LineInv, OneTapWaits, Next, NEW k \in Keys, Event(k), k \in down',
             Len(waiting_buffer') = Len(waiting_buffer), NEW i \in 1 .. Len(waiting_buffer),
             waiting_buffer[i].pressed
      PROVE  waiting_buffer[i].time = now
  <2>1. Inv /\ OrderInv /\ WaitingInv /\ Engine /\ LastInv
    BY <1>1, WaitingLast DEF LineInv, Inv
  <2>2. EventCall(k) /\ process_tapping(Changed(k))
    BY <1>1, <2>1, EventOrder
  <2>3. Changed(k).pressed /\ Changed(k).key = k
    BY <1>1, <2>1, <2>2, ChangedFields
  <2>4. Dealt(Changed(k))
    BY <2>1, <2>2, ChangedFields, CallDealt
  <2>5. ~Undecided
    <3> SUFFICES ASSUME Undecided PROVE FALSE
      OBVIOUS
    <3>1. Leaves(Changed(k)) \/ Overflows(Changed(k))
      BY <2>3, <2>4 DEF Dealt, Passes, Starts, WaitsOn, Decides
    <3>2. pc = "scan" /\ Changed(k).key # NOEVENT /\ Len(waiting_buffer) \in Nat
      BY <2>1, <2>2, ChangedFields
    <3>3. CASE Leaves(Changed(k))
      <4>1. Len(waiting_buffer') = Len(waiting_buffer) + 1
        BY <3>2, <3>3 DEF Leaves, Adds
      <4> QED BY <1>1, <3>2, <4>1
    <3>4. CASE Overflows(Changed(k))
      <4>1. Len(waiting_buffer') = 0 /\ Len(waiting_buffer) = WAITING_BUFFER_SIZE - 1
        BY <3>4, EmptySeq DEF Overflows, IsFull
      <4> QED BY <1>1, <3>2, <4>1, TappingAssumption
    <3> QED BY <3>1, <3>3, <3>4
  <2> QED BY <1>1, <2>1, <2>2, <2>5, EventNoneDue DEF Slots
<1>2. LineInv /\ OneTapWaits /\ [Next]_vars =>
         [\A k \in Keys :
            /\ Event(k) /\ k \in down'
            /\ Len(waiting_buffer') = Len(waiting_buffer)
            => \A i \in 1 .. Len(waiting_buffer) :
                  waiting_buffer[i].pressed => waiting_buffer[i].time = now]_vars
  BY <1>1
<1> QED BY <1>2, LineInit, LineStep, PTL DEF Spec, NoOvertaking
=============================================================================
