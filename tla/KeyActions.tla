----------------------------- MODULE KeyActions -----------------------------
(***************************************************************************)
(* What a key event does to the keyboard: TMK/action.c, action_layer.c and *)
(* the modifiers and report of action_util.c, as operators on a record kb. *)
(*                                                                         *)
(*   real, weak, oneshot  the modifier sets of action_util.c               *)
(*   keys                 the codes in keyboard_report->keys[]             *)
(*   layer, deflt         layer_state, default_layer_state (sets of bits)  *)
(*   pressed              layer_pressed[][], by key                        *)
(*   usage                last_system_report, last_consumer_report         *)
(*   host                 the report last given to host_keyboard_send      *)
(*   keymap               the name of the keymap that is stored            *)
(*                                                                         *)
(* The report is the set of its codes: KeyRing shows that keys[] is a      *)
(* queue of at most six held codes, and there are at most six codes here.  *)
(***************************************************************************)
EXTENDS Integers, FiniteSets

CONSTANTS
    NumKeys,        \* keys of the matrix, numbered in the order of a scan
    TopLayer,       \* the highest layer, 31 in the code
    Mods,           \* modifier bits, which are also the codes of IS_MOD
    KeyCodes,       \* the codes of IS_KEY
    Usages,         \* the codes of IS_SYSTEM and IS_CONSUMER, by page
    KeyMaps,        \* keymaps by name, each an action by layer and key
    TAPPING_TOGGLE

Keys == 1 .. NumKeys
Layers == 0 .. TopLayer
Pages == {"system", "consumer"}
KC_NO == "KC_NO"

(***************************************************************************)
(* The actions, by kind.  The two sides of a kind (left and right          *)
(* modifiers, layers above 15) differ in the bits they name only.          *)
(***************************************************************************)
Act_Mods(mods, code)     == [kind |-> "MODS", mods |-> mods, code |-> code]
Act_Mods_Tap(mods, code) == [kind |-> "MODS_TAP", mods |-> mods, code |-> code]
Act_Usage(page, code)    == [kind |-> "USAGE", page |-> page, code |-> code]
Act_Layer(on, op, bits, mask) ==
    [kind |-> "LAYER", on |-> on, op |-> op, bits |-> bits, mask |-> mask]
Act_Layer_Tap(val, code) == [kind |-> "LAYER_TAP", val |-> val, code |-> code]
Act_Layer_Mods(val, mods) == [kind |-> "LAYER_MODS", val |-> val, mods |-> mods]
Transparent == [kind |-> "TRANSPARENT"]

MODS_ONESHOT == "ONESHOT"
MODS_TAP_TOGGLE == "TAP_TOGGLE"
OP_TAP_TOGGLE == "TAP_TOGGLE"
OP_ON_OFF == "ON_OFF"
OP_OFF_ON == "OFF_ON"
OP_SET_CLEAR == "SET_CLEAR"

ASSUME ActionsAssumption ==
    /\ NumKeys \in Nat \ {0}
    /\ TopLayer \in Nat
    /\ IsFiniteSet(KeyCodes) /\ Cardinality(KeyCodes) <= 6
    /\ Mods \cap KeyCodes = {} /\ KC_NO \notin Mods \cup KeyCodes
    /\ DOMAIN Usages = Pages
    /\ Usages["system"] \cap Usages["consumer"] = {}
    /\ \A p \in Pages : Usages[p] \cap (Mods \cup KeyCodes \cup {KC_NO}) = {}
    /\ \A name \in DOMAIN KeyMaps :
          /\ DOMAIN KeyMaps[name] = Layers
          /\ \A l \in Layers : DOMAIN KeyMaps[name][l] = Keys

Codes == Mods \cup KeyCodes \cup Usages["system"] \cup Usages["consumer"] \cup {KC_NO}
TapModes == {MODS_ONESHOT, MODS_TAP_TOGGLE}
LayerModes == {OP_TAP_TOGGLE, OP_ON_OFF, OP_OFF_ON, OP_SET_CLEAR}

Actions ==
    [kind : {"MODS"}, mods : SUBSET Mods, code : Codes]
    \cup [kind : {"MODS_TAP"}, mods : SUBSET Mods, code : Codes \cup TapModes]
    \cup [kind : {"USAGE"}, page : Pages, code : Codes]
    \cup [kind : {"LAYER"}, on : SUBSET BOOLEAN, op : {"AND", "OR", "XOR", "SET"},
          bits : SUBSET Layers, mask : SUBSET Layers]
    \cup [kind : {"LAYER_TAP"}, val : Layers, code : Codes \cup LayerModes]
    \cup [kind : {"LAYER_MODS"}, val : Layers, mods : SUBSET Mods]
    \cup {Transparent}

ASSUME KeyMapsAssumption ==
    \A name \in DOMAIN KeyMaps : \A l \in Layers : \A k \in Keys :
        KeyMaps[name][l][k] \in Actions

-----------------------------------------------------------------------------
InitKb(name) ==
    [keymap |-> name, real |-> {}, weak |-> {}, oneshot |-> {}, keys |-> {},
     layer |-> {}, deflt |-> {}, pressed |-> [k \in Keys |-> 0],
     usage |-> [p \in Pages |-> KC_NO],
     host |-> [mods |-> {}, keys |-> {}]]

\* mutant: a report without a key ends the one-shot modifiers too
send_keyboard_report_EndsOneShot(kb) ==
    [kb EXCEPT !.host = [mods |-> kb.real \cup kb.weak \cup kb.oneshot,
                         keys |-> kb.keys],
               !.oneshot = {}]

\* a one-shot modifier goes out with every report until one carries a key
send_keyboard_report(kb) ==
    [kb EXCEPT !.host = [mods |-> kb.real \cup kb.weak \cup kb.oneshot,
                         keys |-> kb.keys],
               !.oneshot = IF kb.keys = {} THEN @ ELSE {}]

host_send(kb, page, code) == [kb EXCEPT !.usage[page] = code]

IsUsage(code) == \E p \in Pages : code \in Usages[p]
PageOf(code) == CHOOSE p \in Pages : code \in Usages[p]

register_mods(kb, mods) ==
    IF mods = {} THEN kb ELSE send_keyboard_report([kb EXCEPT !.real = @ \cup mods])

unregister_mods(kb, mods) ==
    IF mods = {} THEN kb ELSE send_keyboard_report([kb EXCEPT !.real = @ \ mods])

register_code(kb, code) ==
    CASE code \in KeyCodes -> send_keyboard_report([kb EXCEPT !.keys = @ \cup {code}])
      [] code \in Mods     -> send_keyboard_report([kb EXCEPT !.real = @ \cup {code}])
      [] IsUsage(code)     -> host_send(kb, PageOf(code), code)
      [] OTHER             -> kb

unregister_code(kb, code) ==
    CASE code \in KeyCodes -> send_keyboard_report([kb EXCEPT !.keys = @ \ {code}])
      [] code \in Mods     -> send_keyboard_report([kb EXCEPT !.real = @ \ {code}])
      [] IsUsage(code)     -> host_send(kb, PageOf(code), KC_NO)
      [] OTHER             -> kb

\* one-shot modifiers and the layers survive a clear
clear_keyboard(kb) ==
    [send_keyboard_report([kb EXCEPT !.real = {}, !.weak = {}, !.keys = {}])
        EXCEPT !.usage = [p \in Pages |-> KC_NO]]

-----------------------------------------------------------------------------
(* action_layer.c *)

action_for_key(kb, layer, key) == KeyMaps[kb.keymap][layer][key]

ActionsOf(kb, key) == {action_for_key(kb, l, key) : l \in Layers}

Visible(kb, key) ==
    {i \in kb.layer \cup kb.deflt : action_for_key(kb, i, key) # Transparent}

current_layer_for_key(kb, key) ==
    IF Visible(kb, key) = {} THEN 0
    ELSE CHOOSE i \in Visible(kb, key) : \A j \in Visible(kb, key) : j <= i

\* mutant: the layer is recorded at the release too
Track_Release(kb, event) ==
    [kb EXCEPT !.pressed[event.key] = current_layer_for_key(kb, event.key)]

\* layer_switch_get_action records the layer of a press, whoever asks
Track(kb, event) ==
    IF event.pressed
    THEN [kb EXCEPT !.pressed[event.key] = current_layer_for_key(kb, event.key)]
    ELSE kb

layer_switch_get_action(kb, event) ==
    action_for_key(kb, Track(kb, event).pressed[event.key], event.key)

layer_on(kb, val)     == [kb EXCEPT !.layer = @ \cup {val}]
layer_off(kb, val)    == [kb EXCEPT !.layer = @ \ {val}]
layer_invert(kb, val) == [kb EXCEPT !.layer = (@ \cup {val}) \ (@ \cap {val})]
layer_move(kb, val)   == [kb EXCEPT !.layer = {val}]
layer_clear(kb)       == [kb EXCEPT !.layer = {}]

BitOp(state, op, bits, mask) ==
    CASE op = "AND" -> state \cap (bits \cup mask)
      [] op = "OR"  -> state \cup bits \cup mask
      [] op = "XOR" -> (state \cup bits \cup mask) \ (state \cap (bits \cup mask))
      [] op = "SET" -> (state \cap mask) \cup bits

-----------------------------------------------------------------------------
(* process_action, by kind of action; kb has the layer of a press recorded *)

ProcessMods(kb, a, pressed) ==
    IF pressed
    THEN register_code(IF a.mods = {} THEN kb
                       ELSE send_keyboard_report([kb EXCEPT !.weak = @ \cup a.mods]),
                       a.code)
    ELSE LET released == unregister_code(kb, a.code)
         IN  IF a.mods = {} THEN released
             ELSE send_keyboard_report([released EXCEPT !.weak = @ \ a.mods])

ProcessOneShot(kb, mods, rec) ==
    CASE rec.pressed /\ rec.count = 1  -> [kb EXCEPT !.oneshot = mods]
      [] rec.pressed /\ rec.count # 1  -> register_mods(kb, mods)
      [] ~rec.pressed /\ rec.count = 1 -> kb
      [] ~rec.pressed /\ rec.count # 1 ->
            unregister_mods([kb EXCEPT !.oneshot = {}], mods)

ProcessTapToggle(kb, mods, rec) ==
    CASE rec.pressed /\ rec.count <= TAPPING_TOGGLE ->
            IF mods \cap kb.real # {} THEN unregister_mods(kb, mods)
            ELSE register_mods(kb, mods)
      [] ~rec.pressed /\ rec.count < TAPPING_TOGGLE -> unregister_mods(kb, mods)
      [] OTHER -> kb

\* a tap that another key interrupted is cancelled: the key acts as a modifier
Cancels(kb, rec) ==
    LET a == layer_switch_get_action(kb, rec)
    IN  /\ a.kind = "MODS_TAP" /\ a.code \notin {MODS_ONESHOT, MODS_TAP_TOGGLE}
        /\ rec.pressed /\ rec.count > 0 /\ rec.interrupted

ProcessModsTap(kb, a, rec) ==
    CASE rec.pressed /\ rec.count > 0 /\ ~rec.interrupted -> register_code(kb, a.code)
      [] rec.pressed /\ (rec.count = 0 \/ rec.interrupted) -> register_mods(kb, a.mods)
      [] ~rec.pressed /\ rec.count > 0 -> unregister_code(kb, a.code)
      [] ~rec.pressed /\ rec.count = 0 -> unregister_mods(kb, a.mods)

ProcessLayer(kb, a, pressed) ==
    IF a.on = {}
    THEN IF pressed THEN kb
         ELSE [kb EXCEPT !.deflt = BitOp(@, a.op, a.bits, a.mask)]
    ELSE IF pressed \in a.on
         THEN [kb EXCEPT !.layer = BitOp(@, a.op, a.bits, a.mask)]
         ELSE kb

ProcessLayerTap(kb, a, rec) ==
    CASE a.code = OP_TAP_TOGGLE ->
            IF rec.count < TAPPING_TOGGLE \/ (~rec.pressed /\ rec.count = TAPPING_TOGGLE)
            THEN layer_invert(kb, a.val) ELSE kb
      [] a.code = OP_ON_OFF ->
            IF rec.pressed THEN layer_on(kb, a.val) ELSE layer_off(kb, a.val)
      [] a.code = OP_OFF_ON ->
            IF rec.pressed THEN layer_off(kb, a.val) ELSE layer_on(kb, a.val)
      [] a.code = OP_SET_CLEAR ->
            IF rec.pressed THEN layer_move(kb, a.val) ELSE layer_clear(kb)
      [] OTHER ->
            CASE rec.pressed /\ rec.count > 0  -> register_code(kb, a.code)
              [] rec.pressed /\ rec.count = 0  -> layer_on(kb, a.val)
              [] ~rec.pressed /\ rec.count > 0 -> unregister_code(kb, a.code)
              [] ~rec.pressed /\ rec.count = 0 -> layer_off(kb, a.val)

ProcessLayerMods(kb, a, pressed) ==
    IF pressed THEN register_mods(layer_on(kb, a.val), a.mods)
    ELSE unregister_mods(layer_off(kb, a.val), a.mods)

process_action(kb, rec) ==
    LET a == layer_switch_get_action(kb, rec)
        t == Track(kb, rec)
    IN  CASE a.kind = "MODS"       -> ProcessMods(t, a, rec.pressed)
          [] a.kind = "MODS_TAP" /\ a.code = MODS_ONESHOT ->
                ProcessOneShot(t, a.mods, rec)
          [] a.kind = "MODS_TAP" /\ a.code = MODS_TAP_TOGGLE ->
                ProcessTapToggle(t, a.mods, rec)
          [] a.kind = "MODS_TAP" /\ a.code \notin {MODS_ONESHOT, MODS_TAP_TOGGLE} ->
                ProcessModsTap(t, a, rec)
          [] a.kind = "USAGE"      ->
                host_send(t, a.page, IF rec.pressed THEN a.code ELSE KC_NO)
          [] a.kind = "LAYER"      -> ProcessLayer(t, a, rec.pressed)
          [] a.kind = "LAYER_TAP"  -> ProcessLayerTap(t, a, rec)
          [] a.kind = "LAYER_MODS" -> ProcessLayerMods(t, a, rec.pressed)
          [] OTHER                 -> t

\* the kinds that process_tapping holds back until tap or hold is decided
is_tap_key(kb, event) ==
    LET a == layer_switch_get_action(kb, event)
    IN  \/ a.kind = "MODS_TAP"
        \/ a.kind = "LAYER_TAP" /\ a.code \notin {OP_ON_OFF, OP_OFF_ON, OP_SET_CLEAR}
=============================================================================
