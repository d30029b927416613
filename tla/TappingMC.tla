----------------------------- MODULE TappingMC ------------------------------
(* Keymaps for Tapping.  A layer is a sequence of keys, layer 0 first. *)
EXTENDS Tapping

\* the other layers are transparent
Layered(layers) ==
    [l \in Layers |->
        [k \in Keys |-> IF l < Len(layers) THEN layers[l+1][k] ELSE Transparent]]

NoUsages == [p \in Pages |-> {}]
MiscUsages == [p \in Pages |-> IF p = "system" THEN {"sleep"} ELSE {"mute"}]

Shift == {"lsft"}
Ctrl == {"lctl"}

Plain(code) == Act_Mods({}, code)

\* a modifier with a tap code, a layer with a tap code, a key on both layers
TapMap == Layered(<<
    <<Act_Mods_Tap(Shift, "x"), Act_Layer_Tap(1, "y"), Plain("a")>>,
    <<Transparent, Transparent, Plain("b")>> >>)

\* Shift as a key of its own, a modifier with a tap code, a modified key
ModsMap == Layered(<<
    <<Plain("lsft"), Act_Mods_Tap(Ctrl, "x"), Act_Mods(Shift, "a")>> >>)

\* one-shot Shift, a plain key, Ctrl as a key of its own
OneShotMap == Layered(<<
    <<Act_Mods_Tap(Shift, MODS_ONESHOT), Plain("a"), Plain("lctl")>> >>)

\* a layer toggled by taps, a modifier toggled by taps, each next to plain keys
ToggleMap == Layered(<<
    <<Act_Layer_Tap(1, OP_TAP_TOGGLE), Plain("a"), Plain("b")>> >>)
ModToggleMap == Layered(<<
    <<Act_Mods_Tap(Ctrl, MODS_TAP_TOGGLE), Plain("a"), Plain("lsft")>> >>)

\* Shift with a layer, Ctrl with a volume key, a sleep key that switches the
\* default layer on layer 1
LayerModsMap == Layered(<<
    <<Act_Layer_Mods(1, Shift), Act_Mods_Tap(Ctrl, "mute"), Act_Usage("system", "sleep")>>,
    <<Transparent, Transparent, Act_Layer({}, "XOR", {1}, {})>> >>)

\* a layer set and cleared, next to a modifier with a tap code
SetClearMap == Layered(<<
    <<Act_Layer_Tap(1, OP_SET_CLEAR), Act_Mods_Tap(Ctrl, "mute"), Plain("a")>>,
    <<Transparent, Transparent, Plain("b")>> >>)

AllMaps == [tap |-> TapMap, mods |-> ModsMap, oneshot |-> OneShotMap,
            toggle |-> ToggleMap, modtoggle |-> ModToggleMap,
            layermods |-> LayerModsMap, setclear |-> SetClearMap]

TapMaps == [tap |-> TapMap]

\* a momentary layer; a key that is a modifier with a tap code on it only
MomentaryMaps == [momentary |-> Layered(<<
    <<Act_Layer_Tap(1, OP_ON_OFF), Plain("a"), Plain("b")>>,
    <<Transparent, Act_Mods_Tap(Shift, "x"), Transparent>> >>)]

\* a layer toggled by taps next to another tap key
ToggleBesideMaps == [beside |-> Layered(<<
    <<Act_Layer_Tap(1, OP_TAP_TOGGLE), Act_Mods_Tap(Ctrl, "x"), Plain("a")>> >>)]
=============================================================================
