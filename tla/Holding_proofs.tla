---------------------------- MODULE Holding_proofs ----------------------------
(***************************************************************************)
(* What the keys hold, for every matrix, keymap, buffer and tapping term   *)
(* in which a release undoes its press (Reversible): everything that is on *)
(* in the report or as a layer is held by a key whose press has taken      *)
(* effect, on the layer of that press (GripInv), and the release takes it. *)
(* So nothing is left on when all keys are up, a release is looked up on   *)
(* the layer of its press, and a one-shot modifier reaches a key.  It      *)
(* rests on the order of events of Tapping_proofs.                         *)
(***************************************************************************)
EXTENDS Tapping_proofs

(* What is held, in the report or as a layer, by part of the keyboard.     *)
Parts == {"keys", "real", "weak", "layer", "usage"}

Used(q) == {page \in Pages : q.usage[page] # KC_NO}

Grip(q, part) ==
    CASE part = "keys"  -> q.keys
      [] part = "real"  -> q.real
      [] part = "weak"  -> q.weak
      [] part = "layer" -> q.layer
      [] part = "usage" -> Used(q)

(* The host was told what is held; one-shot modifiers are still with it    *)
(* until the report after the one that ended them.                         *)
Told(q) ==
    /\ q.host.keys = q.keys
    /\ q.keys = {} => q.host.mods \subseteq q.real \cup q.weak \cup q.oneshot

SameGrip(q, r) ==
    /\ r.keys = q.keys /\ r.real = q.real /\ r.weak = q.weak /\ r.layer = q.layer
    /\ r.usage = q.usage

(* A report changes nothing that is held, and is what the host is told.    *)
LEMMA SendGrip ==
    ASSUME NEW q \in Kb
    PROVE  /\ send_keyboard_report(q) \in Kb /\ SameGrip(q, send_keyboard_report(q))
           /\ Told(send_keyboard_report(q))
           /\ send_keyboard_report(q).oneshot \in {q.oneshot, {}}
<1> DEFINE r == send_keyboard_report(q)
<1>1. r \in Kb
  BY SendType
<1>2. /\ r.keys = q.keys /\ r.real = q.real /\ r.weak = q.weak /\ r.layer = q.layer
      /\ r.usage = q.usage
      /\ r.host = [mods |-> q.real \cup q.weak \cup q.oneshot, keys |-> q.keys]
      /\ r.oneshot = IF q.keys = {} THEN q.oneshot ELSE {}
  BY DEF send_keyboard_report, Kb
<1> HIDE DEF r
<1> QED BY <1>1, <1>2 DEF SameGrip, Told, r

LEMMA HostSendGrip ==
    ASSUME NEW q \in Kb, NEW page \in Pages, NEW code \in Codes
    PROVE  LET r == host_send(q, page, code)
           IN  /\ r \in Kb /\ r.keys = q.keys /\ r.real = q.real /\ r.weak = q.weak
               /\ r.layer = q.layer /\ r.oneshot = q.oneshot /\ r.host = q.host
               /\ Used(r) \subseteq Used(q) \cup {page}
               /\ code = KC_NO => Used(r) = Used(q) \ {page}
<1> DEFINE r == host_send(q, page, code)
<1>1. r \in Kb
  BY HostSendType
<1>2. /\ r.keys = q.keys /\ r.real = q.real /\ r.weak = q.weak
      /\ r.layer = q.layer /\ r.oneshot = q.oneshot /\ r.host = q.host
      /\ r.usage = [q.usage EXCEPT ![page] = code]
  BY DEF host_send, Kb
<1>3. \A g \in Pages : r.usage[g] = IF g = page THEN code ELSE q.usage[g]
  BY <1>2 DEF Kb
<1> HIDE DEF r
<1> QED BY <1>1, <1>2, <1>3 DEF Used, r

(* What a code stands for in the report, and a set of modifiers.           *)
PagesOf(code) == {page \in Pages : code \in Usages[page]}

LEMMA RegisterGrip ==
    ASSUME NEW q \in Kb, NEW code
    PROVE  LET r == register_code(q, code)
           IN  /\ r \in Kb
               /\ r.keys = q.keys \cup ({code} \cap KeyCodes)
               /\ r.real = q.real \cup ({code} \cap Mods)
               /\ r.weak = q.weak /\ r.layer = q.layer
               /\ Used(r) \subseteq Used(q) \cup PagesOf(code)
               /\ Told(q) => Told(r)
               /\ r.oneshot \in {q.oneshot, {}}
<1> DEFINE r == register_code(q, code)
<1>0. r \in Kb
  BY RegisterCodeType
<1>1. /\ code \in KeyCodes => code \notin Mods
      /\ Used(q) \subseteq Used(q) \cup PagesOf(code)
  BY ActionsAssumption
<1>2. CASE code \in KeyCodes
  <2> DEFINE s == [q EXCEPT !.keys = @ \cup {code}]
  <2>1. /\ s \in Kb /\ s.keys = q.keys \cup {code} /\ s.real = q.real /\ s.weak = q.weak
        /\ s.layer = q.layer /\ s.usage = q.usage /\ s.oneshot = q.oneshot
    BY <1>2 DEF Kb
  <2>2. r = send_keyboard_report(s)
    BY <1>2, ActionsAssumption DEF register_code, IsUsage, Pages
  <2> HIDE DEF s, r
  <2> QED BY <1>0, <1>1, <1>2, <2>1, <2>2, SendGrip DEF SameGrip, Used, r
<1>3. CASE code \in Mods
  <2> DEFINE s == [q EXCEPT !.real = @ \cup {code}]
  <2>1. /\ s \in Kb /\ s.keys = q.keys /\ s.real = q.real \cup {code} /\ s.weak = q.weak
        /\ s.layer = q.layer /\ s.usage = q.usage /\ s.oneshot = q.oneshot
    BY <1>3 DEF Kb
  <2>2. r = send_keyboard_report(s)
    BY <1>3, ActionsAssumption DEF register_code, IsUsage, Pages
  <2> HIDE DEF s, r
  <2> QED BY <1>0, <1>1, <1>3, <2>1, <2>2, SendGrip DEF SameGrip, Used, r
<1>4. CASE code \notin KeyCodes \cup Mods /\ IsUsage(code)
  <2>1. PageOf(code) \in Pages /\ code \in Usages[PageOf(code)]
    BY <1>4 DEF IsUsage, PageOf
  <2>2. code \in Codes /\ PageOf(code) \in PagesOf(code)
    BY <2>1 DEF Codes, Pages, PagesOf
  <2>3. r = host_send(q, PageOf(code), code)
    BY <1>4 DEF register_code
  <2> HIDE DEF r
  <2>4. /\ r.keys = q.keys /\ r.real = q.real /\ r.weak = q.weak
        /\ r.layer = q.layer /\ r.oneshot = q.oneshot /\ r.host = q.host
        /\ Used(r) \subseteq Used(q) \cup {PageOf(code)}
    BY <2>1, <2>2, <2>3, HostSendGrip
  <2> QED BY <1>0, <1>4, <2>2, <2>4 DEF Told, r
<1>5. CASE code \notin KeyCodes \cup Mods /\ ~IsUsage(code)
  <2>1. r = q
    BY <1>5 DEF register_code
  <2> HIDE DEF r
  <2> QED BY <1>1, <1>5, <2>1 DEF r
<1> QED BY <1>2, <1>3, <1>4, <1>5

LEMMA UnregisterGrip ==
    ASSUME NEW q \in Kb, NEW code
    PROVE  LET r == unregister_code(q, code)
           IN  /\ r \in Kb
               /\ r.keys = q.keys \ {code} /\ r.real = q.real \ {code}
               /\ r.weak = q.weak /\ r.layer = q.layer
               /\ Used(r) = Used(q) \ PagesOf(code)
               /\ Told(q) => Told(r)
               /\ r.oneshot \in {q.oneshot, {}}
<1> DEFINE r == unregister_code(q, code)
<1>0. r \in Kb
  BY RegisterCodeType
<1>1. /\ code \in KeyCodes => code \notin Mods
      /\ code \in KeyCodes \cup Mods => PagesOf(code) = {}
      /\ q.keys \subseteq KeyCodes /\ q.real \subseteq Mods
  BY ActionsAssumption DEF PagesOf, Kb
<1>2. CASE code \in KeyCodes
  <2> DEFINE s == [q EXCEPT !.keys = @ \ {code}]
  <2>1. /\ s \in Kb /\ s.keys = q.keys \ {code} /\ s.real = q.real /\ s.weak = q.weak
        /\ s.layer = q.layer /\ s.usage = q.usage /\ s.oneshot = q.oneshot
    BY <1>2 DEF Kb
  <2>2. r = send_keyboard_report(s)
    BY <1>2, ActionsAssumption DEF unregister_code, IsUsage, Pages
  <2> HIDE DEF s, r
  <2> QED BY <1>0, <1>1, <1>2, <2>1, <2>2, SendGrip DEF SameGrip, Used, r
<1>3. CASE code \in Mods
  <2> DEFINE s == [q EXCEPT !.real = @ \ {code}]
  <2>1. /\ s \in Kb /\ s.keys = q.keys /\ s.real = q.real \ {code} /\ s.weak = q.weak
        /\ s.layer = q.layer /\ s.usage = q.usage /\ s.oneshot = q.oneshot
    BY <1>3 DEF Kb
  <2>2. r = send_keyboard_report(s)
    BY <1>3, ActionsAssumption DEF unregister_code, IsUsage, Pages
  <2> HIDE DEF s, r
  <2> QED BY <1>0, <1>1, <1>3, <2>1, <2>2, SendGrip DEF SameGrip, Used, r
<1>4. CASE code \notin KeyCodes \cup Mods /\ IsUsage(code)
  <2>1. PageOf(code) \in Pages /\ code \in Usages[PageOf(code)]
    BY <1>4 DEF IsUsage, PageOf
  <2>2. PagesOf(code) = {PageOf(code)} /\ KC_NO \in Codes
    BY <2>1, ActionsAssumption DEF Codes, Pages, PagesOf
  <2>3. r = host_send(q, PageOf(code), KC_NO)
    BY <1>4 DEF unregister_code
  <2> HIDE DEF r
  <2>4. /\ r.keys = q.keys /\ r.real = q.real /\ r.weak = q.weak
        /\ r.layer = q.layer /\ r.oneshot = q.oneshot /\ r.host = q.host
        /\ Used(r) = Used(q) \ {PageOf(code)}
    BY <2>1, <2>2, <2>3, HostSendGrip
  <2> QED BY <1>0, <1>1, <1>4, <2>2, <2>4 DEF Told, r
<1>5. CASE code \notin KeyCodes \cup Mods /\ ~IsUsage(code)
  <2>1. r = q /\ PagesOf(code) = {}
    BY <1>5 DEF unregister_code, IsUsage, PagesOf
  <2> HIDE DEF r
  <2> QED BY <1>0, <1>1, <1>5, <2>1 DEF r
<1> QED BY <1>2, <1>3, <1>4, <1>5

LEMMA ModsGrip ==
    ASSUME NEW q \in Kb, NEW mods \in SUBSET Mods
    PROVE  LET r == register_mods(q, mods)
               u == unregister_mods(q, mods)
           IN  /\ r \in Kb /\ u \in Kb
               /\ r.keys = q.keys /\ u.keys = q.keys
               /\ r.real = q.real \cup mods /\ u.real = q.real \ mods
               /\ r.weak = q.weak /\ u.weak = q.weak
               /\ r.layer = q.layer /\ u.layer = q.layer
               /\ Used(r) = Used(q) /\ Used(u) = Used(q)
               /\ Told(q) \/ mods # {} => Told(r) /\ Told(u)
               /\ r.oneshot \in {q.oneshot, {}} /\ u.oneshot \in {q.oneshot, {}}
<1> DEFINE r == register_mods(q, mods)
           u == unregister_mods(q, mods)
           s == [q EXCEPT !.real = @ \cup mods]
           t == [q EXCEPT !.real = @ \ mods]
<1>1. /\ s \in Kb /\ s.keys = q.keys /\ s.real = q.real \cup mods /\ s.weak = q.weak
      /\ s.layer = q.layer /\ s.usage = q.usage /\ s.oneshot = q.oneshot
  BY DEF Kb
<1>2. /\ t \in Kb /\ t.keys = q.keys /\ t.real = q.real \ mods /\ t.weak = q.weak
      /\ t.layer = q.layer /\ t.usage = q.usage /\ t.oneshot = q.oneshot
  BY DEF Kb
<1>3. /\ r = IF mods = {} THEN q ELSE send_keyboard_report(s)
      /\ u = IF mods = {} THEN q ELSE send_keyboard_report(t)
  BY DEF register_mods, unregister_mods
<1> HIDE DEF r, u, s, t
<1>4. CASE mods = {}
  BY <1>3, <1>4 DEF r, u
<1>5. CASE mods # {}
  BY <1>1, <1>2, <1>3, <1>5, SendGrip DEF SameGrip, Used, r, u
<1> QED BY <1>4, <1>5

(* What the press of a key adds to it, by its action and tap.count.        *)
IsOneShot(a) == a.kind = "MODS_TAP" /\ a.code = MODS_ONESHOT
IsCancellable(a) == a.kind = "MODS_TAP" /\ a.code \notin TapModes

OfCode(code, part) ==
    CASE part = "keys"  -> {code} \cap KeyCodes
      [] part = "real"  -> {code} \cap Mods
      [] part = "usage" -> PagesOf(code)
      [] part \in {"weak", "layer"} -> {}

Only(part, q, S) == IF part = q THEN S ELSE {}

Load(a, n, part) ==
    CASE a.kind = "MODS" ->
            IF part = "weak" THEN a.mods ELSE OfCode(a.code, part)
      [] a.kind = "MODS_TAP" /\ a.code = MODS_ONESHOT ->
            IF n = 1 THEN {} ELSE Only(part, "real", a.mods)
      [] a.kind = "MODS_TAP" /\ a.code = MODS_TAP_TOGGLE ->
            Only(part, "real", a.mods)
      [] a.kind = "MODS_TAP" /\ a.code \notin TapModes ->
            IF n = 0 THEN Only(part, "real", a.mods) ELSE OfCode(a.code, part)
      [] a.kind = "USAGE" -> Only(part, "usage", {a.page})
      [] a.kind = "LAYER_TAP" ->
            IF n = 0 \/ a.code \in LayerModes THEN Only(part, "layer", {a.val})
            ELSE OfCode(a.code, part)
      [] a.kind = "LAYER_MODS" ->
            IF part = "layer" THEN {a.val} ELSE Only(part, "real", a.mods)
      [] OTHER -> {}

(* The press of a cancelled tap counts as no tap (Decided).                *)
Count(a, rec) ==
    IF IsCancellable(a) /\ rec.pressed /\ rec.interrupted THEN 0 ELSE rec.count

(* A modifier that was toggled by TAPPING_TOGGLE taps stays.               *)
Stays_On(a, n, part) ==
    part = "real" /\ a.kind = "MODS_TAP" /\ a.code = MODS_TAP_TOGGLE /\ n >= TAPPING_TOGGLE

(* A release undoes what its press did.                                    *)
Undone(a) ==
    /\ a.kind = "LAYER" => a.on = {}
    /\ a.kind = "LAYER_TAP" => a.code \notin {OP_TAP_TOGGLE, OP_OFF_ON}

Effect(q, r, a, rec) ==
    /\ Told(q) /\ (IsOneShot(a) => a.mods # {} /\ q.oneshot \in {{}, a.mods}) => Told(r)
    /\ r.oneshot \in {q.oneshot, {}} \/ (IsOneShot(a) /\ r.oneshot = a.mods)
    /\ \A part \in Parts :
          IF rec.pressed
          THEN Grip(r, part) \subseteq Grip(q, part) \cup Load(a, Count(a, rec), part)
          ELSE \/ Grip(r, part) \subseteq Grip(q, part) \ Load(a, rec.count, part)
               \/ Stays_On(a, rec.count, part) /\ Grip(r, part) \subseteq Grip(q, part)

LEMMA RecordBits ==
    ASSUME NEW rec \in Records
    PROVE  /\ rec.key \in Keys /\ rec.pressed \in BOOLEAN /\ rec.interrupted \in BOOLEAN
           /\ rec.count \in Nat /\ rec.count <= TapMax
BY TappingAssumption DEF Records

LEMMA OfCodes ==
    ASSUME NEW code
    PROVE  /\ OfCode(code, "keys") = {code} \cap KeyCodes
           /\ OfCode(code, "real") = {code} \cap Mods
           /\ OfCode(code, "usage") = PagesOf(code)
           /\ OfCode(code, "weak") = {} /\ OfCode(code, "layer") = {}
BY DEF OfCode

LEMMA Grips ==
    ASSUME NEW q
    PROVE  /\ Grip(q, "keys") = q.keys /\ Grip(q, "real") = q.real
           /\ Grip(q, "weak") = q.weak /\ Grip(q, "layer") = q.layer
           /\ Grip(q, "usage") = Used(q)
BY DEF Grip

LEMMA ModsEffect ==
    ASSUME NEW q \in Kb, NEW rec \in Records, NEW a \in Actions, a.kind = "MODS"
    PROVE  Effect(q, ProcessMods(q, a, rec.pressed), a, rec)
<1> DEFINE r == ProcessMods(q, a, rec.pressed)
<1>1. a.mods \in SUBSET Mods /\ rec.pressed \in BOOLEAN /\ ~IsOneShot(a) /\ ~IsCancellable(a)
  BY ActionFields, RecordBits DEF IsOneShot, IsCancellable
<1>2. \A n : /\ Load(a, n, "keys") = {a.code} \cap KeyCodes
             /\ Load(a, n, "real") = {a.code} \cap Mods
             /\ Load(a, n, "usage") = PagesOf(a.code)
             /\ Load(a, n, "weak") = a.mods /\ Load(a, n, "layer") = {}
  BY OfCodes DEF Load
<1>3. CASE rec.pressed
  <2> DEFINE s == [q EXCEPT !.weak = @ \cup a.mods]
             t == IF a.mods = {} THEN q ELSE send_keyboard_report(s)
  <2>1. /\ s \in Kb /\ s.keys = q.keys /\ s.real = q.real /\ s.weak = q.weak \cup a.mods
        /\ s.layer = q.layer /\ s.usage = q.usage /\ s.oneshot = q.oneshot
    BY <1>1 DEF Kb
  <2> HIDE DEF s
  <2>2. /\ t \in Kb /\ t.keys = q.keys /\ t.real = q.real /\ t.weak = q.weak \cup a.mods
        /\ t.layer = q.layer /\ Used(t) = Used(q) /\ t.oneshot \in {q.oneshot, {}}
        /\ Told(q) => Told(t)
    BY <2>1, SendGrip DEF SameGrip, Used
  <2>3. r = register_code(t, a.code)
    BY <1>3 DEF ProcessMods, s
  <2> HIDE DEF t, r
  <2>4. /\ r.keys = q.keys \cup ({a.code} \cap KeyCodes)
        /\ r.real = q.real \cup ({a.code} \cap Mods)
        /\ r.weak = q.weak \cup a.mods /\ r.layer = q.layer
        /\ Used(r) \subseteq Used(q) \cup PagesOf(a.code)
        /\ Told(q) => Told(r)
        /\ r.oneshot \in {q.oneshot, {}}
    BY <2>2, <2>3, RegisterGrip
  <2> DEFINE n == Count(a, rec)
  <2>5. \A part \in Parts : Grip(r, part) \subseteq Grip(q, part) \cup Load(a, n, part)
    <3> HIDE DEF n
    <3> QED BY <1>2, <2>4, Grips DEF Parts
  <2> QED BY <1>1, <1>3, <2>4, <2>5 DEF Effect, r
<1>4. CASE ~rec.pressed
  <2> DEFINE u == unregister_code(q, a.code)
             s == [u EXCEPT !.weak = @ \ a.mods]
  <2>1. /\ u \in Kb
        /\ u.keys = q.keys \ {a.code} /\ u.real = q.real \ {a.code}
        /\ u.weak = q.weak /\ u.layer = q.layer
        /\ Used(u) = Used(q) \ PagesOf(a.code)
        /\ Told(q) => Told(u)
        /\ u.oneshot \in {q.oneshot, {}}
    BY UnregisterGrip
  <2> HIDE DEF u
  <2>2. /\ s \in Kb /\ s.keys = u.keys /\ s.real = u.real /\ s.weak = u.weak \ a.mods
        /\ s.layer = u.layer /\ s.usage = u.usage /\ s.oneshot = u.oneshot
    BY <1>1, <2>1 DEF Kb
  <2>3. r = IF a.mods = {} THEN u ELSE send_keyboard_report(s)
    BY <1>4 DEF ProcessMods, u
  <2> HIDE DEF s, r
  <2>4. /\ r.keys = q.keys \ {a.code} /\ r.real = q.real \ {a.code}
        /\ r.weak = q.weak \ a.mods /\ r.layer = q.layer
        /\ Used(r) = Used(q) \ PagesOf(a.code)
        /\ Told(q) => Told(r)
        /\ r.oneshot \in {q.oneshot, {}}
    <3>1. Used(s) = Used(u)
      BY <2>2 DEF Used
    <3>2. CASE a.mods = {}
      BY <2>1, <2>3, <3>2
    <3>3. CASE a.mods # {}
      BY <2>1, <2>2, <2>3, <3>1, <3>3, SendGrip DEF SameGrip, Used
    <3> QED BY <3>2, <3>3
  <2> QED BY <1>1, <1>2, <1>4, <2>4, Grips DEF Effect, Parts, r
<1> QED BY <1>1, <1>3, <1>4

LEMMA OneShotEffect ==
    ASSUME NEW q \in Kb, NEW rec \in Records, NEW a \in Actions, IsOneShot(a)
    PROVE  Effect(q, ProcessOneShot(q, a.mods, rec), a, rec)
<1> DEFINE r == ProcessOneShot(q, a.mods, rec)
           s == [q EXCEPT !.oneshot = a.mods]
           t == [q EXCEPT !.oneshot = {}]
<1>1. /\ a.mods \in SUBSET Mods /\ rec.pressed \in BOOLEAN /\ rec.count \in Nat
      /\ ~IsCancellable(a) /\ a.kind = "MODS_TAP" /\ a.code = MODS_ONESHOT
  BY ActionFields, RecordBits DEF IsOneShot, IsCancellable, TapModes
<1>2. \A n, part : Load(a, n, part) = IF n = 1 THEN {} ELSE Only(part, "real", a.mods)
  BY <1>1 DEF Load, MODS_ONESHOT, MODS_TAP_TOGGLE, TapModes
<1>3. \A S : /\ Only("real", "real", S) = S /\ Only("keys", "real", S) = {}
             /\ Only("usage", "real", S) = {} /\ Only("weak", "real", S) = {}
             /\ Only("layer", "real", S) = {}
  BY DEF Only
<1>4. /\ s \in Kb /\ s.keys = q.keys /\ s.real = q.real /\ s.weak = q.weak
      /\ s.layer = q.layer /\ s.usage = q.usage /\ s.oneshot = a.mods /\ s.host = q.host
  BY <1>1 DEF Kb
<1>5. /\ t \in Kb /\ t.keys = q.keys /\ t.real = q.real /\ t.weak = q.weak
      /\ t.layer = q.layer /\ t.usage = q.usage /\ t.oneshot = {} /\ t.host = q.host
  BY DEF Kb
<1>6. Used(s) = Used(q) /\ Used(t) = Used(q)
  BY <1>4, <1>5 DEF Used
<1>7. r = IF rec.pressed THEN IF rec.count = 1 THEN s ELSE register_mods(q, a.mods)
          ELSE IF rec.count = 1 THEN q ELSE unregister_mods(t, a.mods)
  BY <1>1 DEF ProcessOneShot
<1>8. Count(a, rec) = rec.count
  BY <1>1 DEF Count
<1> HIDE DEF r, s, t
<1>9. CASE rec.pressed /\ rec.count = 1
  <2>1. Told(q) /\ q.oneshot \in {{}, a.mods} => Told(s)
    BY <1>4 DEF Told
  <2> QED BY <1>1, <1>2, <1>4, <1>6, <1>7, <1>8, <1>9, <2>1, Grips DEF Effect, Parts, r
<1>10. CASE rec.pressed /\ rec.count # 1
  <2>1. /\ r.keys = q.keys /\ r.real = q.real \cup a.mods /\ r.weak = q.weak
        /\ r.layer = q.layer /\ Used(r) = Used(q) /\ r.oneshot \in {q.oneshot, {}}
        /\ Told(q) => Told(r)
    BY <1>1, <1>7, <1>10, ModsGrip
  <2> QED BY <1>1, <1>2, <1>3, <1>8, <1>10, <2>1, Grips DEF Effect, Parts, r
<1>11. CASE ~rec.pressed /\ rec.count = 1
  BY <1>1, <1>2, <1>7, <1>11, Grips DEF Effect, Parts, r
<1>12. CASE ~rec.pressed /\ rec.count # 1
  <2>1. /\ r.keys = q.keys /\ r.real = q.real \ a.mods /\ r.weak = q.weak
        /\ r.layer = q.layer /\ Used(r) = Used(q) /\ r.oneshot \in {q.oneshot, {}}
        /\ a.mods # {} => Told(r)
    BY <1>1, <1>5, <1>6, <1>7, <1>12, ModsGrip
  <2> QED BY <1>1, <1>2, <1>3, <1>12, <2>1, Grips DEF Effect, Parts, r
<1> QED BY <1>1, <1>9, <1>10, <1>11, <1>12 DEF r

LEMMA TapToggleEffect ==
    ASSUME NEW q \in Kb, NEW rec \in Records, NEW a \in Actions,
           a.kind = "MODS_TAP", a.code = MODS_TAP_TOGGLE, TAPPING_TOGGLE \in Nat
    PROVE  Effect(q, ProcessTapToggle(q, a.mods, rec), a, rec)
<1> DEFINE r == ProcessTapToggle(q, a.mods, rec)
<1>1. /\ a.mods \in SUBSET Mods /\ rec.pressed \in BOOLEAN /\ rec.count \in Nat
      /\ ~IsCancellable(a) /\ ~IsOneShot(a)
  BY ActionFields, RecordBits DEF IsOneShot, IsCancellable, TapModes, MODS_TAP_TOGGLE, MODS_ONESHOT
<1>2. \A n, part : Load(a, n, part) = Only(part, "real", a.mods)
  BY DEF Load, MODS_ONESHOT, MODS_TAP_TOGGLE, TapModes
<1>3. \A S : /\ Only("real", "real", S) = S /\ Only("keys", "real", S) = {}
             /\ Only("usage", "real", S) = {} /\ Only("weak", "real", S) = {}
             /\ Only("layer", "real", S) = {}
  BY DEF Only
<1>4. /\ rec.pressed => r \in {q, register_mods(q, a.mods), unregister_mods(q, a.mods)}
      /\ ~rec.pressed => r = IF rec.count < TAPPING_TOGGLE THEN unregister_mods(q, a.mods) ELSE q
  <2>1. /\ rec.pressed /\ rec.count <= TAPPING_TOGGLE =>
             r = IF a.mods \cap q.real # {} THEN unregister_mods(q, a.mods)
                 ELSE register_mods(q, a.mods)
        /\ ~rec.pressed /\ rec.count < TAPPING_TOGGLE => r = unregister_mods(q, a.mods)
        /\ rec.pressed /\ ~(rec.count <= TAPPING_TOGGLE) => r = q
        /\ ~rec.pressed /\ ~(rec.count < TAPPING_TOGGLE) => r = q
    <3> DEFINE u == unregister_mods(q, a.mods)
               w == IF a.mods \cap q.real # {} THEN unregister_mods(q, a.mods)
                    ELSE register_mods(q, a.mods)
    <3>1. r = CASE rec.pressed /\ rec.count <= TAPPING_TOGGLE -> w
                [] ~rec.pressed /\ rec.count < TAPPING_TOGGLE -> u
                [] OTHER -> q
      BY DEF ProcessTapToggle
    <3> HIDE DEF r, u, w
    <3> QED BY <1>1, <3>1 DEF u, w
  <2> HIDE DEF r
  <2> QED BY <1>1, <2>1
<1>5. Count(a, rec) = rec.count
  BY <1>1 DEF Count
<1> HIDE DEF r
<1>6. \A x \in {register_mods(q, a.mods), unregister_mods(q, a.mods)} :
        /\ x.keys = q.keys /\ x.weak = q.weak /\ x.layer = q.layer
        /\ Used(x) = Used(q) /\ x.oneshot \in {q.oneshot, {}}
        /\ Told(q) => Told(x)
        /\ x.real \subseteq q.real \cup a.mods
        /\ x = unregister_mods(q, a.mods) => x.real = q.real \ a.mods
  <2>1. /\ register_mods(q, a.mods).real = q.real \cup a.mods
        /\ unregister_mods(q, a.mods).real = q.real \ a.mods
    BY <1>1, ModsGrip
  <2> QED BY <1>1, <2>1, ModsGrip
<1>7. CASE rec.pressed
  <2>1. /\ r.keys = q.keys /\ r.weak = q.weak /\ r.layer = q.layer
        /\ Used(r) = Used(q) /\ r.oneshot \in {q.oneshot, {}}
        /\ Told(q) => Told(r)
        /\ r.real \subseteq q.real \cup a.mods
    BY <1>4, <1>6, <1>7
  <2> QED BY <1>1, <1>2, <1>3, <1>5, <1>7, <2>1, Grips DEF Effect, Parts, r
<1>8. CASE ~rec.pressed
  <2>1. /\ r.keys = q.keys /\ r.weak = q.weak /\ r.layer = q.layer
        /\ Used(r) = Used(q) /\ r.oneshot \in {q.oneshot, {}}
        /\ Told(q) => Told(r)
        /\ r.real \subseteq q.real
        /\ rec.count < TAPPING_TOGGLE => r.real = q.real \ a.mods
    BY <1>4, <1>6, <1>8
  <2>2. rec.count >= TAPPING_TOGGLE => Stays_On(a, rec.count, "real")
    BY DEF Stays_On
  <2> QED BY <1>1, <1>2, <1>3, <1>8, <2>1, <2>2, Grips DEF Effect, Parts, r
<1> QED BY <1>1, <1>7, <1>8 DEF r

LEMMA OnlyParts ==
    ASSUME NEW S
    PROVE  /\ Only("real", "real", S) = S /\ Only("keys", "real", S) = {}
           /\ Only("usage", "real", S) = {} /\ Only("weak", "real", S) = {}
           /\ Only("layer", "real", S) = {}
           /\ Only("layer", "layer", S) = S /\ Only("keys", "layer", S) = {}
           /\ Only("usage", "layer", S) = {} /\ Only("weak", "layer", S) = {}
           /\ Only("real", "layer", S) = {}
           /\ Only("usage", "usage", S) = S /\ Only("keys", "usage", S) = {}
           /\ Only("layer", "usage", S) = {} /\ Only("weak", "usage", S) = {}
           /\ Only("real", "usage", S) = {}
BY DEF Only

(* Code, modifiers or layer: what a tap key does when it is a tap.         *)
LEMMA CodeGrip ==
    ASSUME NEW q \in Kb, NEW code
    PROVE  LET r == register_code(q, code)
               u == unregister_code(q, code)
           IN  \A part \in Parts :
                 /\ Grip(r, part) \subseteq Grip(q, part) \cup OfCode(code, part)
                 /\ Grip(u, part) \subseteq Grip(q, part) \ OfCode(code, part)
<1> DEFINE r == register_code(q, code)
           u == unregister_code(q, code)
<1>1. /\ r.keys = q.keys \cup ({code} \cap KeyCodes)
      /\ r.real = q.real \cup ({code} \cap Mods)
      /\ r.weak = q.weak /\ r.layer = q.layer
      /\ Used(r) \subseteq Used(q) \cup PagesOf(code)
  BY RegisterGrip
<1>2. /\ u.keys = q.keys \ {code} /\ u.real = q.real \ {code}
      /\ u.weak = q.weak /\ u.layer = q.layer
      /\ Used(u) = Used(q) \ PagesOf(code)
  BY UnregisterGrip
<1> HIDE DEF r, u
<1>3. \A part \in Parts : Grip(r, part) \subseteq Grip(q, part) \cup OfCode(code, part)
  BY <1>1, Grips, OfCodes DEF Parts
<1>4. \A part \in Parts : Grip(u, part) \subseteq Grip(q, part) \ OfCode(code, part)
  BY <1>2, Grips, OfCodes DEF Parts
<1> QED BY <1>3, <1>4 DEF r, u

LEMMA HeldGrip ==
    ASSUME NEW q \in Kb, NEW mods \in SUBSET Mods
    PROVE  LET r == register_mods(q, mods)
               u == unregister_mods(q, mods)
           IN  \A part \in Parts :
                 /\ Grip(r, part) \subseteq Grip(q, part) \cup Only(part, "real", mods)
                 /\ Grip(u, part) \subseteq Grip(q, part) \ Only(part, "real", mods)
<1> DEFINE r == register_mods(q, mods)
           u == unregister_mods(q, mods)
<1>1. /\ r.keys = q.keys /\ u.keys = q.keys
      /\ r.real = q.real \cup mods /\ u.real = q.real \ mods
      /\ r.weak = q.weak /\ u.weak = q.weak
      /\ r.layer = q.layer /\ u.layer = q.layer
      /\ Used(r) = Used(q) /\ Used(u) = Used(q)
  BY ModsGrip
<1> HIDE DEF r, u
<1>2. \A part \in Parts : /\ Grip(r, part) \subseteq Grip(q, part) \cup Only(part, "real", mods)
                          /\ Grip(u, part) \subseteq Grip(q, part) \ Only(part, "real", mods)
  BY <1>1, Grips, OnlyParts DEF Parts
<1> QED BY <1>2 DEF r, u

LEMMA GripOfLayer ==
    ASSUME NEW q \in Kb, NEW val \in Layers, NEW pressed \in BOOLEAN, NEW r,
           pressed => r \in {layer_on(q, val), layer_move(q, val)},
           ~pressed => r \in {layer_off(q, val), layer_clear(q)}
    PROVE  /\ r.oneshot = q.oneshot /\ (Told(q) => Told(r))
           /\ \A part \in Parts :
                 /\ Grip(r, part) \subseteq Grip(q, part) \cup Only(part, "layer", {val})
                 /\ ~pressed => Grip(r, part) \subseteq Grip(q, part) \ Only(part, "layer", {val})
<1>1. /\ r \in Kb /\ r.keys = q.keys /\ r.real = q.real /\ r.weak = q.weak /\ r.usage = q.usage
      /\ r.host = q.host /\ r.oneshot = q.oneshot
      /\ r.layer \subseteq q.layer \cup {val}
      /\ ~pressed => r.layer \subseteq q.layer \ {val}
  <2>1. CASE pressed /\ r = layer_on(q, val)
    BY <2>1, LayerOpsType DEF layer_on, Kb
  <2>2. CASE pressed /\ r = layer_move(q, val)
    BY <2>2, LayerOpsType DEF layer_move, Kb
  <2>3. CASE ~pressed /\ r = layer_off(q, val)
    BY <2>3, LayerOpsType DEF layer_off, Kb
  <2>4. CASE ~pressed /\ r = layer_clear(q)
    BY <2>4, LayerOpsType DEF layer_clear, Kb
  <2> QED BY <2>1, <2>2, <2>3, <2>4
<1>2. Used(r) = Used(q) /\ (Told(q) => Told(r))
  BY <1>1 DEF Used, Told
<1>3. \A part \in Parts : Grip(r, part) \subseteq Grip(q, part) \cup Only(part, "layer", {val})
  BY <1>1, <1>2, Grips, OnlyParts DEF Parts
<1>4. ~pressed =>
         \A part \in Parts : Grip(r, part) \subseteq Grip(q, part) \ Only(part, "layer", {val})
  BY <1>1, <1>2, Grips, OnlyParts DEF Parts
<1> QED BY <1>1, <1>2, <1>3, <1>4

LEMMA ModsTapEffect ==
    ASSUME NEW q \in Kb, NEW rec \in Records, NEW a \in Actions, IsCancellable(a)
    PROVE  Effect(q, ProcessModsTap(q, a, rec), a, rec)
<1> DEFINE r == ProcessModsTap(q, a, rec)
<1>1. /\ a.mods \in SUBSET Mods /\ rec.pressed \in BOOLEAN /\ rec.count \in Nat
      /\ rec.interrupted \in BOOLEAN /\ ~IsOneShot(a)
      /\ a.kind = "MODS_TAP" /\ a.code \notin TapModes
  BY ActionFields, RecordBits DEF IsOneShot, IsCancellable, TapModes
<1>2. \A n, part : Load(a, n, part) =
                     IF n = 0 THEN Only(part, "real", a.mods) ELSE OfCode(a.code, part)
  BY <1>1 DEF Load, TapModes
<1>3. Count(a, rec) = IF rec.pressed /\ rec.interrupted THEN 0 ELSE rec.count
  BY DEF Count
<1>4. r = IF rec.pressed
          THEN IF rec.count > 0 /\ ~rec.interrupted THEN register_code(q, a.code)
               ELSE register_mods(q, a.mods)
          ELSE IF rec.count > 0 THEN unregister_code(q, a.code) ELSE unregister_mods(q, a.mods)
  BY <1>1 DEF ProcessModsTap
<1> HIDE DEF r
<1>5. r.oneshot \in {q.oneshot, {}} /\ (Told(q) => Told(r))
  BY <1>1, <1>4, RegisterGrip, UnregisterGrip, ModsGrip
<1>6. \A part \in Parts :
        /\ rec.pressed => Grip(r, part) \subseteq Grip(q, part) \cup Load(a, Count(a, rec), part)
        /\ ~rec.pressed => Grip(r, part) \subseteq Grip(q, part) \ Load(a, rec.count, part)
  BY <1>1, <1>2, <1>3, <1>4, CodeGrip, HeldGrip
<1> QED BY <1>1, <1>5, <1>6 DEF Effect, r

LEMMA LayerTapEffect ==
    ASSUME NEW q \in Kb, NEW rec \in Records, NEW a \in Actions,
           a.kind = "LAYER_TAP", Undone(a)
    PROVE  Effect(q, ProcessLayerTap(q, a, rec), a, rec)
<1> DEFINE r == ProcessLayerTap(q, a, rec)
<1>1. /\ a.val \in Layers /\ rec.pressed \in BOOLEAN /\ rec.count \in Nat
      /\ ~IsCancellable(a) /\ ~IsOneShot(a)
      /\ a.code \notin {OP_TAP_TOGGLE, OP_OFF_ON}
  BY ActionFields, RecordBits DEF IsOneShot, IsCancellable, Undone
<1>2. \A n, part : Load(a, n, part) =
                     IF n = 0 \/ a.code \in LayerModes THEN Only(part, "layer", {a.val})
                     ELSE OfCode(a.code, part)
  BY DEF Load
<1>3. Count(a, rec) = rec.count
  BY <1>1 DEF Count
<1>4. r = CASE a.code = OP_ON_OFF ->
                 IF rec.pressed THEN layer_on(q, a.val) ELSE layer_off(q, a.val)
            [] a.code = OP_SET_CLEAR ->
                 IF rec.pressed THEN layer_move(q, a.val) ELSE layer_clear(q)
            [] a.code \notin LayerModes ->
                 IF rec.pressed
                 THEN IF rec.count > 0 THEN register_code(q, a.code) ELSE layer_on(q, a.val)
                 ELSE IF rec.count > 0 THEN unregister_code(q, a.code) ELSE layer_off(q, a.val)
  BY <1>1 DEF ProcessLayerTap, LayerModes, OP_TAP_TOGGLE, OP_ON_OFF, OP_OFF_ON, OP_SET_CLEAR
<1> HIDE DEF r
<1>5. CASE a.code \in LayerModes
  <2>1. /\ rec.pressed => r \in {layer_on(q, a.val), layer_move(q, a.val)}
        /\ ~rec.pressed => r \in {layer_off(q, a.val), layer_clear(q)}
    BY <1>1, <1>4, <1>5 DEF LayerModes, OP_TAP_TOGGLE, OP_ON_OFF, OP_OFF_ON, OP_SET_CLEAR
  <2>3. /\ r.oneshot = q.oneshot /\ (Told(q) => Told(r))
        /\ \A part \in Parts :
             /\ Grip(r, part) \subseteq Grip(q, part) \cup Only(part, "layer", {a.val})
             /\ ~rec.pressed => Grip(r, part) \subseteq Grip(q, part) \ Only(part, "layer", {a.val})
    BY <1>1, <2>1, GripOfLayer
  <2> QED BY <1>1, <1>2, <1>5, <2>3 DEF Effect, r
<1>6. CASE a.code \notin LayerModes
  <2>1. r = IF rec.pressed
            THEN IF rec.count > 0 THEN register_code(q, a.code) ELSE layer_on(q, a.val)
            ELSE IF rec.count > 0 THEN unregister_code(q, a.code) ELSE layer_off(q, a.val)
    BY <1>4, <1>6 DEF LayerModes, OP_TAP_TOGGLE, OP_ON_OFF, OP_OFF_ON, OP_SET_CLEAR
  <2>2. CASE rec.count > 0
    <3>1. /\ r.oneshot \in {q.oneshot, {}} /\ (Told(q) => Told(r))
      BY <2>1, <2>2, RegisterGrip, UnregisterGrip
    <3>2. \A part \in Parts :
            /\ rec.pressed => Grip(r, part) \subseteq Grip(q, part) \cup OfCode(a.code, part)
            /\ ~rec.pressed => Grip(r, part) \subseteq Grip(q, part) \ OfCode(a.code, part)
      BY <2>1, <2>2, CodeGrip
    <3>3. \A part : Load(a, rec.count, part) = OfCode(a.code, part)
      BY <1>1, <1>2, <1>6, <2>2
    <3> QED BY <1>1, <1>3, <3>1, <3>2, <3>3 DEF Effect, r
  <2>3. CASE rec.count = 0
    <3>1. r = IF rec.pressed THEN layer_on(q, a.val) ELSE layer_off(q, a.val)
      BY <2>1, <2>3
    <3>2. /\ r.oneshot = q.oneshot /\ (Told(q) => Told(r))
          /\ \A part \in Parts :
               /\ Grip(r, part) \subseteq Grip(q, part) \cup Only(part, "layer", {a.val})
               /\ ~rec.pressed => Grip(r, part) \subseteq Grip(q, part) \ Only(part, "layer", {a.val})
      <4>1. /\ rec.pressed => r \in {layer_on(q, a.val), layer_move(q, a.val)}
            /\ ~rec.pressed => r \in {layer_off(q, a.val), layer_clear(q)}
        BY <3>1
      <4> QED BY <1>1, <4>1, GripOfLayer
    <3>3. \A part : Load(a, rec.count, part) = Only(part, "layer", {a.val})
      BY <1>2, <2>3
    <3> QED BY <1>1, <1>3, <3>2, <3>3 DEF Effect, r
  <2> QED BY <1>1, <2>2, <2>3
<1> QED BY <1>5, <1>6

LEMMA LayerModsEffect ==
    ASSUME NEW q \in Kb, NEW rec \in Records, NEW a \in Actions, a.kind = "LAYER_MODS"
    PROVE  Effect(q, ProcessLayerMods(q, a, rec.pressed), a, rec)
<1> DEFINE r == ProcessLayerMods(q, a, rec.pressed)
           s == layer_on(q, a.val)
           t == layer_off(q, a.val)
<1>1. /\ a.val \in Layers /\ a.mods \in SUBSET Mods /\ rec.pressed \in BOOLEAN
      /\ ~IsCancellable(a) /\ ~IsOneShot(a)
  BY ActionFields, RecordBits DEF IsOneShot, IsCancellable
<1>2. \A n, part : Load(a, n, part) =
                     IF part = "layer" THEN {a.val} ELSE Only(part, "real", a.mods)
  BY DEF Load
<1>3. \A n : /\ Load(a, n, "layer") = {a.val} /\ Load(a, n, "real") = a.mods
             /\ Load(a, n, "keys") = {} /\ Load(a, n, "weak") = {} /\ Load(a, n, "usage") = {}
  BY <1>2, OnlyParts
<1>4. /\ s \in Kb /\ s.keys = q.keys /\ s.real = q.real /\ s.weak = q.weak /\ s.usage = q.usage
      /\ s.host = q.host /\ s.oneshot = q.oneshot /\ s.layer = q.layer \cup {a.val}
      /\ t \in Kb /\ t.keys = q.keys /\ t.real = q.real /\ t.weak = q.weak /\ t.usage = q.usage
      /\ t.host = q.host /\ t.oneshot = q.oneshot /\ t.layer = q.layer \ {a.val}
  BY <1>1, LayerOpsType DEF layer_on, layer_off, Kb
<1>5. r = IF rec.pressed THEN register_mods(s, a.mods) ELSE unregister_mods(t, a.mods)
  BY DEF ProcessLayerMods
<1> HIDE DEF r, s, t
<1>6. /\ Used(s) = Used(q) /\ Used(t) = Used(q)
      /\ Told(q) => Told(s) /\ Told(t)
  BY <1>4 DEF Used, Told
<1>7. /\ r.keys = q.keys /\ r.weak = q.weak /\ Used(r) = Used(q)
      /\ r.oneshot \in {q.oneshot, {}} /\ (Told(q) => Told(r))
      /\ rec.pressed => r.real = q.real \cup a.mods /\ r.layer = q.layer \cup {a.val}
      /\ ~rec.pressed => r.real = q.real \ a.mods /\ r.layer = q.layer \ {a.val}
  BY <1>1, <1>4, <1>5, <1>6, ModsGrip
<1>8. \A n : \A part \in Parts :
        /\ rec.pressed => Grip(r, part) \subseteq Grip(q, part) \cup Load(a, n, part)
        /\ ~rec.pressed => Grip(r, part) \subseteq Grip(q, part) \ Load(a, n, part)
  BY <1>1, <1>3, <1>7, Grips DEF Parts
<1> QED BY <1>1, <1>7, <1>8 DEF Effect, r

LEMMA UsageEffect ==
    ASSUME NEW q \in Kb, NEW rec \in Records, NEW a \in Actions, a.kind = "USAGE"
    PROVE  Effect(q, host_send(q, a.page, IF rec.pressed THEN a.code ELSE KC_NO), a, rec)
<1> DEFINE r == host_send(q, a.page, IF rec.pressed THEN a.code ELSE KC_NO)
<1>1. /\ a.page \in Pages /\ a.code \in Codes /\ KC_NO \in Codes /\ rec.pressed \in BOOLEAN
      /\ ~IsCancellable(a) /\ ~IsOneShot(a)
  BY ActionFields, RecordBits DEF IsOneShot, IsCancellable, Codes
<1>2. \A n, part : Load(a, n, part) = Only(part, "usage", {a.page})
  BY DEF Load
<1>3. /\ r.keys = q.keys /\ r.real = q.real /\ r.weak = q.weak
      /\ r.layer = q.layer /\ r.oneshot = q.oneshot /\ r.host = q.host
      /\ Used(r) \subseteq Used(q) \cup {a.page}
      /\ ~rec.pressed => Used(r) = Used(q) \ {a.page}
  BY <1>1, HostSendGrip
<1> HIDE DEF r
<1>4. Told(q) => Told(r)
  BY <1>3 DEF Told
<1>5. \A n : \A part \in Parts :
        /\ rec.pressed => Grip(r, part) \subseteq Grip(q, part) \cup Load(a, n, part)
        /\ ~rec.pressed => Grip(r, part) \subseteq Grip(q, part) \ Load(a, n, part)
  BY <1>1, <1>2, <1>3, Grips, OnlyParts DEF Parts
<1> QED BY <1>1, <1>3, <1>4, <1>5 DEF Effect, r

LEMMA LayerEffect ==
    ASSUME NEW q \in Kb, NEW rec \in Records, NEW a \in Actions, a.kind = "LAYER", Undone(a)
    PROVE  Effect(q, ProcessLayer(q, a, rec.pressed), a, rec)
<1> DEFINE r == ProcessLayer(q, a, rec.pressed)
<1>1. rec.pressed \in BOOLEAN /\ ~IsCancellable(a) /\ ~IsOneShot(a) /\ a.on = {}
  BY RecordBits DEF IsOneShot, IsCancellable, Undone
<1>2. \A n, part : Load(a, n, part) = {}
  BY DEF Load
<1>3. /\ r.keys = q.keys /\ r.real = q.real /\ r.weak = q.weak /\ r.usage = q.usage
      /\ r.layer = q.layer /\ r.oneshot = q.oneshot /\ r.host = q.host
  BY <1>1 DEF ProcessLayer, Kb
<1> HIDE DEF r
<1>4. (Told(q) => Told(r)) /\ Used(r) = Used(q)
  BY <1>3 DEF Told, Used
<1>5. \A part \in Parts : Grip(r, part) = Grip(q, part)
  BY <1>3, <1>4, Grips DEF Parts
<1> QED BY <1>1, <1>2, <1>3, <1>4, <1>5 DEF Effect, r

LEMMA ActionEffect ==
    ASSUME NEW q \in Kb, NEW rec \in Records, TAPPING_TOGGLE \in Nat,
           Undone(layer_switch_get_action(q, rec))
    PROVE  Effect(q, process_action(q, rec), layer_switch_get_action(q, rec), rec)
<1> DEFINE a == layer_switch_get_action(q, rec)
           t == Track(q, rec)
           r == process_action(q, rec)
<1>1. rec.key \in Keys /\ rec.pressed \in BOOLEAN
  BY RecordBits
<1>2. a \in Actions /\ t \in Kb
  BY <1>1, GetActionType, TrackType
<1>3. r = CASE a.kind = "MODS"       -> ProcessMods(t, a, rec.pressed)
          [] a.kind = "MODS_TAP" /\ a.code = MODS_ONESHOT ->
                ProcessOneShot(t, a.mods, rec)
          [] a.kind = "MODS_TAP" /\ a.code = MODS_TAP_TOGGLE ->
                ProcessTapToggle(t, a.mods, rec)
          [] a.kind = "MODS_TAP" /\ a.code \notin {MODS_ONESHOT, MODS_TAP_TOGGLE} ->
                ProcessModsTap(t, a, rec)
          [] a.kind = "USAGE"      ->
                host_send(t, a.page, IF rec.pressed THEN a.code ELSE KC_NO)
          [] a.kind = "LAYER"      -> ProcessLayer(t, a, rec.pressed)
          [] a.kind = "LAYER_TAP"  -> ProcessLayerTap(t, a, rec)
          [] a.kind = "LAYER_MODS" -> ProcessLayerMods(t, a, rec.pressed)
          [] OTHER                 -> t
  BY DEF process_action
<1>4. /\ t.keys = q.keys /\ t.real = q.real /\ t.weak = q.weak /\ t.usage = q.usage
      /\ t.layer = q.layer /\ t.oneshot = q.oneshot /\ t.host = q.host
  BY <1>1 DEF Track, Kb
<1>5. Undone(a)
  OBVIOUS
<1> SUFFICES Effect(q, r, a, rec)
  OBVIOUS
<1> HIDE DEF a, t, r
<1>6. /\ Told(q) => Told(t)
      /\ \A part \in Parts : Grip(t, part) = Grip(q, part)
  <2>1. Used(t) = Used(q)
    BY <1>4 DEF Used
  <2> QED BY <1>4, <2>1, Grips DEF Told, Parts
<1>7. ASSUME Effect(t, r, a, rec) PROVE Effect(q, r, a, rec)
  BY <1>4, <1>6, <1>7 DEF Effect
<1>8. CASE a.kind = "MODS"
  BY <1>2, <1>3, <1>7, <1>8, ModsEffect
<1>9. CASE IsOneShot(a)
  <2>1. r = ProcessOneShot(t, a.mods, rec)
    BY <1>3, <1>9 DEF IsOneShot, MODS_ONESHOT, MODS_TAP_TOGGLE
  <2> QED BY <1>2, <1>7, <1>9, <2>1, OneShotEffect
<1>10. CASE a.kind = "MODS_TAP" /\ a.code = MODS_TAP_TOGGLE
  <2>1. r = ProcessTapToggle(t, a.mods, rec)
    BY <1>3, <1>10 DEF MODS_ONESHOT, MODS_TAP_TOGGLE
  <2> QED BY <1>2, <1>7, <1>10, <2>1, TapToggleEffect
<1>11. CASE IsCancellable(a)
  <2>1. r = ProcessModsTap(t, a, rec)
    BY <1>3, <1>11 DEF IsCancellable, TapModes, MODS_ONESHOT, MODS_TAP_TOGGLE
  <2> QED BY <1>2, <1>7, <1>11, <2>1, ModsTapEffect
<1>12. CASE a.kind = "USAGE"
  BY <1>2, <1>3, <1>7, <1>12, UsageEffect
<1>13. CASE a.kind = "LAYER"
  BY <1>2, <1>3, <1>5, <1>7, <1>13, LayerEffect
<1>14. CASE a.kind = "LAYER_TAP"
  BY <1>2, <1>3, <1>5, <1>7, <1>14, LayerTapEffect
<1>15. CASE a.kind = "LAYER_MODS"
  BY <1>2, <1>3, <1>7, <1>15, LayerModsEffect
<1>16. CASE a.kind \notin {"MODS", "MODS_TAP", "USAGE", "LAYER", "LAYER_TAP", "LAYER_MODS"}
  <2>1. r = t /\ ~IsOneShot(a)
    BY <1>3, <1>16 DEF IsOneShot
  <2>2. \A n, part : Load(a, n, part) = {}
    BY <1>16 DEF Load
  <2> QED BY <1>1, <1>4, <1>6, <2>1, <2>2 DEF Effect
<1> QED BY <1>8, <1>9, <1>10, <1>11, <1>12, <1>13, <1>14, <1>15, <1>16
        DEF IsOneShot, IsCancellable, TapModes

(* The keymaps in which every release undoes what its press did: no        *)
(* layer is left switched or toggled by a key (Undone), the one-shot keys  *)
(* have the same modifiers, and a key whose tap can be cancelled has       *)
(* one action, whatever layers are on.                                     *)
Undoes ==
    \A name \in DOMAIN KeyMaps : \A l \in Layers : \A k \in Keys :
        LET a == KeyMaps[name][l][k]
        IN  /\ Undone(a)
            /\ IsOneShot(a) =>
                  /\ a.mods # {}
                  /\ \A m \in Layers : \A j \in Keys :
                        IsOneShot(KeyMaps[name][m][j]) => KeyMaps[name][m][j].mods = a.mods
            /\ IsCancellable(a) =>
                  l = 0 /\ \A m \in Layers \ {0} : KeyMaps[name][m][k] = Transparent

Sound(q) ==
    /\ q \in Kb /\ Told(q)
    /\ \A k \in Keys : \A a \in ActionsOf(q, k) :
          /\ IsOneShot(a) => q.oneshot \in {{}, a.mods}
          /\ IsCancellable(a) => q.pressed[k] = 0

(* What a key does while it is down: the action of its recorded layer.     *)
DoesAt(q, k) == action_for_key(q, q.pressed[k], k)

LEMMA DoesAction ==
    ASSUME NEW q \in Kb, NEW k \in Keys
    PROVE  DoesAt(q, k) \in ActionsOf(q, k)
BY DEF DoesAt, ActionsOf, Kb

LEMMA ActionsUndo ==
    ASSUME Undoes, NEW q \in Kb, NEW k \in Keys, NEW a \in ActionsOf(q, k)
    PROVE  /\ Undone(a)
           /\ IsOneShot(a) => a.mods # {} /\ \A j \in Keys : \A b \in ActionsOf(q, j) :
                                                IsOneShot(b) => b.mods = a.mods
           /\ IsCancellable(a) => current_layer_for_key(q, k) = 0
<1>1. PICK l \in Layers : a = KeyMaps[q.keymap][l][k]
  BY DEF ActionsOf, action_for_key
<1>2. q.keymap \in DOMAIN KeyMaps /\ q.layer \cup q.deflt \subseteq Layers
  BY DEF Kb
<1>3. /\ Undone(a)
      /\ IsOneShot(a) =>
            /\ a.mods # {}
            /\ \A m \in Layers : \A j \in Keys :
                  IsOneShot(KeyMaps[q.keymap][m][j]) => KeyMaps[q.keymap][m][j].mods = a.mods
      /\ IsCancellable(a) =>
            \A m \in Layers \ {0} : KeyMaps[q.keymap][m][k] = Transparent
  BY <1>1, <1>2 DEF Undoes
<1>4. ASSUME IsCancellable(a) PROVE current_layer_for_key(q, k) = 0
  <2>1. Visible(q, k) \subseteq {0}
    BY <1>2, <1>3, <1>4 DEF Visible, action_for_key
  <2>2. CASE Visible(q, k) = {}
    BY <2>2 DEF current_layer_for_key
  <2>3. CASE Visible(q, k) = {0}
    <3>1. (CHOOSE i \in {0} : \A j \in {0} : j <= i) = 0
      OBVIOUS
    <3> QED BY <2>3, <3>1 DEF current_layer_for_key
  <2> QED BY <2>1, <2>2, <2>3
<1>5. IsOneShot(a) => \A j \in Keys : \A b \in ActionsOf(q, j) : IsOneShot(b) => b.mods = a.mods
  BY <1>3 DEF ActionsOf, action_for_key
<1> QED BY <1>3, <1>4, <1>5

LEMMA SoundTrack ==
    ASSUME Undoes, NEW q, Sound(q), NEW rec \in Records
    PROVE  /\ Sound(Track(q, rec)) /\ Track(q, rec).keymap = q.keymap
           /\ \A k : ActionsOf(Track(q, rec), k) = ActionsOf(q, k)
<1> DEFINE t == Track(q, rec)
<1>1. rec.key \in Keys /\ q \in Kb
  BY RecordBits DEF Sound
<1>2. t \in Kb /\ t.keymap = q.keymap
  BY <1>1, TrackType, ActLayers
<1>3. /\ t.keys = q.keys /\ t.real = q.real /\ t.weak = q.weak
      /\ t.oneshot = q.oneshot /\ t.host = q.host
      /\ \A k \in Keys : t.pressed[k] \in {q.pressed[k], current_layer_for_key(q, k)}
  BY <1>1 DEF Track, Kb
<1> HIDE DEF t
<1>4. \A k : ActionsOf(t, k) = ActionsOf(q, k)
  BY <1>2 DEF ActionsOf, action_for_key
<1>5. Told(t)
  BY <1>3 DEF Told, Sound
<1>6. ASSUME NEW k \in Keys, NEW a \in ActionsOf(t, k)
      PROVE  /\ IsOneShot(a) => t.oneshot \in {{}, a.mods}
             /\ IsCancellable(a) => t.pressed[k] = 0
  <2>1. a \in ActionsOf(q, k)
    BY <1>4, <1>6
  <2>2. IsCancellable(a) => current_layer_for_key(q, k) = 0
    BY <1>1, <2>1, ActionsUndo
  <2> QED BY <1>3, <2>1, <2>2 DEF Sound
<1> QED BY <1>2, <1>4, <1>5, <1>6 DEF Sound, t

LEMMA SoundAct ==
    ASSUME Undoes, TAPPING_TOGGLE \in Nat, NEW q, Sound(q), NEW rec \in Records
    PROVE  /\ Sound(process_action(q, rec)) /\ process_action(q, rec).keymap = q.keymap
           /\ layer_switch_get_action(q, rec) \in ActionsOf(q, rec.key)
           /\ Effect(q, process_action(q, rec), layer_switch_get_action(q, rec), rec)
<1> DEFINE t == Track(q, rec)
           a == layer_switch_get_action(q, rec)
           r == process_action(q, rec)
<1>1. rec.key \in Keys /\ q \in Kb
  BY RecordBits DEF Sound
<1>2. Sound(t) /\ t.keymap = q.keymap /\ \A k : ActionsOf(t, k) = ActionsOf(q, k)
  BY SoundTrack
<1>3. a = DoesAt(t, rec.key) /\ t \in Kb
  BY <1>2 DEF Sound, layer_switch_get_action, DoesAt, action_for_key
<1>4. a \in ActionsOf(q, rec.key)
  BY <1>1, <1>2, <1>3, DoesAction
<1>5. r \in Kb /\ r.keymap = q.keymap /\ r.pressed = t.pressed
  BY <1>1, ProcessActionType, ActLayers
<1>6. Undone(a)
  BY <1>1, <1>4, ActionsUndo
<1>7. Effect(q, r, a, rec)
  BY <1>1, <1>6, ActionEffect
<1> HIDE DEF t, a, r
<1>8. Told(r)
  <2>1. Told(q) /\ (IsOneShot(a) => a.mods # {} /\ q.oneshot \in {{}, a.mods})
    BY <1>1, <1>4, ActionsUndo DEF Sound
  <2> QED BY <1>7, <2>1 DEF Effect
<1>9. \A k : ActionsOf(r, k) = ActionsOf(q, k)
  BY <1>5 DEF ActionsOf, action_for_key
<1>10. ASSUME NEW k \in Keys, NEW b \in ActionsOf(r, k)
       PROVE  /\ IsOneShot(b) => r.oneshot \in {{}, b.mods}
              /\ IsCancellable(b) => r.pressed[k] = 0
  <2>1. b \in ActionsOf(q, k) /\ b \in ActionsOf(t, k)
    BY <1>2, <1>9, <1>10
  <2>2. IsCancellable(b) => r.pressed[k] = 0
    BY <1>2, <1>5, <2>1 DEF Sound
  <2>3. IsOneShot(b) /\ IsOneShot(a) => a.mods = b.mods
    BY <1>1, <1>4, <2>1, ActionsUndo
  <2>4. IsOneShot(b) => q.oneshot \in {{}, b.mods}
    BY <2>1 DEF Sound
  <2>5. r.oneshot \in {q.oneshot, {}} \/ (IsOneShot(a) /\ r.oneshot = a.mods)
    BY <1>7 DEF Effect
  <2> QED BY <2>2, <2>3, <2>4, <2>5
<1>11. Sound(r)
  BY <1>5, <1>8, <1>10 DEF Sound
<1> QED BY <1>4, <1>5, <1>7, <1>11 DEF r, a


LEMMA SoundInit ==
    ASSUME NEW name \in DOMAIN KeyMaps PROVE Sound(InitKb(name))
<1>1. InitKb(name) \in Kb
  BY ActionsAssumption DEF InitKb, Kb, Layers, Codes
<1>2. /\ Told(InitKb(name)) /\ InitKb(name).oneshot = {}
      /\ \A k \in Keys : InitKb(name).pressed[k] = 0
  BY DEF InitKb, Told
<1> QED BY <1>1, <1>2 DEF Sound

(* The buffer is not full: the next record has a place in it.              *)
Room == Len(waiting_buffer) < WAITING_BUFFER_SIZE - 1

(* The three callers of process_tapping, and what is known of the record.  *)
Call(rec) ==
    /\ Inv /\ OrderInv /\ WaitingInv /\ FirstTaps /\ OneTapWaits /\ Room
    /\ \/ DrainCall /\ rec = waiting_buffer[1]
       \/ \E key \in Keys : EventCall(key) /\ rec = Changed(key)
       \/ pc = "scan" /\ rec = TICK

LEMMA CallFacts ==
    ASSUME NEW rec, Call(rec)
    PROVE  /\ Engine /\ Given(rec) /\ now \in Times
           /\ pc \in {"scan", "drain"}
           /\ pc = "drain" => waiting_buffer # <<>> /\ rec = waiting_buffer[1] /\ 1 \in Slots
           /\ rec.key # NOEVENT => /\ rec \in Records /\ rec.key \in Keys
                                   /\ rec.pressed \in BOOLEAN /\ rec.count \in {0, 1}
           /\ rec.key = NOEVENT => /\ pc = "scan" /\ ~rec.pressed
                                   /\ ~OwnRelease(rec) /\ ~StartsTap(rec)
                                   /\ rec.count = 0
           /\ pc = "scan" => rec.count = 0 /\ rec.interrupted = FALSE /\ rec.time = now
           /\ rec.pressed => rec.count = 0 /\ rec.interrupted = FALSE
<1>0. Inv /\ Engine /\ now \in Times /\ pc \in {"scan", "drain"}
  BY DEF Call, Inv, Engine, Times
<1>1. CASE DrainCall /\ rec = waiting_buffer[1]
  <2>1. /\ 1 \in Slots /\ rec \in Records /\ rec.key # NOEVENT /\ rec.key \in Keys
        /\ Given(rec) /\ pc = "drain" /\ waiting_buffer # <<>>
    BY <1>0, <1>1, DrainGiven DEF DrainCall
  <2>2. rec.pressed \in BOOLEAN /\ rec.interrupted \in BOOLEAN /\ rec.count \in Nat
    BY <2>1, RecordBits
  <2>3. rec.count <= 1
    BY <1>1, <2>1 DEF Call, FirstTaps, Slots
  <2>4. rec.pressed => rec.count = 0 /\ ~rec.interrupted
    BY <1>1, <2>1 DEF Call, OrderInv, QueueInv
  <2> QED BY <1>0, <1>1, <2>1, <2>2, <2>3, <2>4
<1>2. ASSUME NEW key \in Keys, EventCall(key), rec = Changed(key)
      PROVE  /\ Given(rec) /\ pc = "scan" /\ rec \in Records /\ rec.key \in Keys
             /\ rec.key # NOEVENT
             /\ rec.count = 0 /\ rec.interrupted = FALSE /\ rec.pressed \in BOOLEAN
             /\ rec.time = now
  BY <1>0, <1>2, ChangedFields
<1>3. CASE pc = "scan" /\ rec = TICK
  <2>1. /\ TICK.key = NOEVENT /\ TICK.time = now /\ TICK.pressed = FALSE
        /\ TICK.count = 0 /\ TICK.interrupted = FALSE
    BY DEF TICK, Record
  <2>2. ~OwnRelease(TICK) /\ ~StartsTap(TICK) /\ Given(TICK)
    BY <1>3, <2>1 DEF OwnRelease, IS_TAPPING_KEY, IS_TAPPING, StartsTap, Given
  <2> QED BY <1>0, <1>3, <2>1, <2>2
<1> QED BY <1>0, <1>1, <1>2, <1>3, Zenon DEF Call

(* In the scan a key whose event passes has no record that waits.          *)
LEMMA NoneOfKey ==
    ASSUME NEW rec, Call(rec), pc = "scan", rec.key # NOEVENT,
           ~Undecided \/ (~rec.pressed /\ ~waiting_buffer_typed(rec))
    PROVE  /\ \A i \in Slots : waiting_buffer[i].key # rec.key
           /\ EventsOf(waiting_buffer, rec.key) = <<>>
<1>1. PICK key \in Keys : EventCall(key) /\ rec = Changed(key)
  BY DEF Call, DrainCall, TICK, Record
<1>2. Inv /\ OrderInv /\ LastInv /\ Engine
  BY WaitingLast DEF Call, Inv
<1>3. rec.key = key
  BY <1>1, <1>2, ChangedFields
<1>4. EventsOf(waiting_buffer, key) = <<>>
  BY <1>1, <1>2, EventPassesFirst
<1>5. Places(waiting_buffer, key) = {}
  BY <1>2, <1>4, EventsEmpty DEF Engine
<1> QED BY <1>3, <1>4, <1>5 DEF Places, Slots

(* The first event of a key that waits is not the one that took effect     *)
(* last.                                                                   *)
LEMMA FirstOfKey ==
    ASSUME NEW rec, Call(rec), rec.key # NOEVENT, ~Holds(rec.key),
           pc = "scan" => EventsOf(waiting_buffer, rec.key) = <<>>
    PROVE  settled[rec.key] = ~rec.pressed
<1> DEFINE k == rec.key
           e == EventsOf(waiting_buffer, k)
<1>1. /\ Engine /\ k \in Keys /\ rec.pressed \in BOOLEAN /\ settled[k] \in BOOLEAN
      /\ WaitingInv /\ Inv
  BY CallFacts DEF Call, Engine
<1>2. Waiting(k) = e
  <2>1. e \in Seq(BOOLEAN)
    BY <1>1, EventsType DEF Engine
  <2>2. Waiting(k) = <<>> \o e
    BY DEF Waiting, Holds
  <2> QED BY <2>1, <2>2, ConcatEmptySeq
<1>3. CASE pc = "drain"
  <2>1. waiting_buffer # <<>> /\ rec = waiting_buffer[1] /\ waiting_buffer \in Seq(Records)
    BY <1>3, CallFacts DEF Engine
  <2>2. e # <<>> /\ e[1] = rec.pressed
    BY <2>1, EventsHead
  <2>3. e[1] = ~settled[k]
    BY <1>1, <1>2, <2>2 DEF WaitingInv, Alternates
  <2> QED BY <1>1, <2>2, <2>3
<1>4. CASE pc = "scan"
  <2>1. settled[k] <=> k \in down
    BY <1>1, <1>2, <1>4 DEF WaitingInv, LatestOf
  <2>2. PICK key \in Keys : EventCall(key) /\ rec = Changed(key)
    BY <1>4 DEF Call, DrainCall, TICK, Record
  <2>3. rec.pressed = (key \in down') /\ ((key \in down') <=> key \notin down) /\ key = k
    BY <1>1, <2>2, ChangedFields
  <2> QED BY <1>1, <2>1, <2>3
<1> QED BY <1>1, <1>3, <1>4 DEF Engine

(* What is known beyond OrderInv of the counted records and of the tapping *)
(* key: the press of a key that has taken effect as a tap is released as   *)
(* one.                                                                    *)
Counted(k) == \E i \in Slots : waiting_buffer[i].key = k /\ waiting_buffer[i].count > 0

Does(k) == DoesAt(kb, k)

\* a counted record is the first of its key
CountedFirst ==
    \A i, j \in Slots :
        waiting_buffer[i].count > 0 /\ j < i => waiting_buffer[i].key # waiting_buffer[j].key

\* the press of a tap has taken effect; its release is counted after the first
TapSettled ==
    /\ Tapped => settled[tapping_key.key]
    /\ Tapped => (Counted(tapping_key.key) <=> tapping_key.count = 1)
    /\ Tapped /\ tapping_key.count >= TAPPING_TOGGLE
         /\ HasTapCode(tapping_key.key, MODS_TAP_TOGGLE) => toggled

\* an undecided key has no counted release; the press of it took effect
\* already only as that of a tap that was cancelled
UndecidedPress ==
    Undecided =>
        /\ ~Counted(tapping_key.key)
        /\ settled[tapping_key.key] =>
              IsCancellable(Does(tapping_key.key)) /\ tapping_key.interrupted
        /\ ~settled[tapping_key.key] =>
              \A j \in Slots : OwnRelease(waiting_buffer[j]) =>
                                  ~WITHIN_TAPPING_TERM(waiting_buffer[j])

\* while it is a tap, the key is not pressed and released again in the buffer
NoSecondTap ==
    IS_TAPPING /\ tapping_key.count > 0 =>
        \A i, j \in Slots :
            /\ i < j /\ waiting_buffer[i].key = tapping_key.key /\ waiting_buffer[i].pressed
            => ~OwnRelease(waiting_buffer[j])

CountInv == CountedFirst /\ TapSettled /\ UndecidedPress /\ NoSecondTap

(* The release that makes a new tap is the first record of its key.        *)
LEMMA OwnNone ==
    ASSUME NEW rec, Call(rec), CountInv, Undecided, pc = "scan", OwnRelease(rec),
           WITHIN_TAPPING_TERM(rec), ~settled[tapping_key.key]
    PROVE  \A i \in Slots : waiting_buffer[i].key # tapping_key.key
<1> DEFINE k == tapping_key.key
           e == EventsOf(waiting_buffer, k)
<1>1. /\ Engine /\ now \in Times /\ rec.time = now /\ WaitingInv /\ OrderInv
  BY CallFacts DEF Call
<1>2. /\ IS_TAPPING /\ k \in Keys /\ k # NOEVENT /\ tapping_key.time \in Times
  BY <1>1, TapStates DEF IS_TAPPING
<1>3. SUFFICES ASSUME e # <<>> PROVE FALSE
  <2>1. Places(waiting_buffer, k) = {} => \A i \in Slots : waiting_buffer[i].key # k
    BY DEF Places, Slots
  <2> QED BY <1>1, <2>1, EventsEmpty DEF Engine
<1>4. e \in Seq(BOOLEAN) /\ waiting_buffer \in Seq(Records)
  BY <1>1, EventsType DEF Engine
<1>5. e[1] = FALSE
  <2>1. Waiting(k) = <<TRUE>> \o e
    BY <1>2 DEF Waiting, IS_TAPPING_KEY
  <2> HIDE DEF e, k
  <2>2. Alternates(<<TRUE>> \o e, settled[k])
    BY <1>1, <1>2, <2>1 DEF WaitingInv
  <2> DEFINE h == <<TRUE>> \o e
  <2>3. h # <<>> /\ h[1] = TRUE /\ Tail(h) = e /\ h \in Seq(BOOLEAN)
    BY <1>4, HeldFirst
  <2>4. settled[k] \in BOOLEAN
    BY <1>1, <1>2 DEF Engine
  <2> HIDE DEF h
  <2>5. Alternates(h, settled[k])
    BY <2>2 DEF h
  <2>6. Alternates(Tail(h), h[1])
    BY <2>3, <2>4, <2>5, AlternatesTail
  <2>7. Alternates(e, TRUE)
    BY <2>3, <2>6
  <2> QED BY <1>3, <2>7 DEF Alternates, e
<1>6. PICK j \in Slots : waiting_buffer[j].key = k /\ ~waiting_buffer[j].pressed
  <2> DEFINE P == Places(waiting_buffer, k)
  <2>1. /\ IsFiniteSet(P) /\ (\A i \in P : i \in Nat) /\ Len(e) = Cardinality(P)
        /\ \A i \in P : e[RankIn(P, i)] = waiting_buffer[i].pressed
    BY <1>4, PlacesFinite, EventsType
  <2>2. Len(e) \in Nat \ {0}
    <3> HIDE DEF e
    <3> QED BY <1>3, <1>4, EmptySeq
  <2> HIDE DEF P, e, k
  <2>3. PICK i \in P : RankIn(P, i) = 1
    <3>1. 1 \in 1 .. Cardinality(P)
      BY <2>1, <2>2
    <3> QED BY <2>1, <3>1, RankNumbers
  <2>4. waiting_buffer[i].pressed = FALSE
    BY <1>5, <2>1, <2>3
  <2> QED BY <2>4 DEF P, Places, Slots
<1>7. OwnRelease(waiting_buffer[j]) /\ waiting_buffer[j].time \in Times
  BY <1>1, <1>2, <1>6, BufferType DEF OwnRelease, IS_TAPPING_KEY
<1>8. ~WITHIN_TAPPING_TERM(waiting_buffer[j])
  BY <1>7 DEF CountInv, UndecidedPress
<1>9. /\ AgeAt(now, tapping_key.time) >= AgeAt(now, waiting_buffer[j].time)
      /\ AgeAt(now, waiting_buffer[j].time) >= AgeAt(now, now)
      /\ AgeAt(now, tapping_key.time) >= AgeAt(now, tapping_key.time)
  <2>1. AgeAt(now, now) = 0 /\ AgeAt(now, waiting_buffer[j].time) \in Times
        /\ AgeAt(now, tapping_key.time) \in Times
    BY <1>1, <1>2, <1>7, Ages
  <2>2. AgeAt(now, tapping_key.time) >= AgeAt(now, waiting_buffer[j].time)
    BY <1>1 DEF OrderInv, TapInv, TapAge, Age
  <2> QED BY <2>1, <2>2, TappingAssumption DEF Times
<1>10. TIMER_DIFF_16(waiting_buffer[j].time, tapping_key.time)
          <= TIMER_DIFF_16(now, tapping_key.time)
  BY <1>1, <1>2, <1>7, <1>9, InnerDiff
<1>11. /\ TIMER_DIFF_16(now, tapping_key.time) < TAPPING_TERM
       /\ ~(TIMER_DIFF_16(waiting_buffer[j].time, tapping_key.time) < TAPPING_TERM)
  BY <1>1, <1>8 DEF WITHIN_TAPPING_TERM
<1>12. /\ TIMER_DIFF_16(now, tapping_key.time) \in Int
       /\ TIMER_DIFF_16(waiting_buffer[j].time, tapping_key.time) \in Int
  <2>1. \A s, t \in Times : TIMER_DIFF_16(s, t) \in Int
    <3> SUFFICES ASSUME NEW s \in Times, NEW t \in Times PROVE TIMER_DIFF_16(s, t) \in Int
      OBVIOUS
    <3>1. s \in Int /\ t \in Int /\ TimeMod \in Int
      BY TappingAssumption DEF Times
    <3>2. TIMER_DIFF_16(s, t) = IF t <= s THEN s - t ELSE s - t + TimeMod
      BY TimerDiff
    <3> QED BY <3>1, <3>2
  <2> QED BY <1>1, <1>2, <1>7, <2>1
<1> HIDE DEF k, e
<1> QED BY <1>10, <1>11, <1>12, TappingAssumption

(* What a call does to the buffer, exactly: x is left in the place of rec, *)
(* or rec is removed.                                                      *)
KeptAs(rec, x) ==
    \/ rec.key = NOEVENT /\ waiting_buffer' = waiting_buffer
    \/ /\ rec.key # NOEVENT
       /\ \E p \in Slots' :
             /\ waiting_buffer'[p] = x
             /\ Slots \subseteq Slots'
             /\ \A i \in Slots' : i # p => i \in Slots /\ waiting_buffer'[i] = waiting_buffer[i]
             /\ pc = "drain" => p = 1 /\ 1 \in Slots
             /\ pc = "scan" => \A i \in Slots : i < p

Removed ==
    \E d \in {0, 1} :
        /\ d = 1 <=> pc = "drain"
        /\ \A i \in Slots' : i + d \in Slots /\ waiting_buffer'[i] = waiting_buffer[i + d]
        /\ \A i \in Slots : i > d => i - d \in Slots'

LEMMA KeepKept ==
    ASSUME NEW rec, Call(rec), NEW x, x.key = rec.key,
           rec.key # NOEVENT => x \in Records,
           NEW newKb, NEW tapping, NEW done, Keep(newKb, tapping, x, done)
    PROVE  /\ KeptAs(rec, x) /\ kb' = newKb /\ tapping_key' = tapping /\ Settle(done)
<1>1. /\ Engine /\ pc \in {"scan", "drain"}
      /\ pc = "drain" => waiting_buffer # <<>> /\ 1 \in Slots
      /\ rec.key = NOEVENT => pc = "scan"
      /\ waiting_buffer \in Seq(Records) /\ Len(waiting_buffer) \in Nat
  BY CallFacts, BufferType
<1>2. ~IsFull
  BY <1>1, TappingAssumption DEF Call, Room, IsFull
<1>3. /\ kb' = newKb /\ tapping_key' = tapping /\ Settle(done)
      /\ waiting_buffer' = IF pc = "drain" THEN [waiting_buffer EXCEPT ![1] = x]
                           ELSE IF x.key = NOEVENT THEN waiting_buffer
                           ELSE Append(waiting_buffer, x)
  BY <1>1, <1>2 DEF Keep
<1>4. CASE rec.key = NOEVENT
  BY <1>1, <1>3, <1>4 DEF KeptAs
<1>5. CASE rec.key # NOEVENT /\ pc = "drain"
  <2>1. 1 \in 1 .. Len(waiting_buffer) /\ x \in Records
    BY <1>1, <1>5 DEF Slots
  <2>2. /\ Len(waiting_buffer') = Len(waiting_buffer)
        /\ \A i \in Slots : waiting_buffer'[i] = IF i = 1 THEN x ELSE waiting_buffer[i]
    BY <1>1, <1>3, <1>5, <2>1, ExceptSeq DEF Slots
  <2>3. Slots' = Slots
    BY <2>2 DEF Slots
  <2>4. /\ 1 \in Slots' /\ waiting_buffer'[1] = x /\ Slots \subseteq Slots'
        /\ \A i \in Slots' : i # 1 => i \in Slots /\ waiting_buffer'[i] = waiting_buffer[i]
    BY <1>1, <1>5, <2>2, <2>3
  <2>5. pc # "scan" /\ 1 \in Slots
    BY <1>1, <1>5
  <2>6. KeptAs(rec, x)
    BY <1>5, <2>4, <2>5, Zenon DEF KeptAs
  <2> QED BY <1>3, <2>6
<1>6. CASE rec.key # NOEVENT /\ pc = "scan"
  <2>1. x \in Records /\ waiting_buffer' = Append(waiting_buffer, x)
    BY <1>3, <1>6
  <2>2. /\ Len(waiting_buffer') = Len(waiting_buffer) + 1
        /\ \A i \in 1 .. Len(waiting_buffer) : waiting_buffer'[i] = waiting_buffer[i]
        /\ waiting_buffer'[Len(waiting_buffer) + 1] = x
    BY <1>1, <2>1, AppendProperties
  <2> DEFINE p == Len(waiting_buffer) + 1
  <2>3. /\ p \in Slots' /\ Slots \subseteq Slots'
        /\ \A i \in Slots' : i # p => i \in Slots
        /\ \A i \in Slots : i < p
    BY <1>1, <2>2 DEF Slots
  <2>4. \A i \in Slots : waiting_buffer'[i] = waiting_buffer[i]
    BY <2>2 DEF Slots
  <2>5. waiting_buffer'[p] = x /\ pc # "drain"
    BY <1>6, <2>2
  <2> HIDE DEF p
  <2> QED BY <1>3, <1>6, <2>3, <2>4, <2>5 DEF KeptAs
<1> QED BY <1>1, <1>4, <1>5, <1>6

LEMMA TailRemoved ==
    ASSUME NEW rec, Call(rec), NEW buffer \in Seq(Records),
           Len(buffer) = Len(waiting_buffer),
           waiting_buffer' = IF pc = "drain" THEN Tail(buffer) ELSE buffer
    PROVE  \E d \in {0, 1} :
              /\ d = 1 <=> pc = "drain"
              /\ \A i \in Slots' : i + d \in Slots /\ waiting_buffer'[i] = buffer[i + d]
              /\ \A i \in Slots : i > d => i - d \in Slots'
<1>1. /\ Engine /\ pc \in {"scan", "drain"}
      /\ pc = "drain" => waiting_buffer # <<>> /\ 1 \in Slots
      /\ waiting_buffer \in Seq(Records) /\ Len(waiting_buffer) \in Nat
  BY CallFacts, BufferType
<1>2. CASE pc = "drain"
  <2>1. Len(buffer) \in Nat \ {0} /\ buffer # <<>>
    <3>1. Len(buffer) \in Nat \ {0}
      BY <1>1, <1>2 DEF Slots
    <3> QED BY <3>1, EmptySeq
  <2>2. /\ Len(waiting_buffer') = Len(waiting_buffer) - 1
        /\ \A i \in 1 .. Len(waiting_buffer) - 1 : waiting_buffer'[i] = buffer[i + 1]
    BY <1>2, <2>1, HeadTailProperties
  <2>3. /\ \A i \in Slots' : /\ i + 1 \in Slots
                             /\ i \in 1 .. Len(waiting_buffer) - 1
        /\ \A i \in Slots : i > 1 => i - 1 \in Slots'
    BY <1>1, <2>2 DEF Slots
  <2>4. \A i \in Slots' : i + 1 \in Slots /\ waiting_buffer'[i] = buffer[i + 1]
    BY <2>2, <2>3
  <2> QED BY <1>2, <2>3, <2>4
<1>3. CASE pc = "scan"
  <2>1. waiting_buffer' = buffer /\ Slots' = Slots
    BY <1>3 DEF Slots
  <2>2. \A i \in Slots : i + 0 = i /\ i - 0 = i
    BY <1>1 DEF Slots
  <2>3. /\ \A i \in Slots' : i + 0 \in Slots /\ waiting_buffer'[i] = buffer[i + 0]
        /\ \A i \in Slots : i > 0 => i - 0 \in Slots'
    BY <2>1, <2>2
  <2>4. (0 = 1) <=> (pc = "drain")
    BY <1>3
  <2> QED BY <2>3, <2>4
<1> QED BY <1>1, <1>2, <1>3

LEMMA ConsumeRemoved ==
    ASSUME NEW rec, Call(rec), NEW newKb, NEW tapping, NEW done,
           Consume(newKb, tapping, waiting_buffer, done)
    PROVE  /\ Removed /\ kb' = newKb /\ tapping_key' = tapping /\ Settle(done)
<1>1. waiting_buffer \in Seq(Records)
  BY CallFacts, BufferType
<1>2. waiting_buffer' = IF pc = "drain" THEN Tail(waiting_buffer) ELSE waiting_buffer
  BY DEF Consume
<1>3. Removed
  BY <1>1, <1>2, TailRemoved DEF Removed
<1> QED BY <1>3 DEF Consume

-----------------------------------------------------------------------------
(* The counted records.                                                    *)
LEMMA CountsKept ==
    ASSUME NEW rec, Call(rec), NEW x, x.key = rec.key, KeptAs(rec, x)
    PROVE  /\ \A k : k # rec.key => (Counted(k)' <=> Counted(k))
           /\ x = rec => \A k : Counted(k)' <=> Counted(k)
           /\ rec.key # NOEVENT /\ x.count > 0 => Counted(rec.key)'
           /\ x.count = 0 => \A k : Counted(k)' => Counted(k)
<1>0. waiting_buffer' = waiting_buffer => \A k : Counted(k)' <=> Counted(k)
  BY DEF Counted, Slots
<1>1. CASE rec.key = NOEVENT
  <2>1. rec.key = NOEVENT => waiting_buffer' = waiting_buffer
    BY DEF KeptAs
  <2> QED BY <1>0, <1>1, <2>1
<1>2. CASE rec.key # NOEVENT
  <2>1. PICK p \in Slots' :
             /\ waiting_buffer'[p] = x
             /\ Slots \subseteq Slots'
             /\ \A i \in Slots' : i # p => i \in Slots /\ waiting_buffer'[i] = waiting_buffer[i]
             /\ pc = "drain" => p = 1 /\ 1 \in Slots
             /\ pc = "scan" => \A i \in Slots : i < p
    BY <1>2 DEF KeptAs
  <2>2. /\ pc \in {"scan", "drain"}
        /\ pc = "drain" => rec = waiting_buffer[1]
        /\ pc = "scan" => rec.count = 0
        /\ Len(waiting_buffer) \in Nat
    BY CallFacts, BufferType
  <2>3. pc = "scan" => p \notin Slots
    BY <2>1, <2>2 DEF Slots
  <2>4. \A i \in Slots : i # p => waiting_buffer'[i] = waiting_buffer[i] /\ i \in Slots'
    BY <2>1
  <2>5. p \in Slots => waiting_buffer[p] = rec
    BY <2>1, <2>2, <2>3
  <2>6. ASSUME NEW k, k # rec.key PROVE Counted(k)' <=> Counted(k)
    BY <2>1, <2>4, <2>5, <2>6 DEF Counted
  <2>7. ASSUME x = rec PROVE Counted(rec.key)' <=> Counted(rec.key)
    BY <2>1, <2>2, <2>3, <2>4, <2>5, <2>7 DEF Counted
  <2>8. x.count > 0 => Counted(rec.key)'
    BY <2>1 DEF Counted
  <2>9. ASSUME x.count = 0, NEW k, Counted(k)' PROVE Counted(k)
    <3>1. PICK i \in Slots' : waiting_buffer'[i].key = k /\ waiting_buffer'[i].count > 0
      BY <2>9 DEF Counted
    <3>2. i # p
      BY <2>1, <2>9, <3>1
    <3> QED BY <2>1, <3>1, <3>2 DEF Counted
  <2> QED BY <2>6, <2>7, <2>8, <2>9
<1> QED BY <1>1, <1>2

LEMMA CountsRemoved ==
    ASSUME NEW rec, Call(rec), CountedFirst, Removed,
           pc = "scan" /\ rec.key # NOEVENT => \A i \in Slots : waiting_buffer[i].key # rec.key
    PROVE  /\ \A k : k # rec.key => (Counted(k)' <=> Counted(k))
           /\ \A k : Counted(k)' => Counted(k)
           /\ rec.key # NOEVENT => ~Counted(rec.key)' /\ (Counted(rec.key) <=> rec.count > 0)
<1>1. PICK d \in {0, 1} :
        /\ d = 1 <=> pc = "drain"
        /\ \A i \in Slots' : i + d \in Slots /\ waiting_buffer'[i] = waiting_buffer[i + d]
        /\ \A i \in Slots : i > d => i - d \in Slots'
  BY DEF Removed
<1>2. /\ pc \in {"scan", "drain"}
      /\ pc = "drain" => rec = waiting_buffer[1] /\ 1 \in Slots
      /\ pc = "scan" => rec.count = 0
      /\ Len(waiting_buffer) \in Nat
      /\ \A i \in Slots' : i \in Nat /\ i > 0
      /\ \A i \in Slots : i \in Nat /\ i > 0
  <2>1. \A i \in Slots' : i \in Nat /\ i > 0
    BY DEF Slots
  <2>2. \A i \in Slots : i \in Nat /\ i > 0
    BY DEF Slots
  <2> QED BY <2>1, <2>2, CallFacts, BufferType
<1>3. \A k : Counted(k)' => Counted(k)
  BY <1>1 DEF Counted
<1>4. ASSUME NEW k, k # rec.key, Counted(k) PROVE Counted(k)'
  <2>1. PICK i \in Slots : waiting_buffer[i].key = k /\ waiting_buffer[i].count > 0
    BY <1>4 DEF Counted
  <2>2. i > d
    BY <1>1, <1>2, <1>4, <2>1
  <2>3. i - d \in Slots' /\ (i - d) + d = i
    BY <1>1, <1>2, <2>1, <2>2
  <2>4. waiting_buffer'[i - d] = waiting_buffer[i]
    BY <1>1, <2>3
  <2> QED BY <2>1, <2>3, <2>4 DEF Counted
<1>5. ASSUME rec.key # NOEVENT
      PROVE  ~Counted(rec.key)' /\ (Counted(rec.key) <=> rec.count > 0)
  <2>1. CASE pc = "scan"
    <3>1. ~Counted(rec.key)
      BY <1>5, <2>1 DEF Counted
    <3> QED BY <1>2, <1>3, <2>1, <3>1
  <2>2. CASE pc = "drain"
    <3>1. ASSUME NEW i \in Slots, i > 1, waiting_buffer[i].key = rec.key,
                 waiting_buffer[i].count > 0
          PROVE  FALSE
      BY <1>2, <2>2, <3>1 DEF CountedFirst
    <3>2. ASSUME Counted(rec.key)' PROVE FALSE
      <4>1. PICK i \in Slots' : waiting_buffer'[i].key = rec.key /\ waiting_buffer'[i].count > 0
        BY <3>2 DEF Counted
      <4>2. i + d \in Slots /\ i + d > 1 /\ waiting_buffer'[i] = waiting_buffer[i + d]
        BY <1>1, <1>2, <2>2, <4>1
      <4> QED BY <3>1, <4>1, <4>2
    <3>3. rec.count > 0 => Counted(rec.key)
      BY <1>2, <2>2 DEF Counted
    <3>4. ASSUME Counted(rec.key) PROVE rec.count > 0
      <4>1. PICK i \in Slots : waiting_buffer[i].key = rec.key /\ waiting_buffer[i].count > 0
        BY <3>4 DEF Counted
      <4>2. i = 1
        BY <1>2, <3>1, <4>1
      <4> QED BY <1>2, <2>2, <4>1, <4>2
    <3> QED BY <3>2, <3>3, <3>4
  <2> QED BY <1>2, <2>1, <2>2
<1> QED BY <1>3, <1>4, <1>5

LEMMA CountedFirstKept ==
    ASSUME NEW rec, Call(rec), CountedFirst, NEW x, x.key = rec.key, KeptAs(rec, x),
           rec.key # NOEVENT /\ pc = "scan" /\ x.count > 0
              => \A i \in Slots : waiting_buffer[i].key # rec.key
    PROVE  CountedFirst'
<1>0. waiting_buffer' = waiting_buffer => CountedFirst'
  BY DEF CountedFirst, Slots
<1>1. CASE rec.key = NOEVENT
  BY <1>0, <1>1 DEF KeptAs
<1>2. CASE rec.key # NOEVENT
  <2>1. PICK p \in Slots' :
             /\ waiting_buffer'[p] = x
             /\ Slots \subseteq Slots'
             /\ \A i \in Slots' : i # p => i \in Slots /\ waiting_buffer'[i] = waiting_buffer[i]
             /\ pc = "drain" => p = 1 /\ 1 \in Slots
             /\ pc = "scan" => \A i \in Slots : i < p
    BY <1>2 DEF KeptAs
  <2>2. /\ pc \in {"scan", "drain"}
        /\ pc = "drain" => rec = waiting_buffer[1]
    BY CallFacts
  <2>3. \A i \in Slots' : i \in Nat /\ i > 0
    BY DEF Slots
  <2> SUFFICES ASSUME NEW i \in Slots', NEW j \in Slots', waiting_buffer'[i].count > 0, j < i
               PROVE  waiting_buffer'[i].key # waiting_buffer'[j].key
    BY DEF CountedFirst
  <2>4. CASE i # p /\ j # p
    BY <2>1, <2>4 DEF CountedFirst
  <2>5. CASE pc = "drain" /\ j = p
    <3>1. i # p /\ waiting_buffer[1].key = waiting_buffer'[j].key
      BY <2>1, <2>2, <2>3, <2>5
    <3>2. i \in Slots /\ waiting_buffer'[i] = waiting_buffer[i] /\ 1 \in Slots /\ 1 < i
      BY <2>1, <2>5, <3>1
    <3> QED BY <3>1, <3>2 DEF CountedFirst
  <2>6. CASE pc = "drain" /\ i = p
    BY <2>1, <2>3, <2>6
  <2>7. CASE pc = "scan" /\ j = p
    <3>1. i # p
      BY <2>3, <2>7
    <3>2. i \in Slots /\ i < p
      BY <2>1, <2>7, <3>1
    <3> QED BY <2>3, <2>7, <3>2
  <2>8. CASE pc = "scan" /\ i = p
    <3>1. j # p
      BY <2>3, <2>8
    <3>2. j \in Slots /\ waiting_buffer'[j] = waiting_buffer[j]
      BY <2>1, <3>1
    <3> QED BY <1>2, <2>1, <2>8, <3>2
  <2> QED BY <2>2, <2>4, <2>5, <2>6, <2>7, <2>8
<1> QED BY <1>1, <1>2

LEMMA CountedFirstRemoved ==
    ASSUME NEW rec, Call(rec), CountedFirst, Removed
    PROVE  CountedFirst'
<1>1. PICK d \in {0, 1} :
        \A i \in Slots' : i + d \in Slots /\ waiting_buffer'[i] = waiting_buffer[i + d]
  BY DEF Removed
<1>2. \A i, j \in Slots' : j < i => j + d < i + d
  BY DEF Slots
<1> QED BY <1>1, <1>2 DEF CountedFirst

(* What each branch of process_tapping does, in these terms.               *)
LEMMA SettledOne ==
    ASSUME NEW x, Settle({x})
    PROVE  Settles(x.key, x.pressed) /\ toggled' = (toggled \/ ToggleTaps(x))
BY SettleOne DEF Settle

LEMMA SettledNone ==
    ASSUME Engine, Settle({}) PROVE SettlesNone /\ toggled' = toggled
BY SettleNone DEF Settle, Engine

LEMMA WaitsShape ==
    ASSUME NEW rec, Call(rec), RetainModifier(rec) \/ WaitForDecision(rec)
    PROVE  /\ KeptAs(rec, rec) /\ kb' = kb /\ SettlesNone /\ toggled' = toggled
           /\ Undecided /\ Undecided' /\ ~OwnRelease(rec)
           /\ tapping_key'.key = tapping_key.key /\ tapping_key'.time = tapping_key.time
           /\ tapping_key.interrupted => tapping_key'.interrupted
<1> DEFINE t == [tapping_key EXCEPT !.interrupted = @ \/ rec.pressed]
<1>1. /\ Engine /\ (rec.key # NOEVENT => rec \in Records)
      /\ rec.key = NOEVENT => ~OwnRelease(rec)
  BY CallFacts
<1>2. /\ Undecided /\ ~OwnRelease(rec)
      /\ Keep(kb, tapping_key, rec, {}) \/ Keep(kb, t, rec, {})
  BY <1>1 DEF RetainModifier, OtherRelease, WaitForDecision, OwnRelease
<1>3. tapping_key \in Records /\ IS_TAPPING /\ tapping_key.pressed /\ tapping_key.count = 0
  BY <1>1, <1>2, TapStates
<1>4. /\ t.key = tapping_key.key /\ t.pressed = tapping_key.pressed /\ t.count = tapping_key.count
      /\ t.time = tapping_key.time /\ (tapping_key.interrupted => t.interrupted)
  BY <1>3 DEF Records
<1> HIDE DEF t
<1>5. /\ KeptAs(rec, rec) /\ kb' = kb /\ Settle({}) /\ tapping_key' \in {tapping_key, t}
  BY <1>1, <1>2, KeepKept
<1>6. SettlesNone /\ toggled' = toggled
  BY <1>1, <1>5, SettledNone
<1>7. Undecided'
  BY <1>3, <1>4, <1>5 DEF Undecided, IS_TAPPING_PRESSED, IS_TAPPING
<1> QED BY <1>2, <1>4, <1>5, <1>6, <1>7

LEMMA ExpiresShape ==
    ASSUME NEW rec, Call(rec), TapExpires(rec)
    PROVE  /\ KeptAs(rec, rec) /\ kb' = kb /\ SettlesNone /\ toggled' = toggled
           /\ IS_TAPPING_RELEASED /\ tapping_key' = NoTapping
<1>1. Engine /\ (rec.key # NOEVENT => rec \in Records)
  BY CallFacts
<1>2. IS_TAPPING_RELEASED /\ Keep(kb, NoTapping, rec, {})
  BY DEF TapExpires
<1>3. KeptAs(rec, rec) /\ kb' = kb /\ Settle({}) /\ tapping_key' = NoTapping
  BY <1>1, <1>2, KeepKept
<1> QED BY <1>1, <1>2, <1>3, SettledNone

LEMMA TimeoutShape ==
    ASSUME NEW rec, Call(rec), Timeout(rec)
    PROVE  /\ KeptAs(rec, rec) /\ kb' = process_action(kb, tapping_key)
           /\ Settles(tapping_key.key, TRUE) /\ (toggled => toggled')
           /\ Undecided /\ tapping_key \in Records /\ tapping_key' = NoTapping
<1>1. Engine /\ (rec.key # NOEVENT => rec \in Records)
  BY CallFacts
<1>2. Undecided /\ Keep(Act(tapping_key), NoTapping, rec, {tapping_key})
  BY DEF Timeout
<1>3. tapping_key \in Records /\ IS_TAPPING /\ tapping_key.pressed = TRUE
  BY <1>1, <1>2, TapStates
<1>4. /\ KeptAs(rec, rec) /\ kb' = Act(tapping_key) /\ Settle({tapping_key})
      /\ tapping_key' = NoTapping
  BY <1>1, <1>2, KeepKept
<1>5. Settles(tapping_key.key, TRUE) /\ (toggled => toggled')
  BY <1>3, <1>4, SettledOne
<1> QED BY <1>2, <1>3, <1>4, <1>5 DEF Act, IS_TAPPING

FirstTapOf == [tapping_key EXCEPT !.count = 1]

LEMMA FirstTapShape ==
    ASSUME NEW rec, Call(rec), FirstTap(rec)
    PROVE  /\ Undecided /\ tapping_key \in Records
           /\ FirstTapOf \in Records /\ FirstTapOf.key = tapping_key.key
           /\ FirstTapOf.pressed = TRUE /\ FirstTapOf.count = 1
           /\ FirstTapOf.interrupted = tapping_key.interrupted
           /\ rec \in Records /\ rec.key = tapping_key.key /\ OwnRelease(rec)
           /\ WITHIN_TAPPING_TERM(rec)
           /\ kb' = process_action(kb, FirstTapOf)
           /\ Settles(tapping_key.key, TRUE) /\ (toggled => toggled')
           /\ tapping_key'.key = tapping_key.key /\ tapping_key'.time = tapping_key.time
           /\ tapping_key'.pressed = TRUE
           /\ tapping_key'.interrupted = tapping_key.interrupted
           /\ tapping_key'.count = IF Cancels(kb, FirstTapOf) THEN 0 ELSE 1
           /\ \E x : /\ KeptAs(rec, x) /\ x.key = rec.key /\ x.pressed = FALSE
                     /\ x.count = tapping_key'.count
<1> DEFINE tap == FirstTapOf
           t == Decided(tap)
           kept == [rec EXCEPT !.count = t.count, !.interrupted = t.interrupted]
<1>1. Engine /\ (rec.key # NOEVENT => rec \in Records)
  BY CallFacts
<1>2. /\ Undecided /\ OwnRelease(rec) /\ WITHIN_TAPPING_TERM(rec)
      /\ Keep(Act(tap), t, kept, {tap})
  BY DEF FirstTap, FirstTapOf
<1>3. /\ tapping_key \in Records /\ IS_TAPPING /\ tapping_key.pressed = TRUE
      /\ tapping_key.key # NOEVENT
  BY <1>1, <1>2, TapStates DEF IS_TAPPING
<1>4. rec \in Records /\ rec.key = tapping_key.key /\ rec.pressed = FALSE
  BY <1>1, <1>2, <1>3, RecordBits DEF OwnRelease, IS_TAPPING_KEY
<1>5. /\ tap \in Records /\ tap.key = tapping_key.key /\ tap.pressed = TRUE /\ tap.count = 1
      /\ tap.interrupted = tapping_key.interrupted /\ tap.time = tapping_key.time
  BY <1>3, RecordFields DEF FirstTapOf, Records
<1>6. /\ t.key = tapping_key.key /\ t.time = tapping_key.time /\ t.pressed = TRUE
      /\ t.interrupted = tapping_key.interrupted
      /\ t.count = IF Cancels(kb, tap) THEN 0 ELSE 1
      /\ t.count \in {0, 1} /\ t.interrupted \in BOOLEAN
  <2>1. tapping_key.interrupted \in BOOLEAN
    BY <1>3, RecordBits
  <2>2. t = IF Cancels(kb, tap) THEN [tap EXCEPT !.count = 0] ELSE tap
    BY DEF Decided
  <2>3. /\ [tap EXCEPT !.count = 0].key = tap.key /\ [tap EXCEPT !.count = 0].time = tap.time
        /\ [tap EXCEPT !.count = 0].pressed = tap.pressed /\ [tap EXCEPT !.count = 0].count = 0
        /\ [tap EXCEPT !.count = 0].interrupted = tap.interrupted
    BY <1>5 DEF Records
  <2> HIDE DEF t, tap
  <2>4. CASE Cancels(kb, tap)
    BY <1>5, <2>1, <2>2, <2>3, <2>4
  <2>5. CASE ~Cancels(kb, tap)
    BY <1>5, <2>1, <2>2, <2>5
  <2> QED BY <2>4, <2>5
<1> HIDE DEF t
<1>7. kept \in Records /\ kept.key = rec.key /\ kept.pressed = FALSE /\ kept.count = t.count
  <2>1. t.count \in 0 .. TapMax
    BY <1>6, TappingAssumption
  <2> QED BY <1>4, <1>6, <2>1 DEF Records
<1> HIDE DEF kept
<1>8. /\ KeptAs(rec, kept) /\ kb' = Act(tap) /\ Settle({tap}) /\ tapping_key' = t
  BY <1>2, <1>7, KeepKept
<1>9. Settles(tapping_key.key, TRUE) /\ (toggled => toggled')
  BY <1>5, <1>8, SettledOne
<1>10. Act(tap) = process_action(kb, tap)
  BY <1>3, <1>5 DEF Act
<1> QED BY <1>2, <1>3, <1>4, <1>5, <1>6, <1>7, <1>8, <1>9, <1>10

LEMMA PassShape ==
    ASSUME NEW rec, Call(rec),
           ReleaseAtOnce(rec) \/ EventDuringTap(rec) \/ EventAfterTap(rec) \/ PlainEvent(rec)
    PROVE  /\ Removed /\ kb' = Act(rec) /\ Settles(rec.key, rec.pressed) /\ (toggled => toggled')
           /\ ~OwnRelease(rec) \/ ~Tapped
           /\ ~Undecided \/ (~rec.pressed /\ ~waiting_buffer_typed(rec) /\ ~OwnRelease(rec))
           /\ IS_TAPPING' <=> IS_TAPPING
           /\ Tapped' <=> Tapped
           /\ Undecided' <=> Undecided
           /\ tapping_key'.key = tapping_key.key /\ tapping_key'.time = tapping_key.time
           /\ tapping_key'.count = tapping_key.count
           /\ tapping_key'.pressed = tapping_key.pressed
           /\ Undecided => tapping_key'.interrupted = tapping_key.interrupted
<1> DEFINE t == [tapping_key EXCEPT !.interrupted = @ \/ rec.pressed]
<1>1. /\ Engine
      /\ rec.key = NOEVENT => ~rec.pressed
  BY CallFacts
<1>2. /\ \/ Consume(Act(rec), tapping_key, waiting_buffer, {rec})
         \/ Consume(Act(rec), t, waiting_buffer, {rec}) /\ IS_TAPPING_RELEASED
      /\ ~OwnRelease(rec) \/ ~Tapped
      /\ ~Undecided \/ (~rec.pressed /\ ~waiting_buffer_typed(rec) /\ ~OwnRelease(rec))
  BY <1>1, TapStates DEF ReleaseAtOnce, OtherRelease, EventDuringTap, EventAfterTap, PlainEvent
<1>3. IS_TAPPING_RELEASED => tapping_key \in Records /\ ~Undecided
  BY <1>1, TapStates
<1>4. IS_TAPPING_RELEASED =>
        /\ t.key = tapping_key.key /\ t.pressed = tapping_key.pressed
        /\ t.count = tapping_key.count /\ t.time = tapping_key.time
  BY <1>3 DEF Records
<1> HIDE DEF t
<1>5. /\ Removed /\ kb' = Act(rec) /\ Settle({rec})
      /\ tapping_key' = tapping_key \/ (tapping_key' = t /\ IS_TAPPING_RELEASED)
  BY <1>2, ConsumeRemoved
<1>6. /\ tapping_key'.key = tapping_key.key /\ tapping_key'.time = tapping_key.time
      /\ tapping_key'.count = tapping_key.count
      /\ tapping_key'.pressed = tapping_key.pressed
      /\ Undecided => tapping_key'.interrupted = tapping_key.interrupted
  BY <1>3, <1>4, <1>5
<1>7. /\ IS_TAPPING' <=> IS_TAPPING
      /\ Tapped' <=> Tapped
      /\ Undecided' <=> Undecided
  BY <1>6 DEF IS_TAPPING, Tapped, Undecided, IS_TAPPING_PRESSED
<1>8. Settles(rec.key, rec.pressed) /\ (toggled => toggled')
  BY <1>5, SettledOne
<1> QED BY <1>2, <1>5, <1>6, <1>7, <1>8

LEMMA ReleasedShape ==
    ASSUME NEW rec, Call(rec), TapReleased(rec)
    PROVE  /\ Removed /\ kb' = process_action(kb, WithTap(rec))
           /\ Settles(rec.key, FALSE) /\ (toggled => toggled')
           /\ Tapped /\ rec \in Records /\ rec.key = tapping_key.key /\ rec.pressed = FALSE
           /\ WithTap(rec) \in Records /\ WithTap(rec).key = rec.key
           /\ WithTap(rec).pressed = FALSE /\ WithTap(rec).count = tapping_key.count
           /\ ~Undecided' /\ ~Tapped'
           /\ IS_TAPPING' => /\ tapping_key'.key = tapping_key.key
                             /\ tapping_key'.count = tapping_key.count
<1> DEFINE t == IF WITHIN_TAPPING_TERM(rec) THEN WithTap(rec) ELSE NoTapping
<1>1. Engine /\ (rec.key # NOEVENT => rec \in Records)
  BY CallFacts
<1>2. /\ Tapped /\ OwnRelease(rec)
      /\ Consume(Act(WithTap(rec)), t, waiting_buffer, {rec})
  BY DEF TapReleased
<1>3. IS_TAPPING /\ tapping_key.key # NOEVENT
  BY <1>1, <1>2, TapStates DEF IS_TAPPING
<1>4. rec \in Records /\ rec.key = tapping_key.key /\ rec.pressed = FALSE
  BY <1>1, <1>2, <1>3, RecordBits DEF OwnRelease, IS_TAPPING_KEY
<1>5. /\ WithTap(rec) \in Records /\ WithTap(rec).key = rec.key
      /\ WithTap(rec).pressed = FALSE /\ WithTap(rec).count = tapping_key.count
  BY <1>1, <1>3, <1>4, WithTapType DEF WithTap, Records
<1>6. t \in {NoTapping, WithTap(rec)}
  OBVIOUS
<1> HIDE DEF t
<1>7. Removed /\ kb' = Act(WithTap(rec)) /\ Settle({rec}) /\ tapping_key' = t
  BY <1>2, ConsumeRemoved
<1>8. Settles(rec.key, FALSE) /\ (toggled => toggled')
  BY <1>4, <1>7, SettledOne
<1>9. Act(WithTap(rec)) = process_action(kb, WithTap(rec))
  BY <1>3, <1>4, <1>5 DEF Act
<1>10. /\ NoTapping.key = NOEVENT /\ NoTapping.pressed = FALSE
  BY DEF NoTapping, Record
<1>11. /\ ~Undecided' /\ ~Tapped'
       /\ IS_TAPPING' => /\ tapping_key'.key = tapping_key.key
                         /\ tapping_key'.count = tapping_key.count
  BY <1>4, <1>5, <1>6, <1>7, <1>10 DEF Undecided, Tapped, IS_TAPPING_PRESSED, IS_TAPPING
<1> QED BY <1>2, <1>4, <1>5, <1>7, <1>8, <1>9, <1>11

NextTapOf(rec) == [WithTap(rec) EXCEPT !.count = IF @ < TapMax THEN @ + 1 ELSE @]

LEMMA SequentialShape ==
    ASSUME NEW rec, Call(rec), SequentialTap(rec), TapMax > 1
    PROVE  /\ Removed /\ kb' = process_action(kb, NextTapOf(rec))
           /\ Settles(rec.key, TRUE) /\ toggled' = (toggled \/ ToggleTaps(NextTapOf(rec)))
           /\ IS_TAPPING_RELEASED /\ rec \in Records /\ rec.key = tapping_key.key
           /\ rec.pressed = TRUE /\ tapping_key.count > 0
           /\ NextTapOf(rec) \in Records /\ NextTapOf(rec).key = rec.key
           /\ NextTapOf(rec).pressed = TRUE /\ NextTapOf(rec).interrupted = FALSE
           /\ NextTapOf(rec).count > 1 /\ tapping_key' = NextTapOf(rec)
<1> DEFINE w == WithTap(rec)
           tap == NextTapOf(rec)
<1>1. Engine /\ (rec.key # NOEVENT => rec \in Records)
  BY CallFacts
<1>2. /\ IS_TAPPING_RELEASED /\ rec.pressed /\ IS_TAPPING_KEY(rec.key)
      /\ ~tapping_key.interrupted /\ tapping_key.count > 0
      /\ Consume(Act(tap), tap, waiting_buffer, {tap})
  BY DEF SequentialTap, NextTapOf
<1>3. /\ IS_TAPPING /\ tapping_key.key # NOEVENT /\ tapping_key.interrupted \in BOOLEAN
      /\ tapping_key \in Records
  BY <1>1, <1>2, TapStates DEF IS_TAPPING
<1>4. rec \in Records /\ rec.key = tapping_key.key /\ rec.pressed = TRUE
  BY <1>1, <1>2, <1>3, RecordBits DEF IS_TAPPING_KEY
<1>5. /\ w \in Records /\ w.key = rec.key /\ w.pressed = TRUE
      /\ w.count = tapping_key.count /\ w.interrupted = FALSE
  <2>1. /\ w \in Records /\ w.key = rec.key /\ w.pressed = rec.pressed
        /\ w.count = tapping_key.count /\ w.interrupted = tapping_key.interrupted
    BY <1>1, <1>3, <1>4, WithTapType DEF WithTap, Records
  <2> HIDE DEF w
  <2> QED BY <1>2, <1>3, <1>4, <2>1
<1>6. w.count \in Nat /\ w.count > 0 /\ w.count <= TapMax /\ TapMax \in Nat
  <2> HIDE DEF w
  <2> QED BY <1>2, <1>5, RecordBits, TappingAssumption
<1> DEFINE c == IF w.count < TapMax THEN w.count + 1 ELSE w.count
<1>7. c > 1 /\ c \in 0 .. TapMax
  <2> HIDE DEF w
  <2> QED BY <1>6
<1>8. /\ tap \in Records /\ tap.key = w.key /\ tap.pressed = w.pressed
      /\ tap.interrupted = w.interrupted /\ tap.count = c
  <2>1. tap = [w EXCEPT !.count = c]
    <3> HIDE DEF w
    <3>1. w \in Records
      BY <1>5
    <3>2. tap = [w EXCEPT !.count = IF @ < TapMax THEN @ + 1 ELSE @]
      BY DEF NextTapOf, w
    <3> QED BY <3>1, <3>2 DEF Records
  <2> HIDE DEF w, tap, c
  <2> QED BY <1>5, <1>7, <2>1 DEF Records
<1> HIDE DEF w, tap, c
<1>9. Removed /\ kb' = Act(tap) /\ Settle({tap}) /\ tapping_key' = tap
  BY <1>2, ConsumeRemoved
<1>10. Settles(rec.key, TRUE) /\ toggled' = (toggled \/ ToggleTaps(tap))
  <2>1. Settles(tap.key, tap.pressed) /\ toggled' = (toggled \/ ToggleTaps(tap))
    BY <1>9, SettledOne
  <2> QED BY <1>5, <1>8, <2>1
<1>11. Act(tap) = process_action(kb, tap)
  BY <1>3, <1>4, <1>5, <1>8 DEF Act
<1>12. /\ IS_TAPPING_RELEASED /\ tapping_key.count > 0
  BY <1>2
<1> QED BY <1>4, <1>5, <1>7, <1>8, <1>9, <1>10, <1>11, <1>12 DEF tap

LEMMA AgainShape ==
    ASSUME NEW rec, Call(rec), StartAgain(rec)
    PROVE  /\ Removed /\ kb' = kb /\ SettlesNone /\ toggled' = toggled
           /\ IS_TAPPING_RELEASED /\ rec \in Records /\ rec.key = tapping_key.key
           /\ rec.pressed = TRUE /\ tapping_key' = rec /\ rec.count = 0
           /\ Undecided' /\ ~Undecided
<1>1. Engine /\ (rec.key # NOEVENT => rec \in Records)
  BY CallFacts
<1>2. /\ IS_TAPPING_RELEASED /\ rec.pressed /\ IS_TAPPING_KEY(rec.key)
      /\ Consume(kb, rec, waiting_buffer, {})
  BY DEF StartAgain
<1>3. IS_TAPPING /\ tapping_key.key # NOEVENT /\ ~Undecided
  BY <1>1, <1>2, TapStates DEF IS_TAPPING
<1>4. rec \in Records /\ rec.key = tapping_key.key /\ rec.pressed = TRUE /\ rec.count = 0
  BY <1>1, <1>2, <1>3, RecordBits, CallFacts DEF IS_TAPPING_KEY
<1>5. Removed /\ kb' = kb /\ Settle({}) /\ tapping_key' = rec
  BY <1>2, ConsumeRemoved
<1>6. Undecided'
  BY <1>3, <1>4, <1>5 DEF Undecided, IS_TAPPING_PRESSED, IS_TAPPING
<1> QED BY <1>1, <1>2, <1>3, <1>4, <1>5, <1>6, SettledNone

(* The keyboard when a new tapping key starts, and the press of it when    *)
(* its release is found to be waiting.                                     *)
Before(rec) ==
    IF Tapped /\ tapping_key.count > 1
    THEN process_action(Track(kb, rec), ForcedRelease(rec)) ELSE Track(kb, rec)

TapOf(rec) == [rec EXCEPT !.count = 1]

CountsRelease(rec) ==
    /\ pc = "drain"
    /\ \E i \in Slots :
          /\ i > 1 /\ waiting_buffer[i].key = rec.key /\ ~waiting_buffer[i].pressed
          /\ i \in TapRelease(rec) /\ \A j \in TapRelease(rec) : i <= j
          /\ i - 1 \in Slots' /\ waiting_buffer'[i - 1].count = 1
          /\ waiting_buffer'[i - 1].key = rec.key /\ ~waiting_buffer'[i - 1].pressed
          /\ \A j \in Slots' : /\ j + 1 \in Slots
                               /\ j + 1 # i => waiting_buffer'[j] = waiting_buffer[j + 1]
          /\ \A j \in Slots : j > 1 => j - 1 \in Slots'

StartsOnly(rec) ==
    /\ TapRelease(rec) = {} /\ Removed /\ kb' = Before(rec) /\ tapping_key' = rec
    /\ SettlesNone /\ toggled' = toggled /\ Undecided'

StartsAsTap(rec) ==
    /\ CountsRelease(rec) /\ kb' = process_action(Before(rec), TapOf(rec))
    /\ tapping_key' = TapOf(rec) /\ Settles(rec.key, TRUE) /\ (toggled => toggled')
    /\ Tapped'

LEMMA StartShape ==
    ASSUME NEW rec, Call(rec), NextTapKey(rec) \/ OtherTapKey(rec) \/ PressTapKey(rec)
    PROVE  /\ ~Undecided /\ rec \in Records /\ rec.pressed = TRUE
           /\ rec.count = 0 /\ rec.interrupted = FALSE /\ TapKey(rec.key)
           /\ TapOf(rec) \in Records /\ TapOf(rec).key = rec.key /\ TapOf(rec).pressed = TRUE
           /\ TapOf(rec).count = 1 /\ TapOf(rec).interrupted = FALSE
           /\ TapOf(rec).time = rec.time
           /\ StartsOnly(rec) \/ StartsAsTap(rec)
<1>1. Engine /\ Given(rec) /\ (rec.key # NOEVENT => rec \in Records)
  BY CallFacts
<1>2. StartsTap(rec) /\ StartTapping(Before(rec), rec)
  <2>1. CASE NextTapKey(rec)
    BY <2>1 DEF NextTapKey, Before
  <2>2. CASE OtherTapKey(rec)
    <3>1. ~Tapped
      BY <1>1, <2>2, TapStates DEF OtherTapKey
    <3> QED BY <2>2, <3>1 DEF OtherTapKey, Before
  <2>3. CASE PressTapKey(rec)
    <3>1. ~Tapped
      BY <1>1, <2>3, TapStates DEF PressTapKey
    <3> QED BY <2>3, <3>1 DEF PressTapKey, Before
  <2> QED BY <2>1, <2>2, <2>3
<1>3. ~Undecided
  BY <1>1, TapStates DEF NextTapKey, OtherTapKey, PressTapKey
<1>4. /\ rec \in Records /\ rec.pressed = TRUE /\ rec.count = 0 /\ rec.interrupted = FALSE
      /\ TapKey(rec.key) /\ rec.key # NOEVENT /\ rec.key \in Keys
  BY <1>1, <1>2, StartsTapKey, RecordBits, RecordFields, CallFacts
<1>5. /\ TapOf(rec) \in Records /\ TapOf(rec).key = rec.key /\ TapOf(rec).pressed = TRUE
      /\ TapOf(rec).count = 1 /\ TapOf(rec).interrupted = FALSE /\ TapOf(rec).time = rec.time
  BY <1>4, RecordFields DEF TapOf, Records
<1>6. CASE TapRelease(rec) = {}
  <2>1. Consume(Before(rec), rec, waiting_buffer, {})
    BY <1>2, <1>6 DEF StartTapping
  <2>2. Removed /\ kb' = Before(rec) /\ Settle({}) /\ tapping_key' = rec
    BY <2>1, ConsumeRemoved
  <2>3. Undecided'
    BY <1>4, <2>2 DEF Undecided, IS_TAPPING_PRESSED, IS_TAPPING
  <2>4. StartsOnly(rec)
    BY <1>1, <1>6, <2>2, <2>3, SettledNone DEF StartsOnly
  <2> QED BY <1>3, <1>4, <1>5, <2>4
<1>7. CASE TapRelease(rec) # {}
  <2> DEFINE i == CHOOSE i \in TapRelease(rec) : \A j \in TapRelease(rec) : i <= j
             c == [waiting_buffer[i] EXCEPT !.count = 1]
             buffer == [waiting_buffer EXCEPT ![i] = c]
  <2>1. Consume(process_action(Before(rec), TapOf(rec)), TapOf(rec), buffer, {rec})
    <3>1. TapRelease(rec) # {} /\ ~(rec.count > 0)
      BY <1>4, <1>7
    <3>2. buffer = [waiting_buffer EXCEPT ![i].count = 1]
      OBVIOUS
    <3> QED BY <1>2, <3>1, <3>2 DEF StartTapping, TapOf
  <2>2. i \in TapRelease(rec) /\ \A j \in TapRelease(rec) : i <= j
    <3>1. \A y \in TapRelease(rec) : y \in Nat
      BY DEF TapRelease
    <3> QED BY <1>7, <3>1, Least
  <2>3. i \in Slots /\ waiting_buffer[i].key = rec.key /\ ~waiting_buffer[i].pressed
    BY <2>2 DEF TapRelease, Slots
  <2> HIDE DEF i
  <2>4. pc = "drain" /\ rec = waiting_buffer[1] /\ 1 \in Slots
    <3>1. pc # "scan"
      BY <1>3, <1>4, <2>3, NoneOfKey
    <3> QED BY <3>1, CallFacts
  <2>5. i > 1
    BY <1>4, <2>3, <2>4 DEF Slots
  <2>6. c \in Records /\ c.key = rec.key /\ c.pressed = waiting_buffer[i].pressed /\ c.count = 1
    <3>1. waiting_buffer[i] \in Records
      BY <1>1, <2>3, BufferType
    <3> QED BY <2>3, <3>1, RecordFields DEF Records
  <2> HIDE DEF c
  <2>7. /\ buffer \in Seq(Records) /\ Len(buffer) = Len(waiting_buffer)
        /\ \A j \in Slots : buffer[j] = IF j = i THEN c ELSE waiting_buffer[j]
    <3>1. waiting_buffer \in Seq(Records) /\ i \in 1 .. Len(waiting_buffer)
      BY <1>1, <2>3, BufferType DEF Slots
    <3> QED BY <2>6, <3>1, ExceptSeq DEF Slots
  <2> HIDE DEF buffer
  <2>8. /\ kb' = process_action(Before(rec), TapOf(rec)) /\ tapping_key' = TapOf(rec)
        /\ Settle({rec})
        /\ waiting_buffer' = IF pc = "drain" THEN Tail(buffer) ELSE buffer
    BY <2>1 DEF Consume
  <2>9. /\ \A j \in Slots' : j + 1 \in Slots /\ waiting_buffer'[j] = buffer[j + 1]
        /\ \A j \in Slots : j > 1 => j - 1 \in Slots'
    <3>1. PICK d \in {0, 1} :
              /\ d = 1 <=> pc = "drain"
              /\ \A j \in Slots' : j + d \in Slots /\ waiting_buffer'[j] = buffer[j + d]
              /\ \A j \in Slots : j > d => j - d \in Slots'
      BY <2>7, <2>8, TailRemoved
    <3>2. d = 1
      BY <2>4, <3>1
    <3> QED BY <3>1, <3>2
  <2>10. i - 1 \in Slots' /\ waiting_buffer'[i - 1] = c
    <3>1. i - 1 \in Slots' /\ (i - 1) + 1 = i
      BY <2>3, <2>5, <2>9 DEF Slots
    <3>2. waiting_buffer'[i - 1] = buffer[i]
      BY <2>9, <3>1
    <3> QED BY <2>3, <2>7, <3>1, <3>2
  <2>11. \A j \in Slots' : /\ j + 1 \in Slots
                           /\ j + 1 # i => waiting_buffer'[j] = waiting_buffer[j + 1]
    BY <2>7, <2>9
  <2>12. CountsRelease(rec)
    BY <2>2, <2>3, <2>4, <2>5, <2>6, <2>9, <2>10, <2>11 DEF CountsRelease
  <2>13. Settles(rec.key, TRUE) /\ (toggled => toggled')
    BY <1>4, <2>8, SettledOne
  <2>14. Tapped'
    BY <1>4, <1>5, <2>8 DEF Tapped, IS_TAPPING_PRESSED, IS_TAPPING
  <2>15. StartsAsTap(rec)
    BY <2>8, <2>12, <2>13, <2>14 DEF StartsAsTap
  <2> QED BY <1>3, <1>4, <1>5, <2>15
<1> QED BY <1>6, <1>7

(* The keymaps and constants for which every release undoes its press.     *)
Reversible == Undoes /\ TapMax > 1 /\ TAPPING_TOGGLE \in Nat /\ TAPPING_TOGGLE > 1

LEMMA ActDoes ==
    ASSUME NEW q \in Kb, NEW x \in Records
    PROVE  /\ DoesAt(process_action(q, x), x.key) = layer_switch_get_action(q, x)
           /\ \A k : k # x.key \/ ~x.pressed =>
                 /\ DoesAt(process_action(q, x), k) = DoesAt(q, k)
                 /\ process_action(q, x).pressed[k] = q.pressed[k]
           /\ ~x.pressed => layer_switch_get_action(q, x) = DoesAt(q, x.key)
<1> DEFINE r == process_action(q, x)
           t == Track(q, x)
<1>1. SameLayers(t, r)
  BY ProcessActionLayers
<1>2. r.keymap = t.keymap /\ r.pressed = t.pressed
  BY <1>1 DEF SameLayers
<1>3. x.key \in Keys /\ q.pressed \in [Keys -> Layers]
  BY RecordBits DEF Kb
<1>4. t.keymap = q.keymap /\ (~x.pressed => t = q)
  BY DEF Track, Kb
<1>5. \A k : k # x.key => t.pressed[k] = q.pressed[k]
  <2>1. CASE x.pressed
    <3>1. t.pressed = [q.pressed EXCEPT ![x.key] = current_layer_for_key(q, x.key)]
      BY <2>1 DEF Track, Kb
    <3> HIDE DEF t
    <3> QED BY <1>3, <3>1
  <2>2. CASE ~x.pressed
    BY <1>4, <2>2
  <2> QED BY <2>1, <2>2
<1>6. /\ layer_switch_get_action(q, x) = action_for_key(q, t.pressed[x.key], x.key)
      /\ \A k : DoesAt(q, k) = action_for_key(q, q.pressed[k], k)
      /\ \A k : DoesAt(r, k) = action_for_key(r, r.pressed[k], k)
  BY DEF layer_switch_get_action, DoesAt
<1> HIDE DEF r, t
<1>7. \A l, k : action_for_key(r, l, k) = action_for_key(q, l, k)
  BY <1>2, <1>4 DEF action_for_key
<1>8. ASSUME NEW k, k # x.key \/ ~x.pressed PROVE r.pressed[k] = q.pressed[k]
  BY <1>2, <1>4, <1>5, <1>8
<1> QED BY <1>2, <1>4, <1>6, <1>7, <1>8 DEF r

(* The tap of an undecided key that has taken effect is a cancelled one:   *)
(* the key does the same again.                                            *)
LEMMA SettledFixed ==
    ASSUME Undoes, Sound(kb), Engine, CountInv, Undecided, settled[tapping_key.key],
           NEW x \in Records, x.key = tapping_key.key
    PROVE  /\ layer_switch_get_action(kb, x) = Does(tapping_key.key)
           /\ IsCancellable(Does(tapping_key.key)) /\ tapping_key.interrupted
           /\ current_layer_for_key(kb, x.key) = kb.pressed[x.key]
<1> DEFINE k == tapping_key.key
<1>1. IsCancellable(Does(k)) /\ tapping_key.interrupted
  BY DEF CountInv, UndecidedPress
<1>2. k \in Keys /\ kb \in Kb
  BY TapStates DEF Engine
<1>3. Does(k) \in ActionsOf(kb, k)
  BY <1>2, DoesAction DEF Does
<1>4. kb.pressed[k] = 0
  BY <1>1, <1>2, <1>3 DEF Sound
<1>5. current_layer_for_key(kb, k) = 0
  BY <1>1, <1>2, <1>3, ActionsUndo
<1>6. Track(kb, x).pressed[k] = 0 /\ Track(kb, x).keymap = kb.keymap
  <2>1. CASE x.pressed
    <3>1. /\ Track(kb, x).pressed = [kb.pressed EXCEPT ![k] = 0]
          /\ Track(kb, x).keymap = kb.keymap
      BY <1>5, <2>1 DEF Track, Kb
    <3>2. kb.pressed \in [Keys -> Layers]
      BY <1>2 DEF Kb
    <3> QED BY <1>2, <3>1, <3>2
  <2>2. CASE ~x.pressed
    BY <1>4, <2>2 DEF Track
  <2> QED BY <2>1, <2>2
<1> QED BY <1>1, <1>4, <1>5, <1>6 DEF layer_switch_get_action, action_for_key, Does, DoesAt


-----------------------------------------------------------------------------
(* Each branch preserves CountInv.                                         *)
LEMMA CountUntapped ==
    ASSUME CountedFirst', tapping_key' = NoTapping PROVE CountInv'
<1>1. ~IS_TAPPING' /\ ~Tapped' /\ ~Undecided'
  BY DEF IS_TAPPING, Tapped, Undecided, IS_TAPPING_PRESSED, NoTapping, Record
<1> QED BY <1>1 DEF CountInv, TapSettled, UndecidedPress, NoSecondTap

(* What is asked of the next state by the state of the tapping key.        *)
LEMMA CountUndecided ==
    ASSUME CountedFirst', Undecided', UndecidedPress' PROVE CountInv'
<1>1. ~Tapped' /\ ~(tapping_key'.count > 0)
  BY DEF Tapped, Undecided
<1> QED BY <1>1 DEF CountInv, TapSettled, NoSecondTap

LEMMA CountNotUndecided ==
    ASSUME CountedFirst', ~Undecided', TapSettled', NoSecondTap' PROVE CountInv'
BY DEF CountInv, UndecidedPress

LEMMA CountExpires ==
    ASSUME NEW rec, Call(rec), CountInv, TapExpires(rec) \/ Timeout(rec)
    PROVE  CountInv'
<1>1. KeptAs(rec, rec) /\ tapping_key' = NoTapping
  BY ExpiresShape, TimeoutShape
<1>2. pc = "scan" => rec.count = 0
  BY CallFacts
<1>3. CountedFirst'
  BY <1>1, <1>2, CountedFirstKept DEF CountInv
<1> QED BY <1>1, <1>3, CountUntapped

LEMMA CountWaits ==
    ASSUME NEW rec, Call(rec), CountInv, RetainModifier(rec) \/ WaitForDecision(rec)
    PROVE  CountInv'
<1>1. /\ KeptAs(rec, rec) /\ kb' = kb /\ SettlesNone
      /\ Undecided /\ Undecided' /\ ~OwnRelease(rec)
      /\ tapping_key'.key = tapping_key.key /\ tapping_key'.time = tapping_key.time
      /\ tapping_key.interrupted => tapping_key'.interrupted
  BY WaitsShape
<1>2. /\ pc = "scan" => rec.count = 0
      /\ Engine /\ pc \in {"scan", "drain"}
      /\ pc = "drain" => rec = waiting_buffer[1]
  BY CallFacts
<1>3. CountedFirst'
  BY <1>1, <1>2, CountedFirstKept DEF CountInv
<1>4. tapping_key.key \in Keys
  BY <1>1, <1>2, TapStates
<1>5. settled'[tapping_key'.key] = settled[tapping_key.key]
  BY <1>1, <1>4 DEF SettlesNone
<1>6. ~Counted(tapping_key.key)'
  <2>1. ~Counted(tapping_key.key)
    BY <1>1 DEF CountInv, UndecidedPress
  <2>2. \A k : Counted(k)' <=> Counted(k)
    BY <1>1, CountsKept
  <2>3. Counted(tapping_key.key)' <=> \E i \in Slots' : /\ waiting_buffer'[i].key = tapping_key'.key
                                                       /\ waiting_buffer'[i].count > 0
    BY DEF Counted
  <2>4. ASSUME NEW k PROVE Counted(k)' <=> \E i \in Slots' : /\ waiting_buffer'[i].key = k
                                                 /\ waiting_buffer'[i].count > 0
    BY DEF Counted
  <2> QED BY <1>1, <2>1, <2>2, <2>3, <2>4
<1>7. Does(tapping_key.key)' = Does(tapping_key.key)
  BY <1>1 DEF Does
<1>8. ASSUME ~settled[tapping_key.key], NEW j \in Slots', OwnRelease(waiting_buffer[j])'
      PROVE  ~WITHIN_TAPPING_TERM(waiting_buffer[j])'
  <2>1. waiting_buffer'[j].key = tapping_key.key /\ ~waiting_buffer'[j].pressed
    BY <1>1, <1>8 DEF OwnRelease, IS_TAPPING_KEY
  <2>2. waiting_buffer'[j] # rec
    BY <1>1, <2>1 DEF OwnRelease, IS_TAPPING_KEY, Undecided, IS_TAPPING_PRESSED
  <2>3. j \in Slots /\ waiting_buffer'[j] = waiting_buffer[j]
    BY <1>1, <2>2 DEF KeptAs, Slots
  <2>4. OwnRelease(waiting_buffer[j])
    BY <1>1, <2>1, <2>3 DEF OwnRelease, IS_TAPPING_KEY, Undecided, IS_TAPPING_PRESSED
  <2>5. ~WITHIN_TAPPING_TERM(waiting_buffer[j])
    BY <1>1, <1>8, <2>3, <2>4 DEF CountInv, UndecidedPress
  <2> QED BY <1>1, <2>3, <2>5 DEF WITHIN_TAPPING_TERM
<1>9. settled[tapping_key.key] => IsCancellable(Does(tapping_key.key)) /\ tapping_key.interrupted
  BY <1>1 DEF CountInv, UndecidedPress
<1>10. UndecidedPress'
  BY <1>1, <1>5, <1>6, <1>7, <1>8, <1>9 DEF UndecidedPress, IsCancellable, TapModes,
     MODS_ONESHOT, MODS_TAP_TOGGLE
<1> QED BY <1>1, <1>3, <1>10, CountUndecided

LEMMA CountedNext ==
    ASSUME NEW k, tapping_key'.key = k
    PROVE  Counted(tapping_key.key)' <=> Counted(k)'
BY DEF Counted

LEMMA CountFirstTap ==
    ASSUME Reversible, Sound(kb), NEW rec, Call(rec), CountInv, FirstTap(rec)
    PROVE  CountInv'
<1> DEFINE k == tapping_key.key
           tap == FirstTapOf
           a == layer_switch_get_action(kb, tap)
<1>1. /\ Undecided /\ tapping_key \in Records
      /\ tap \in Records /\ tap.key = k /\ tap.pressed = TRUE /\ tap.count = 1
      /\ tap.interrupted = tapping_key.interrupted
      /\ rec \in Records /\ rec.key = k /\ OwnRelease(rec) /\ WITHIN_TAPPING_TERM(rec)
      /\ kb' = process_action(kb, tap) /\ Settles(k, TRUE) /\ (toggled => toggled')
      /\ tapping_key'.key = k /\ tapping_key'.pressed = TRUE
      /\ tapping_key'.interrupted = tapping_key.interrupted
      /\ tapping_key'.count = IF Cancels(kb, tap) THEN 0 ELSE 1
      /\ \E x : /\ KeptAs(rec, x) /\ x.key = rec.key /\ x.pressed = FALSE
                /\ x.count = tapping_key'.count
  BY FirstTapShape
<1>2. PICK x : /\ KeptAs(rec, x) /\ x.key = rec.key /\ x.pressed = FALSE
               /\ x.count = tapping_key'.count
  BY <1>1
<1>3. /\ Engine /\ kb \in Kb /\ pc \in {"scan", "drain"} /\ k \in Keys /\ k # NOEVENT
      /\ pc = "drain" => rec = waiting_buffer[1] /\ 1 \in Slots
  BY <1>1, CallFacts, RecordFields DEF Engine
<1>4. settled'[k] = TRUE /\ DoesAt(kb', k) = a
  <2>1. settled'[k] = TRUE
    BY <1>1, <1>3 DEF Settles
  <2>2. DoesAt(process_action(kb, tap), tap.key) = layer_switch_get_action(kb, tap)
    BY <1>1, <1>3, ActDoes
  <2> QED BY <1>1, <2>1, <2>2
<1>5. IS_TAPPING' /\ IS_TAPPING_PRESSED'
  BY <1>1, <1>3 DEF IS_TAPPING, IS_TAPPING_PRESSED
<1>6. CASE Cancels(kb, tap)
  <2>1. tapping_key'.count = 0 /\ x.count = 0 /\ ~(0 > 0)
    BY <1>1, <1>2, <1>6
  <2>2. CountedFirst'
    BY <1>2, <2>1, CountedFirstKept DEF CountInv
  <2>3. Undecided'
    BY <1>5, <2>1 DEF Undecided
  <2>4. ~Counted(k)'
    <3>1. ~Counted(k)
      BY <1>1 DEF CountInv, UndecidedPress
    <3>2. \A m : Counted(m)' => Counted(m)
      BY <1>2, <2>1, CountsKept
    <3>3. PICK m : m = k
      OBVIOUS
    <3> QED BY <1>1, <3>1, <3>2, <3>3, CountedNext
  <2>5. IsCancellable(a) /\ tapping_key'.interrupted
    BY <1>1, <1>6 DEF Cancels, IsCancellable, TapModes
  <2>6. UndecidedPress'
    <3>1. Does(tapping_key.key)' = a
      BY <1>1, <1>4 DEF Does
    <3>2. settled'[tapping_key'.key] = TRUE
      BY <1>1, <1>4
    <3>3. IsCancellable(Does(tapping_key.key))'
      BY <2>5, <3>1 DEF IsCancellable, TapModes, MODS_ONESHOT, MODS_TAP_TOGGLE
    <3> QED BY <2>4, <2>5, <3>2, <3>3 DEF UndecidedPress
  <2> QED BY <2>2, <2>3, <2>6, CountUndecided
<1>7. CASE ~Cancels(kb, tap)
  <2>1. tapping_key'.count = 1 /\ x.count = 1 /\ ~Undecided'
    BY <1>1, <1>2, <1>7 DEF Undecided
  <2>2. ~settled[k]
    <3>1. SUFFICES ASSUME settled[k] PROVE FALSE
      OBVIOUS
    <3>2. a = Does(k) /\ IsCancellable(Does(k)) /\ tapping_key.interrupted
      BY <1>1, <1>3, <3>1, SettledFixed DEF Reversible
    <3> QED BY <1>1, <1>7, <3>2 DEF Cancels, IsCancellable, TapModes
  <2>3. pc = "scan"
    <3>1. \A j \in Slots : OwnRelease(waiting_buffer[j]) => ~WITHIN_TAPPING_TERM(waiting_buffer[j])
      BY <1>1, <2>2 DEF CountInv, UndecidedPress
    <3> QED BY <1>1, <1>3, <3>1
  <2>4. \A i \in Slots : waiting_buffer[i].key # k
    BY <1>1, <2>2, <2>3, OwnNone
  <2>5. CountedFirst'
    BY <1>1, <1>2, <2>4, CountedFirstKept DEF CountInv
  <2>6. TapSettled'
    <3>1. Counted(tapping_key.key)'
      <4>1. Counted(rec.key)'
        BY <1>1, <1>2, <1>3, <2>1, CountsKept
      <4>2. PICK p \in Slots' : waiting_buffer'[p].key = rec.key /\ waiting_buffer'[p].count > 0
        <5>1. \A m : Counted(m)' => \E p \in Slots' : waiting_buffer'[p].key = m
                                                      /\ waiting_buffer'[p].count > 0
          BY DEF Counted
        <5>2. x.key = rec.key /\ x.count > 0
          BY <1>2, <2>1
        <5> QED BY <1>1, <1>2, <1>3, <5>2 DEF KeptAs
      <4> QED BY <1>1, <4>2 DEF Counted
    <3> QED BY <1>1, <1>4, <2>1, <3>1 DEF TapSettled, Reversible
  <2>7. NoSecondTap'
    <3> SUFFICES ASSUME NEW i \in Slots', waiting_buffer'[i].key = tapping_key'.key,
                        waiting_buffer'[i].pressed
                 PROVE  FALSE
      BY DEF NoSecondTap
    <3>1. waiting_buffer'[i] # x
      BY <1>2
    <3>2. i \in Slots /\ waiting_buffer'[i] = waiting_buffer[i]
      BY <1>1, <1>2, <1>3, <3>1 DEF KeptAs
    <3> QED BY <1>1, <2>4, <3>2
  <2> QED BY <2>1, <2>5, <2>6, <2>7, CountNotUndecided
<1> QED BY <1>6, <1>7

LEMMA NoSecondRemoved ==
    ASSUME NoSecondTap, Removed,
           IS_TAPPING' /\ tapping_key'.count > 0 =>
              IS_TAPPING /\ tapping_key.count > 0 /\ tapping_key'.key = tapping_key.key
    PROVE  NoSecondTap'
<1>1. PICK d \in {0, 1} :
        \A i \in Slots' : i + d \in Slots /\ waiting_buffer'[i] = waiting_buffer[i + d]
  BY DEF Removed
<1>2. \A i, j \in Slots' : i < j => i + d < j + d
  BY DEF Slots
<1> QED BY <1>1, <1>2 DEF NoSecondTap, OwnRelease, IS_TAPPING_KEY

LEMMA CountPasses ==
    ASSUME Undoes, NEW rec, Call(rec), CountInv, kb'.keymap = kb.keymap,
           ReleaseAtOnce(rec) \/ EventDuringTap(rec) \/ EventAfterTap(rec) \/ PlainEvent(rec)
    PROVE  CountInv'
<1> DEFINE k == tapping_key.key
<1>1. /\ Removed /\ kb' = Act(rec) /\ Settles(rec.key, rec.pressed) /\ (toggled => toggled')
      /\ ~OwnRelease(rec) \/ ~Tapped
      /\ ~Undecided \/ (~rec.pressed /\ ~waiting_buffer_typed(rec) /\ ~OwnRelease(rec))
      /\ IS_TAPPING' <=> IS_TAPPING
      /\ Tapped' <=> Tapped
      /\ Undecided' <=> Undecided
      /\ tapping_key'.key = k /\ tapping_key'.time = tapping_key.time
      /\ tapping_key'.count = tapping_key.count
      /\ tapping_key'.pressed = tapping_key.pressed
      /\ Undecided => tapping_key'.interrupted = tapping_key.interrupted
  BY PassShape
<1>2. /\ Engine /\ kb \in Kb
      /\ rec.key # NOEVENT => rec \in Records /\ rec.key \in Keys /\ rec.pressed \in BOOLEAN
      /\ rec.key = NOEVENT => ~rec.pressed
  BY CallFacts DEF Engine
<1>3. pc = "scan" /\ rec.key # NOEVENT =>
         /\ \A i \in Slots : waiting_buffer[i].key # rec.key
         /\ EventsOf(waiting_buffer, rec.key) = <<>>
  BY <1>1, NoneOfKey
<1>4. CountedFirst'
  BY <1>1, CountedFirstRemoved DEF CountInv
<1>5. /\ \A m : m # rec.key => (Counted(m)' <=> Counted(m))
      /\ \A m : Counted(m)' => Counted(m)
  BY <1>1, <1>3, CountsRemoved DEF CountInv
<1>6. Counted(tapping_key.key)' <=> Counted(k)'
  <2>1. PICK m : m = k
    OBVIOUS
  <2> QED BY <1>1, CountedNext
<1>7. NoSecondTap'
  BY <1>1, NoSecondRemoved DEF CountInv
<1>8. CASE Undecided
  <2>1. IS_TAPPING /\ k \in Keys /\ k # NOEVENT
    BY <1>2, <1>8, TapStates DEF IS_TAPPING
  <2>2. rec.key # k
    BY <1>1, <1>8, <2>1 DEF OwnRelease, IS_TAPPING_KEY
  <2>3. settled'[k] = settled[k]
    BY <1>1, <2>1, <2>2 DEF Settles
  <2>4. ~Counted(tapping_key.key)'
    <3>1. ~Counted(k)
      BY <1>8 DEF CountInv, UndecidedPress
    <3>2. PICK m : m = k
      OBVIOUS
    <3>3. ~Counted(m)'
      BY <1>5, <3>1, <3>2
    <3> QED BY <1>1, <3>2, <3>3, CountedNext
  <2>5. Does(tapping_key.key)' = Does(k)
    <3>1. kb' = IF rec.key = NOEVENT THEN kb ELSE process_action(kb, rec)
      BY <1>1 DEF Act
    <3>2. DoesAt(kb', k) = DoesAt(kb, k)
      BY <1>1, <1>2, <1>8, <3>1, ActDoes
    <3> QED BY <1>1, <3>2 DEF Does
  <2>6. settled[k] => IsCancellable(Does(k)) /\ tapping_key.interrupted
    BY <1>8 DEF CountInv, UndecidedPress
  <2>7. ASSUME ~settled[k], NEW j \in Slots', OwnRelease(waiting_buffer[j])'
        PROVE  ~WITHIN_TAPPING_TERM(waiting_buffer[j])'
    <3>1. PICK i \in Slots : waiting_buffer'[j] = waiting_buffer[i]
      BY <1>1 DEF Removed
    <3>2. OwnRelease(waiting_buffer[i])
      BY <1>1, <2>1, <2>7, <3>1 DEF OwnRelease, IS_TAPPING_KEY
    <3>3. ~WITHIN_TAPPING_TERM(waiting_buffer[i])
      BY <1>8, <2>7, <3>2 DEF CountInv, UndecidedPress
    <3> QED BY <1>1, <3>1, <3>3 DEF WITHIN_TAPPING_TERM
  <2>8. UndecidedPress'
    <3>1. settled'[tapping_key'.key] = settled[k]
      BY <1>1, <2>3
    <3>2. IsCancellable(Does(k)) => IsCancellable(Does(tapping_key.key))'
      BY <2>5 DEF IsCancellable, TapModes, MODS_ONESHOT, MODS_TAP_TOGGLE
    <3> QED BY <1>1, <1>8, <2>4, <2>6, <2>7, <3>1, <3>2 DEF UndecidedPress
  <2> QED BY <1>1, <1>4, <1>8, <2>8, CountUndecided
<1>9. CASE ~Undecided
  <2>1. TapSettled'
    <3> SUFFICES ASSUME Tapped
                 PROVE  /\ settled'[tapping_key'.key]
                        /\ Counted(tapping_key.key)' <=> tapping_key'.count = 1
                        /\ (/\ tapping_key'.count >= TAPPING_TOGGLE
                            /\ HasTapCode(tapping_key.key, MODS_TAP_TOGGLE)') => toggled'
      BY <1>1 DEF TapSettled, MODS_TAP_TOGGLE
    <3>1. IS_TAPPING /\ k \in Keys /\ k # NOEVENT
      BY <1>2, TapStates DEF IS_TAPPING
    <3>2. settled[k] /\ (Counted(k) <=> tapping_key.count = 1)
      BY DEF CountInv, TapSettled
    <3>3. rec.key # k
      <4>1. SUFFICES ASSUME rec.key = k PROVE FALSE
        OBVIOUS
      <4>2. rec.pressed
        BY <1>1, <3>1, <4>1 DEF OwnRelease, IS_TAPPING_KEY
      <4>3. ~Holds(rec.key)
        BY <1>9 DEF Holds
      <4>4. settled[rec.key] = ~rec.pressed
        BY <1>3, <3>1, <4>1, <4>3, FirstOfKey
      <4> QED BY <3>2, <4>1, <4>2, <4>4
    <3>4. settled'[k] = settled[k]
      BY <1>1, <3>1, <3>3 DEF Settles
    <3>5. Counted(tapping_key.key)' <=> Counted(k)
      <4>1. PICK m : m = k
        OBVIOUS
      <4>2. Counted(m)' <=> Counted(m)
        BY <1>5, <3>3, <4>1
      <4> QED BY <1>1, <4>1, <4>2, CountedNext
    <3>6. HasTapCode(tapping_key.key, MODS_TAP_TOGGLE)' <=> HasTapCode(k, MODS_TAP_TOGGLE)
      BY <1>1 DEF HasTapCode, ActionsOf, action_for_key, MODS_TAP_TOGGLE
    <3>7. /\ tapping_key.count >= TAPPING_TOGGLE
          /\ HasTapCode(k, MODS_TAP_TOGGLE) 
          => toggled
      BY DEF CountInv, TapSettled
    <3> QED BY <1>1, <3>2, <3>4, <3>5, <3>6, <3>7
  <2> QED BY <1>1, <1>4, <1>7, <1>9, <2>1, CountNotUndecided
<1> QED BY <1>8, <1>9

LEMMA CountReleased ==
    ASSUME NEW rec, Call(rec), CountInv, TapReleased(rec)
    PROVE  CountInv'
<1>1. /\ Removed /\ Tapped /\ ~Undecided' /\ ~Tapped'
      /\ IS_TAPPING' => /\ tapping_key'.key = tapping_key.key
                        /\ tapping_key'.count = tapping_key.count
  BY ReleasedShape
<1>2. IS_TAPPING /\ tapping_key.count > 0
  BY <1>1 DEF Tapped, IS_TAPPING_PRESSED
<1>3. CountedFirst'
  BY <1>1, CountedFirstRemoved DEF CountInv
<1>4. NoSecondTap'
  BY <1>1, <1>2, NoSecondRemoved DEF CountInv
<1>5. TapSettled'
  BY <1>1 DEF TapSettled
<1> QED BY <1>1, <1>3, <1>4, <1>5, CountNotUndecided

(* What is left of the records of a key whose press was taken.             *)
LEMMA PressTaken ==
    ASSUME NEW rec, Call(rec), CountInv, rec \in Records, rec.pressed, ~Undecided
    PROVE  /\ settled[rec.key] = FALSE
           /\ Removed => /\ CountedFirst'
                         /\ ~Counted(rec.key)'
                         /\ \A j \in Slots' : waiting_buffer'[j].key = rec.key =>
                               \E i \in Slots : i > 1 /\ pc = "drain"
                                                /\ waiting_buffer'[j] = waiting_buffer[i]
<1>1. rec.key # NOEVENT /\ pc \in {"scan", "drain"} /\ rec.key \in Keys
  BY CallFacts
<1>2. pc = "scan" => /\ \A i \in Slots : waiting_buffer[i].key # rec.key
                     /\ EventsOf(waiting_buffer, rec.key) = <<>>
  BY <1>1, NoneOfKey
<1>3. settled[rec.key] = FALSE
  BY <1>1, <1>2, FirstOfKey DEF Holds
<1>4. ASSUME Removed
      PROVE  CountedFirst' /\ ~Counted(rec.key)'
  BY <1>1, <1>2, <1>4, CountedFirstRemoved, CountsRemoved DEF CountInv
<1>5. ASSUME Removed, NEW j \in Slots', waiting_buffer'[j].key = rec.key
      PROVE  \E i \in Slots : i > 1 /\ pc = "drain" /\ waiting_buffer'[j] = waiting_buffer[i]
  <2>1. PICK d \in {0, 1} : (d = 1 <=> pc = "drain")
                            /\ j + d \in Slots /\ waiting_buffer'[j] = waiting_buffer[j + d]
    BY <1>5 DEF Removed
  <2>2. d = 1 /\ pc = "drain"
    BY <1>1, <1>2, <1>5, <2>1
  <2>3. j + 1 > 1
    BY <1>5 DEF Slots
  <2> QED BY <2>1, <2>2, <2>3
<1> QED BY <1>3, <1>4, <1>5

LEMMA CountSequential ==
    ASSUME NEW rec, Call(rec), CountInv, SequentialTap(rec), TapMax > 1,
           kb'.keymap = kb.keymap
    PROVE  CountInv'
<1> DEFINE t == NextTapOf(rec)
<1>1. /\ Removed /\ Settles(rec.key, TRUE) /\ toggled' = (toggled \/ ToggleTaps(t))
      /\ IS_TAPPING_RELEASED /\ rec \in Records /\ rec.key = tapping_key.key
      /\ rec.pressed = TRUE /\ tapping_key.count > 0
      /\ t.key = rec.key /\ t.pressed = TRUE /\ t.count > 1 /\ tapping_key' = t /\ t \in Records
  BY SequentialShape
<1> HIDE DEF t
<1>2. IS_TAPPING /\ ~Undecided /\ rec.key \in Keys /\ t.count \in Nat
  BY <1>1, RecordFields, RecordBits DEF IS_TAPPING_RELEASED, Undecided, IS_TAPPING_PRESSED
<1>3. ~Undecided'
  BY <1>1, <1>2 DEF Undecided
<1>4. CountedFirst' /\ ~Counted(rec.key)'
  BY <1>1, <1>2, PressTaken
<1>5. NoSecondTap'
  BY <1>1, <1>2, NoSecondRemoved DEF CountInv
<1>6. TapSettled'
  <2>1. settled'[tapping_key'.key]
    BY <1>1, <1>2 DEF Settles
  <2>2. ~Counted(tapping_key.key)' /\ tapping_key'.count # 1
    <3>1. PICK m : m = rec.key
      OBVIOUS
    <3>2. ~Counted(m)'
      BY <1>4, <3>1 DEF Counted
    <3> QED BY <1>1, <1>2, <3>1, <3>2 DEF Counted
  <2>3. ASSUME tapping_key'.count >= TAPPING_TOGGLE,
               HasTapCode(tapping_key.key, MODS_TAP_TOGGLE)'
        PROVE  toggled'
    <3>1. HasTapCode(rec.key, MODS_TAP_TOGGLE)
      BY <1>1, <2>3 DEF HasTapCode, ActionsOf, action_for_key, MODS_TAP_TOGGLE
    <3> QED BY <1>1, <2>3, <3>1 DEF ToggleTaps
  <2> QED BY <2>1, <2>2, <2>3 DEF TapSettled
<1> QED BY <1>3, <1>4, <1>5, <1>6, CountNotUndecided

LEMMA CountAgain ==
    ASSUME NEW rec, Call(rec), CountInv, StartAgain(rec)
    PROVE  CountInv'
<1>1. /\ Removed /\ SettlesNone /\ IS_TAPPING_RELEASED /\ rec \in Records
      /\ rec.key = tapping_key.key /\ rec.pressed = TRUE /\ tapping_key' = rec /\ rec.count = 0
      /\ Undecided' /\ ~Undecided
  BY AgainShape
<1>2. IS_TAPPING /\ rec.key \in Keys /\ tapping_key.count > 0
  <2>1. TapState
    BY DEF Call, OrderInv, TapInv
  <2> QED BY <1>1, <2>1, RecordFields DEF TapState, IS_TAPPING_RELEASED
<1>3. /\ CountedFirst' /\ ~Counted(rec.key)' /\ settled[rec.key] = FALSE
      /\ \A j \in Slots' : waiting_buffer'[j].key = rec.key =>
            \E i \in Slots : i > 1 /\ pc = "drain" /\ waiting_buffer'[j] = waiting_buffer[i]
  BY <1>1, PressTaken
<1>4. settled'[tapping_key'.key] = FALSE
  BY <1>1, <1>2, <1>3 DEF SettlesNone
<1>5. ~Counted(tapping_key.key)'
  BY <1>1, <1>3 DEF Counted
<1>6. ASSUME NEW j \in Slots', OwnRelease(waiting_buffer[j])'
      PROVE  FALSE
  <2>1. waiting_buffer'[j].key = rec.key /\ ~waiting_buffer'[j].pressed
    BY <1>1, <1>6 DEF OwnRelease, IS_TAPPING_KEY
  <2>2. PICK i \in Slots : i > 1 /\ pc = "drain" /\ waiting_buffer'[j] = waiting_buffer[i]
    BY <1>3, <2>1
  <2>3. rec = waiting_buffer[1] /\ 1 \in Slots
    BY <2>2, CallFacts
  <2>4. OwnRelease(waiting_buffer[i])
    BY <1>1, <1>2, <2>1, <2>2 DEF OwnRelease, IS_TAPPING_KEY
  <2> QED BY <1>1, <1>2, <2>2, <2>3, <2>4 DEF CountInv, NoSecondTap
<1>7. UndecidedPress'
  BY <1>4, <1>5, <1>6 DEF UndecidedPress
<1> QED BY <1>1, <1>3, <1>7, CountUndecided

LEMMA CountStartsOnly ==
    ASSUME NEW rec, Call(rec), CountInv, rec \in Records, rec.pressed, ~Undecided,
           StartsOnly(rec)
    PROVE  CountInv'
<1>1. /\ TapRelease(rec) = {} /\ Removed /\ tapping_key' = rec /\ SettlesNone /\ Undecided'
      /\ rec.key \in Keys
  BY RecordFields DEF StartsOnly
<1>3. /\ CountedFirst' /\ ~Counted(rec.key)' /\ settled[rec.key] = FALSE
      /\ \A j \in Slots' : waiting_buffer'[j].key = rec.key =>
            \E i \in Slots : i > 1 /\ pc = "drain" /\ waiting_buffer'[j] = waiting_buffer[i]
  BY <1>1, PressTaken
<1>4. settled'[tapping_key'.key] = FALSE
  BY <1>1, <1>3 DEF SettlesNone
<1>5. ~Counted(tapping_key.key)'
  BY <1>1, <1>3 DEF Counted
<1>6. ASSUME NEW j \in Slots', OwnRelease(waiting_buffer[j])'
      PROVE  ~WITHIN_TAPPING_TERM(waiting_buffer[j])'
  <2>1. waiting_buffer'[j].key = rec.key /\ ~waiting_buffer'[j].pressed
    BY <1>1, <1>6 DEF OwnRelease, IS_TAPPING_KEY
  <2>2. PICK i \in Slots : waiting_buffer'[j] = waiting_buffer[i]
    BY <1>3, <2>1
  <2>3. ~(TIMER_DIFF_16(waiting_buffer[i].time, rec.time) < TAPPING_TERM)
    BY <1>1, <2>1, <2>2 DEF TapRelease, Slots
  <2> QED BY <1>1, <2>2, <2>3 DEF WITHIN_TAPPING_TERM
<1>7. UndecidedPress'
  BY <1>4, <1>5, <1>6 DEF UndecidedPress
<1> QED BY <1>1, <1>3, <1>7, CountUndecided

(* The release that is counted is the first record of its key behind the   *)
(* press that is taken.                                                    *)
LEMMA FirstRelease ==
    ASSUME NEW rec, Call(rec), pc = "drain", rec \in Records, rec.pressed, TapKey(rec.key),
           NEW i \in Slots, i \in TapRelease(rec), \A j \in TapRelease(rec) : i <= j,
           NEW m \in Slots, 1 < m, m < i
    PROVE  waiting_buffer[m].key # rec.key
<1>1. /\ rec = waiting_buffer[1] /\ 1 \in Slots /\ Engine /\ now \in Times
      /\ QueueInv /\ OneTapWaits
  BY CallFacts DEF Call, OrderInv
<1>2. SUFFICES ASSUME waiting_buffer[m].key = rec.key PROVE FALSE
  OBVIOUS
<1>3. ~waiting_buffer[m].pressed
  BY <1>1, <1>2 DEF OneTapWaits, TapPress
<1>4. TIMER_DIFF_16(waiting_buffer[i].time, rec.time) < TAPPING_TERM
  BY DEF TapRelease
<1>5. /\ rec.time \in Times /\ waiting_buffer[m].time \in Times
      /\ waiting_buffer[i].time \in Times
  BY <1>1, BufferType
<1>6. AgeAt(now, rec.time) >= AgeAt(now, rec.time)
  <2>1. AgeAt(now, rec.time) \in Times
    BY <1>1, <1>5, Ages
  <2> QED BY <2>1 DEF Times
<1>7. /\ AgeAt(now, rec.time) >= AgeAt(now, waiting_buffer[m].time)
      /\ AgeAt(now, waiting_buffer[m].time) >= AgeAt(now, waiting_buffer[i].time)
  BY <1>1 DEF QueueInv, Age
<1>8. TIMER_DIFF_16(waiting_buffer[m].time, rec.time)
        <= TIMER_DIFF_16(waiting_buffer[i].time, rec.time)
  BY <1>1, <1>5, <1>6, <1>7, InnerDiff
<1>9. TIMER_DIFF_16(waiting_buffer[m].time, rec.time) < TAPPING_TERM
  <2>1. /\ TIMER_DIFF_16(waiting_buffer[m].time, rec.time) \in Int
        /\ TIMER_DIFF_16(waiting_buffer[i].time, rec.time) \in Int
    <3>1. SUFFICES ASSUME NEW s \in Times, NEW t \in Times PROVE TIMER_DIFF_16(s, t) \in Int
      BY <1>5
    <3> QED BY TimerDiff, TappingAssumption DEF Times
  <2> QED BY <1>4, <1>8, <2>1, TappingAssumption
<1>10. m \in TapRelease(rec)
  BY <1>2, <1>3, <1>9 DEF TapRelease, Slots
<1> QED BY <1>10 DEF Slots

LEMMA CountStartsAsTap ==
    ASSUME NEW rec, Call(rec), CountInv, rec \in Records, rec.pressed, TapKey(rec.key),
           TapOf(rec).key = rec.key, TapOf(rec).pressed = TRUE, TapOf(rec).count = 1,
           TAPPING_TOGGLE \in Nat, TAPPING_TOGGLE > 1, StartsAsTap(rec)
    PROVE  CountInv'
<1> DEFINE k == rec.key
<1>1. /\ CountsRelease(rec) /\ tapping_key' = TapOf(rec) /\ Settles(rec.key, TRUE) /\ Tapped'
      /\ k \in Keys
  BY RecordFields DEF StartsAsTap
<1>2. PICK i \in Slots :
          /\ i > 1 /\ waiting_buffer[i].key = k /\ ~waiting_buffer[i].pressed
          /\ i \in TapRelease(rec) /\ \A j \in TapRelease(rec) : i <= j
          /\ i - 1 \in Slots' /\ waiting_buffer'[i - 1].count = 1
          /\ waiting_buffer'[i - 1].key = k /\ ~waiting_buffer'[i - 1].pressed
          /\ \A j \in Slots' : /\ j + 1 \in Slots
                               /\ j + 1 # i => waiting_buffer'[j] = waiting_buffer[j + 1]
  BY <1>1 DEF CountsRelease
<1>3. /\ pc = "drain" /\ rec = waiting_buffer[1] /\ 1 \in Slots /\ OneTapWaits
  BY <1>1, CallFacts DEF CountsRelease, Call
<1>4. \A j \in Slots' : /\ j \in Nat /\ j >= 1
                        /\ j = i - 1 => j + 1 = i
                        /\ waiting_buffer'[j].key = waiting_buffer[j + 1].key
  <2>1. SUFFICES ASSUME NEW j \in Slots'
                 PROVE  /\ j \in Nat /\ j >= 1
                        /\ j = i - 1 => j + 1 = i
                        /\ waiting_buffer'[j].key = waiting_buffer[j + 1].key
    OBVIOUS
  <2>2. j \in Nat /\ j >= 1 /\ i \in Nat
    BY DEF Slots
  <2>3. j + 1 = i => j = i - 1
    BY <2>2
  <2> QED BY <1>2, <2>2, <2>3
<1>5. CountedFirst'
  <2> SUFFICES ASSUME NEW p \in Slots', NEW q \in Slots',
                      waiting_buffer'[p].count > 0, q < p
               PROVE  waiting_buffer'[p].key # waiting_buffer'[q].key
    BY DEF CountedFirst
  <2>1. q + 1 < p + 1 /\ 1 < q + 1 /\ p + 1 \in Slots /\ q + 1 \in Slots
    BY <1>2, <1>4
  <2>2. CASE p + 1 = i
    BY <1>2, <1>3, <1>4, <2>1, <2>2, FirstRelease
  <2>3. CASE p + 1 # i
    BY <1>2, <1>4, <2>1, <2>3 DEF CountInv, CountedFirst
  <2> QED BY <2>2, <2>3
<1>6. NoSecondTap'
  <2> SUFFICES ASSUME NEW j \in Slots', waiting_buffer'[j].key = tapping_key'.key,
                      waiting_buffer'[j].pressed
               PROVE  FALSE
    BY DEF NoSecondTap
  <2>1. j + 1 # i
    <3>1. j + 1 = i => j = i - 1
      BY <1>4 DEF Slots
    <3> QED BY <1>2, <3>1
  <2>2. j + 1 \in Slots /\ waiting_buffer'[j] = waiting_buffer[j + 1] /\ 1 # j + 1
    BY <1>2, <1>4, <2>1
  <2> QED BY <1>1, <1>3, <2>2 DEF OneTapWaits, TapPress
<1>7. TapSettled'
  <2>1. settled'[tapping_key'.key]
    BY <1>1 DEF Settles
  <2>2. Counted(tapping_key.key)' /\ tapping_key'.count = 1
    <3>1. tapping_key'.key = k /\ tapping_key'.count = 1 /\ 1 > 0
      BY <1>1
    <3> QED BY <1>2, <3>1 DEF Counted
  <2>3. ~(tapping_key'.count >= TAPPING_TOGGLE)
    BY <2>2
  <2> QED BY <2>1, <2>2, <2>3 DEF TapSettled
<1>8. ~Undecided'
  BY <1>1 DEF Undecided
<1> QED BY <1>5, <1>6, <1>7, <1>8, CountNotUndecided

LEMMA CallKeymapSame ==
    ASSUME NEW rec, Call(rec), process_tapping(rec)
    PROVE  kb'.keymap = kb.keymap
BY CallFacts, CallKeymap

LEMMA CountStarts ==
    ASSUME Reversible, NEW rec, Call(rec), CountInv,
           NextTapKey(rec) \/ OtherTapKey(rec) \/ PressTapKey(rec)
    PROVE  CountInv'
<1>1. /\ ~Undecided /\ rec \in Records /\ rec.pressed = TRUE /\ TapKey(rec.key)
      /\ TapOf(rec).key = rec.key /\ TapOf(rec).pressed = TRUE
      /\ TapOf(rec).count = 1
      /\ StartsOnly(rec) \/ StartsAsTap(rec)
  BY StartShape
<1> QED BY <1>1, CountStartsOnly, CountStartsAsTap DEF Reversible

LEMMA CountCall ==
    ASSUME Reversible, Sound(kb), NEW rec, Call(rec), CountInv, process_tapping(rec)
    PROVE  CountInv'
<1>1. kb'.keymap = kb.keymap
  BY CallKeymapSame
<1>2. CASE FirstTap(rec)
  BY <1>2, CountFirstTap
<1>3. CASE RetainModifier(rec) \/ WaitForDecision(rec)
  BY <1>3, CountWaits
<1>4. CASE ReleaseAtOnce(rec) \/ EventDuringTap(rec) \/ EventAfterTap(rec) \/ PlainEvent(rec)
  BY <1>1, <1>4, CountPasses DEF Reversible
<1>5. CASE Timeout(rec) \/ TapExpires(rec)
  BY <1>5, CountExpires
<1>6. CASE TapReleased(rec)
  BY <1>6, CountReleased
<1>7. CASE SequentialTap(rec)
  BY <1>1, <1>7, CountSequential DEF Reversible
<1>8. CASE StartAgain(rec)
  BY <1>8, CountAgain
<1>9. CASE NextTapKey(rec) \/ OtherTapKey(rec) \/ PressTapKey(rec)
  BY <1>9, CountStarts
<1> QED BY <1>2, <1>3, <1>4, <1>5, <1>6, <1>7, <1>8, <1>9 DEF process_tapping

LEMMA CountStutters ==
    ASSUME CountInv, UNCHANGED <<tapping_key, waiting_buffer, kb, settled, toggled>>
    PROVE  CountInv'
<1>1. /\ tapping_key' = tapping_key /\ waiting_buffer' = waiting_buffer /\ kb' = kb
      /\ settled' = settled /\ toggled' = toggled
  OBVIOUS
<1>2. CountedFirst' /\ NoSecondTap'
  BY <1>1 DEF CountInv, CountedFirst, NoSecondTap, Slots, IS_TAPPING, OwnRelease,
     IS_TAPPING_KEY
<1>3. TapSettled'
  BY <1>1 DEF CountInv, TapSettled, Tapped, IS_TAPPING_PRESSED, IS_TAPPING, Counted, Slots,
     HasTapCode, ActionsOf, action_for_key, MODS_TAP_TOGGLE
<1>4. UndecidedPress'
  BY <1>1 DEF CountInv, UndecidedPress, Undecided, IS_TAPPING_PRESSED, IS_TAPPING, Counted,
     Slots, IsCancellable, TapModes, MODS_ONESHOT, MODS_TAP_TOGGLE, Does, DoesAt,
     action_for_key, OwnRelease, IS_TAPPING_KEY, WITHIN_TAPPING_TERM
<1> QED BY <1>2, <1>3, <1>4 DEF CountInv

LEMMA CountInit == Init => CountInv
<1> SUFFICES ASSUME Init PROVE CountInv
  OBVIOUS
<1>1. waiting_buffer = <<>> /\ tapping_key = NoTapping
  BY DEF Init
<1>2. ~IS_TAPPING
  BY <1>1 DEF IS_TAPPING, NoTapping, Record
<1>3. Slots = {}
  BY <1>1, EmptySeq DEF Slots
<1> QED BY <1>2, <1>3 DEF CountInv, CountedFirst, TapSettled, UndecidedPress, NoSecondTap,
       Tapped, Undecided, IS_TAPPING_PRESSED

-----------------------------------------------------------------------------
(* What is held, and by which keys                                         *)

Mode(k) ==
    IF Tapped /\ IS_TAPPING_KEY(k) THEN tapping_key.count
    ELSE IF Counted(k) THEN 1 ELSE 0

Held(part) == UNION {Load(Does(k), Mode(k), part) : k \in {j \in Keys : settled[j]}}

GripInv ==
    \A part \in Parts : (part = "real" /\ toggled) \/ Grip(kb, part) \subseteq Held(part)

\* a key that is down goes on to hold what it holds
Kept(k) == settled[k] => settled'[k] /\ Does(k)' = Does(k) /\ Mode(k)' = Mode(k)

LEMMA HeldBy ==
    ASSUME NEW k \in Keys, settled'[k], NEW part
    PROVE  Load(Does(k)', Mode(k)', part) \subseteq Held(part)'
BY DEF Held

LEMMA HeldStill ==
    ASSUME NEW x, \A k \in Keys : k # x => Kept(k), NEW part
    PROVE  Held(part) \ Load(Does(x), Mode(x), part) \subseteq Held(part)'
BY DEF Held, Kept

(* The release of one key, which takes what that key holds.                *)
LEMMA GripFreed ==
    ASSUME GripInv, toggled => toggled', NEW x, \A k \in Keys : k # x => Kept(k),
           \A part \in Parts :
              \/ part = "real" /\ toggled'
              \/ Grip(kb', part) \subseteq
                    (Grip(kb, part) \ Load(Does(x), Mode(x), part)) \cup Held(part)'
    PROVE  GripInv'
<1> SUFFICES ASSUME NEW part \in Parts, ~(part = "real" /\ toggled')
             PROVE  Grip(kb', part) \subseteq Held(part)'
  BY DEF GripInv
<1>1. Grip(kb, part) \subseteq Held(part)
  BY DEF GripInv
<1>2. Held(part) \ Load(Does(x), Mode(x), part) \subseteq Held(part)'
  BY HeldStill
<1> QED BY <1>1, <1>2

(* No key lets go of anything.                                             *)
LEMMA GripTaken ==
    ASSUME GripInv, toggled => toggled', \A k \in Keys : Kept(k),
           \A part \in Parts : Grip(kb', part) \subseteq Grip(kb, part) \cup Held(part)'
    PROVE  GripInv'
<1> SUFFICES ASSUME NEW part \in Parts, ~(part = "real" /\ toggled')
             PROVE  Grip(kb', part) \subseteq Held(part)'
  BY DEF GripInv
<1>1. Grip(kb, part) \subseteq Held(part)
  BY DEF GripInv
<1>2. Held(part) \subseteq Held(part)'
  BY DEF Held, Kept
<1> QED BY <1>1, <1>2

(* What every step does to what is held and to the recorded layers.        *)
Carried ==
    /\ Sound(kb)' /\ GripInv'
    /\ \A k \in Keys : settled[k] => kb'.pressed[k] = kb.pressed[k]

LEMMA SameCarried ==
    ASSUME Sound(kb), GripInv, toggled => toggled', kb' = kb,
           \A k \in Keys : settled[k] => settled'[k] /\ Mode(k)' = Mode(k)
    PROVE  Carried
<1>1. \A k \in Keys : Does(k)' = Does(k)
  BY DEF Does, DoesAt, action_for_key
<1>2. \A k \in Keys : Kept(k)
  BY <1>1 DEF Kept
<1>3. \A part \in Parts : Grip(kb', part) \subseteq Grip(kb, part) \cup Held(part)'
  OBVIOUS
<1>4. GripInv'
  BY <1>2, <1>3, GripTaken
<1>5. Sound(kb)'
  BY DEF Sound, Told, Kb, ActionsOf, action_for_key, IsOneShot, IsCancellable, TapModes,
     MODS_ONESHOT, MODS_TAP_TOGGLE
<1> QED BY <1>4, <1>5 DEF Carried

(* A press adds what the key holds from now on.                            *)
LEMMA PressCarried ==
    ASSUME Reversible, Sound(kb), GripInv, toggled => toggled',
           NEW x \in Records, x.pressed, kb' = process_action(kb, x), Settles(x.key, TRUE),
           Mode(x.key)' = Count(layer_switch_get_action(kb, x), x),
           \A k \in Keys : k # x.key /\ settled[k] => Mode(k)' = Mode(k),
           settled[x.key] =>
              /\ layer_switch_get_action(kb, x) = Does(x.key)
              /\ Mode(x.key) = Count(layer_switch_get_action(kb, x), x)
              /\ current_layer_for_key(kb, x.key) = kb.pressed[x.key]
    PROVE  Carried
<1> DEFINE a == layer_switch_get_action(kb, x)
<1>1. kb \in Kb /\ x.key \in Keys
  BY RecordBits DEF Sound
<1>2. /\ Sound(process_action(kb, x)) /\ Effect(kb, process_action(kb, x), a, x)
  BY SoundAct DEF Reversible
<1>3. Sound(kb)'
  BY <1>2 DEF Sound, Told, Kb, ActionsOf, action_for_key, IsOneShot, IsCancellable, TapModes,
     MODS_ONESHOT, MODS_TAP_TOGGLE
<1>4. /\ DoesAt(kb', x.key) = a
      /\ \A k : k # x.key => DoesAt(kb', k) = DoesAt(kb, k) /\ kb'.pressed[k] = kb.pressed[k]
  BY <1>1, ActDoes
<1>5. Does(x.key)' = a /\ \A k \in Keys : k # x.key => Does(k)' = Does(k)
  BY <1>4 DEF Does
<1>6. settled'[x.key] /\ \A k \in Keys : settled[k] => settled'[k]
  BY <1>1 DEF Settles
<1>7. ASSUME NEW k \in Keys PROVE Kept(k)
  <2>1. CASE k = x.key
    BY <1>5, <2>1, <1>6 DEF Kept
  <2>2. CASE k # x.key
    BY <1>5, <2>2, <1>6 DEF Kept
  <2> QED BY <2>1, <2>2
<1>8. ASSUME NEW part \in Parts
      PROVE  Grip(kb', part) \subseteq Grip(kb, part) \cup Held(part)'
  <2>1. Grip(process_action(kb, x), part)
          \subseteq Grip(kb, part) \cup Load(a, Count(a, x), part)
    BY <1>2 DEF Effect
  <2>2. Load(Does(x.key)', Mode(x.key)', part) \subseteq Held(part)'
    BY <1>1, <1>6, HeldBy
  <2>3. Load(a, Count(a, x), part) \subseteq Held(part)'
    BY <1>5, <2>2
  <2> QED BY <2>1, <2>3
<1>9. GripInv'
  BY <1>7, <1>8, GripTaken
<1>10. ASSUME NEW k \in Keys, settled[k] PROVE kb'.pressed[k] = kb.pressed[k]
  <2>1. CASE k # x.key
    BY <1>4, <2>1
  <2>2. CASE k = x.key
    <3>1. Track(kb, x).pressed = [kb.pressed EXCEPT ![x.key] = current_layer_for_key(kb, x.key)]
      BY <1>1 DEF Track, Kb
    <3>2. process_action(kb, x).pressed = Track(kb, x).pressed
      BY <1>1, ActLayers
    <3>3. kb.pressed \in [Keys -> Layers]
      BY <1>1 DEF Kb
    <3>4. process_action(kb, x).pressed[x.key] = current_layer_for_key(kb, x.key)
      BY <1>1, <3>1, <3>2, <3>3
    <3> QED BY <1>10, <2>2, <3>4
  <2> QED BY <2>1, <2>2
<1> QED BY <1>3, <1>9, <1>10 DEF Carried

(* A release takes what its key holds, unless it is the modifier that      *)
(* TAPPING_TOGGLE taps have turned on.                                     *)
LEMMA FreeCarried ==
    ASSUME Reversible, Sound(kb), GripInv, toggled => toggled',
           NEW x \in Records, ~x.pressed, kb' = process_action(kb, x),
           \A k \in Keys : k # x.key /\ settled[k] => settled'[k] /\ Mode(k)' = Mode(k),
           Mode(x.key) = x.count,
           x.count >= TAPPING_TOGGLE /\ HasTapCode(x.key, MODS_TAP_TOGGLE) => toggled'
    PROVE  Carried
<1> DEFINE a == layer_switch_get_action(kb, x)
<1>1. kb \in Kb /\ x.key \in Keys
  BY RecordBits DEF Sound
<1>2. /\ Sound(process_action(kb, x)) /\ Effect(kb, process_action(kb, x), a, x)
      /\ a \in ActionsOf(kb, x.key)
  BY SoundAct DEF Reversible
<1>3. Sound(kb)'
  BY <1>2 DEF Sound, Told, Kb, ActionsOf, action_for_key, IsOneShot, IsCancellable, TapModes,
     MODS_ONESHOT, MODS_TAP_TOGGLE
<1>4. /\ a = DoesAt(kb, x.key)
      /\ \A k : DoesAt(kb', k) = DoesAt(kb, k) /\ kb'.pressed[k] = kb.pressed[k]
  BY <1>1, ActDoes
<1>5. \A k \in Keys : k # x.key => Kept(k)
  BY <1>4 DEF Kept, Does
<1>6. ASSUME NEW part \in Parts
      PROVE  \/ part = "real" /\ toggled'
             \/ Grip(kb', part) \subseteq
                   (Grip(kb, part) \ Load(Does(x.key), Mode(x.key), part)) \cup Held(part)'
  <2>1. \/ Grip(process_action(kb, x), part) \subseteq Grip(kb, part) \ Load(a, x.count, part)
        \/ Stays_On(a, x.count, part)
    BY <1>2 DEF Effect
  <2>2. CASE Grip(process_action(kb, x), part) \subseteq Grip(kb, part) \ Load(a, x.count, part)
    BY <1>4, <2>2 DEF Does
  <2>3. CASE Stays_On(a, x.count, part)
    <3>1. part = "real" /\ x.count >= TAPPING_TOGGLE
      BY <2>3 DEF Stays_On
    <3>2. HasTapCode(x.key, MODS_TAP_TOGGLE)
      BY <1>2, <2>3 DEF Stays_On, HasTapCode, MODS_TAP_TOGGLE
    <3> QED BY <3>1, <3>2
  <2> QED BY <2>1, <2>2, <2>3
<1>7. GripInv'
  BY <1>5, <1>6, GripFreed
<1> QED BY <1>3, <1>4, <1>7 DEF Carried

LEMMA ModeTapped ==
    ASSUME NEW k, k # NOEVENT
    PROVE  /\ Mode(k) = IF Tapped /\ tapping_key.key = k THEN tapping_key.count
                        ELSE IF Counted(k) THEN 1 ELSE 0
           /\ Mode(k)' = IF Tapped' /\ tapping_key'.key = k THEN tapping_key'.count
                         ELSE IF Counted(k)' THEN 1 ELSE 0
BY DEF Mode, IS_TAPPING_KEY, IS_TAPPING

LEMMA KeysEvent == \A k \in Keys : k # NOEVENT
BY DEF Keys, NOEVENT

LEMMA UndecidedNotTapped == Undecided => ~Tapped /\ IS_TAPPING
BY DEF Undecided, Tapped, IS_TAPPING_PRESSED

LEMMA CarryWaits ==
    ASSUME Sound(kb), GripInv, NEW rec, Call(rec), RetainModifier(rec) \/ WaitForDecision(rec)
    PROVE  Carried
<1>1. /\ KeptAs(rec, rec) /\ kb' = kb /\ SettlesNone /\ toggled' = toggled
      /\ Undecided /\ Undecided'
  BY WaitsShape
<1>2. \A k : Counted(k)' <=> Counted(k)
  BY <1>1, CountsKept
<1>3. ~Tapped /\ ~Tapped'
  BY <1>1 DEF Tapped, Undecided
<1>4. \A k \in Keys : Mode(k)' = Mode(k)
  BY <1>2, <1>3, ModeTapped, KeysEvent
<1> QED BY <1>1, <1>4, SameCarried DEF SettlesNone

LEMMA CarryExpires ==
    ASSUME Sound(kb), GripInv, NEW rec, Call(rec), TapExpires(rec)
    PROVE  Carried
<1>1. /\ KeptAs(rec, rec) /\ kb' = kb /\ SettlesNone /\ toggled' = toggled
      /\ IS_TAPPING_RELEASED /\ tapping_key' = NoTapping
  BY ExpiresShape
<1>2. \A k : Counted(k)' <=> Counted(k)
  BY <1>1, CountsKept
<1>3. ~Tapped /\ ~Tapped'
  BY <1>1 DEF Tapped, IS_TAPPING_RELEASED, IS_TAPPING_PRESSED, IS_TAPPING, NoTapping, Record
<1>4. \A k \in Keys : Mode(k)' = Mode(k)
  BY <1>2, <1>3, ModeTapped, KeysEvent
<1> QED BY <1>1, <1>4, SameCarried DEF SettlesNone

LEMMA CarryAgain ==
    ASSUME Sound(kb), GripInv, CountInv, NEW rec, Call(rec), StartAgain(rec)
    PROVE  Carried
<1>1. /\ Removed /\ kb' = kb /\ SettlesNone /\ toggled' = toggled
      /\ IS_TAPPING_RELEASED /\ rec \in Records /\ rec.pressed = TRUE
      /\ Undecided' /\ ~Undecided
  BY AgainShape
<1>2. settled[rec.key] = FALSE
  BY <1>1, PressTaken
<1>3. rec.key # NOEVENT
  BY <1>1, RecordFields
<1>4. \A k : k # rec.key => (Counted(k)' <=> Counted(k))
  BY <1>1, <1>3, NoneOfKey, CountsRemoved DEF CountInv
<1>5. ~Tapped /\ ~Tapped'
  BY <1>1 DEF Tapped, IS_TAPPING_RELEASED, IS_TAPPING_PRESSED, Undecided
<1>6. \A k \in Keys : settled[k] => Mode(k)' = Mode(k)
  BY <1>2, <1>4, <1>5, ModeTapped, KeysEvent
<1> QED BY <1>1, <1>6, SameCarried DEF SettlesNone

LEMMA CarryTimeout ==
    ASSUME Reversible, Sound(kb), GripInv, CountInv, NEW rec, Call(rec), Timeout(rec)
    PROVE  Carried
<1>1. /\ KeptAs(rec, rec) /\ kb' = process_action(kb, tapping_key)
      /\ Settles(tapping_key.key, TRUE) /\ (toggled => toggled')
      /\ Undecided /\ tapping_key \in Records /\ tapping_key' = NoTapping
  BY TimeoutShape
<1>0. Engine
  BY CallFacts
<1>2. PICK x \in Records : x = tapping_key
  BY <1>1
<1>3. x.pressed /\ x.count = 0 /\ IS_TAPPING /\ x.key \in Keys /\ x.key # NOEVENT
  BY <1>0, <1>1, <1>2, TapStates
<1>4. \A k : Counted(k)' <=> Counted(k)
  BY <1>1, CountsKept
<1>5. ~Tapped /\ ~Tapped'
  BY <1>1 DEF Tapped, Undecided, IS_TAPPING_PRESSED, IS_TAPPING, NoTapping, Record
<1>6. \A k \in Keys : Mode(k)' = Mode(k)
  BY <1>4, <1>5, ModeTapped, KeysEvent
<1>7. ~Counted(x.key)
  BY <1>1, <1>2 DEF CountInv, UndecidedPress
<1>8. Mode(x.key) = 0 /\ Mode(x.key)' = 0
  BY <1>3, <1>5, <1>6, <1>7, ModeTapped
<1>9. Count(layer_switch_get_action(kb, x), x) = 0
  BY <1>3 DEF Count
<1>10. settled[x.key] =>
           /\ layer_switch_get_action(kb, x) = Does(x.key)
           /\ current_layer_for_key(kb, x.key) = kb.pressed[x.key]
  <2>1. SUFFICES ASSUME settled[x.key]
                 PROVE  /\ layer_switch_get_action(kb, x) = Does(x.key)
                        /\ current_layer_for_key(kb, x.key) = kb.pressed[x.key]
    OBVIOUS
  <2>2. settled[tapping_key.key] /\ x.key = tapping_key.key
    BY <1>2, <2>1
  <2>3. /\ layer_switch_get_action(kb, x) = Does(tapping_key.key)
        /\ current_layer_for_key(kb, x.key) = kb.pressed[x.key]
    BY <1>0, <1>1, <2>2, SettledFixed DEF Reversible
  <2> QED BY <1>2, <2>3
<1>11. kb' = process_action(kb, x) /\ Settles(x.key, TRUE)
  BY <1>1, <1>2
<1> QED BY <1>1, <1>2, <1>3, <1>6, <1>8, <1>9, <1>10, <1>11, PressCarried

LEMMA CarryFirstTap ==
    ASSUME Reversible, Sound(kb), GripInv, CountInv, NEW rec, Call(rec), FirstTap(rec)
    PROVE  Carried
<1>0. Engine
  BY CallFacts
<1>1. /\ Undecided /\ tapping_key \in Records
      /\ FirstTapOf \in Records /\ FirstTapOf.key = tapping_key.key
      /\ FirstTapOf.pressed = TRUE /\ FirstTapOf.count = 1
      /\ FirstTapOf.interrupted = tapping_key.interrupted
      /\ rec \in Records /\ rec.key = tapping_key.key
      /\ kb' = process_action(kb, FirstTapOf)
      /\ Settles(tapping_key.key, TRUE) /\ (toggled => toggled')
      /\ tapping_key'.key = tapping_key.key
      /\ tapping_key'.pressed = TRUE
      /\ tapping_key'.count = IF Cancels(kb, FirstTapOf) THEN 0 ELSE 1
      /\ \E y : /\ KeptAs(rec, y) /\ y.key = rec.key /\ y.pressed = FALSE
                /\ y.count = tapping_key'.count
  BY FirstTapShape
<1>2. PICK x \in Records : x = FirstTapOf
  BY <1>1
<1>3. PICK y : KeptAs(rec, y) /\ y.key = rec.key /\ y.count = tapping_key'.count
  BY <1>1
<1> DEFINE a == layer_switch_get_action(kb, x)
<1>4. x.pressed /\ x.count = 1 /\ x.key = rec.key /\ x.key \in Keys /\ x.key # NOEVENT
  BY <1>1, <1>2, RecordFields
<1>5. Cancels(kb, x) <=> IsCancellable(a) /\ x.interrupted
  BY <1>4 DEF Cancels, IsCancellable, TapModes
<1>6. tapping_key'.count = Count(a, x)
  BY <1>1, <1>2, <1>4, <1>5 DEF Count
<1>7. ~Counted(x.key) /\ ~Tapped
  BY <1>1, <1>2, UndecidedNotTapped DEF CountInv, UndecidedPress
<1>8. \A k : k # rec.key => (Counted(k)' <=> Counted(k))
  BY <1>3, CountsKept
<1>9. \A k \in Keys : k # x.key => Mode(k)' = Mode(k)
  BY <1>1, <1>4, <1>7, <1>8, ModeTapped, KeysEvent
<1>10. Mode(x.key) = 0
  BY <1>4, <1>7, ModeTapped
<1>11. Mode(x.key)' = Count(a, x)
  <2>1. tapping_key'.key = x.key /\ IS_TAPPING_PRESSED'
    BY <1>1, <1>4 DEF IS_TAPPING_PRESSED, IS_TAPPING
  <2>2. CASE tapping_key'.count = 0
    <3>1. y.count = 0 /\ ~Tapped'
      BY <1>3, <2>2 DEF Tapped
    <3>2. \A m : Counted(m)' => Counted(m)
      BY <1>3, <3>1, CountsKept
    <3>3. ~Counted(x.key)'
      BY <1>7, <3>2
    <3> QED BY <1>4, <1>6, <2>2, <3>1, <3>3, ModeTapped
  <2>3. CASE tapping_key'.count = 1
    <3>1. Tapped'
      BY <2>1, <2>3 DEF Tapped
    <3> QED BY <1>4, <1>6, <2>1, <3>1, ModeTapped
  <2> QED BY <1>1, <2>2, <2>3
<1>12. settled[x.key] =>
           /\ a = Does(x.key)
           /\ Count(a, x) = 0
           /\ current_layer_for_key(kb, x.key) = kb.pressed[x.key]
  <2>1. SUFFICES ASSUME settled[x.key]
                 PROVE  /\ a = Does(x.key) /\ Count(a, x) = 0
                        /\ current_layer_for_key(kb, x.key) = kb.pressed[x.key]
    OBVIOUS
  <2>2. settled[tapping_key.key] /\ x.key = tapping_key.key
    BY <1>1, <1>2, <2>1
  <2>3. /\ a = Does(tapping_key.key)
        /\ IsCancellable(Does(tapping_key.key)) /\ tapping_key.interrupted
        /\ current_layer_for_key(kb, x.key) = kb.pressed[x.key]
    BY <1>0, <1>1, <2>2, SettledFixed DEF Reversible
  <2>4. Does(x.key) = Does(tapping_key.key)
    BY <2>2
  <2>5. IsCancellable(a) /\ x.interrupted
    BY <1>1, <1>2, <2>3
  <2> QED BY <1>4, <2>3, <2>4, <2>5 DEF Count
<1>13. kb' = process_action(kb, x) /\ Settles(x.key, TRUE)
  BY <1>1, <1>2
<1> QED BY <1>1, <1>4, <1>9, <1>10, <1>11, <1>12, <1>13, PressCarried

LEMMA CarryPasses ==
    ASSUME Reversible, Sound(kb), GripInv, CountInv, NEW rec, Call(rec),
           ReleaseAtOnce(rec) \/ EventDuringTap(rec) \/ EventAfterTap(rec) \/ PlainEvent(rec)
    PROVE  Carried
<1> DEFINE k == tapping_key.key
<1>1. /\ Removed /\ kb' = Act(rec) /\ Settles(rec.key, rec.pressed) /\ (toggled => toggled')
      /\ ~OwnRelease(rec) \/ ~Tapped
      /\ ~Undecided \/ (~rec.pressed /\ ~waiting_buffer_typed(rec) /\ ~OwnRelease(rec))
      /\ Tapped' <=> Tapped
      /\ tapping_key'.key = k /\ tapping_key'.count = tapping_key.count
  BY PassShape
<1>2. /\ Engine /\ kb \in Kb
      /\ rec.key # NOEVENT => /\ rec \in Records /\ rec.key \in Keys /\ rec.pressed \in BOOLEAN
                              /\ rec.count \in {0, 1}
      /\ rec.pressed => rec.count = 0
  BY CallFacts DEF Engine
<1>3. pc = "scan" /\ rec.key # NOEVENT =>
         /\ \A i \in Slots : waiting_buffer[i].key # rec.key
         /\ EventsOf(waiting_buffer, rec.key) = <<>>
  BY <1>1, NoneOfKey
<1>4. /\ \A m : m # rec.key => (Counted(m)' <=> Counted(m))
      /\ rec.key # NOEVENT => ~Counted(rec.key)' /\ (Counted(rec.key) <=> rec.count > 0)
  BY <1>1, <1>3, CountsRemoved DEF CountInv
<1>5. \A m \in Keys : m # rec.key => Mode(m)' = Mode(m)
  BY <1>1, <1>4, ModeTapped, KeysEvent
<1>6. CASE rec.key = NOEVENT
  <2>1. \A m \in Keys : m # rec.key
    BY <1>6, KeysEvent
  <2>2. kb' = kb /\ \A m \in Keys : settled[m] => settled'[m]
    BY <1>1, <1>6, <2>1 DEF Act, Settles
  <2> QED BY <1>1, <1>5, <2>1, <2>2, SameCarried
<1>7. CASE rec.key # NOEVENT /\ rec.pressed
  <2>1. ~Holds(rec.key)
    BY <1>1, <1>7 DEF Holds
  <2>2. settled[rec.key] = FALSE
    BY <1>3, <1>7, <2>1, FirstOfKey
  <2>3. ~(Tapped /\ k = rec.key)
    BY <2>2 DEF CountInv, TapSettled
  <2>4. Mode(rec.key)' = 0
    BY <1>1, <1>4, <1>7, <2>3, ModeTapped
  <2>5. Count(layer_switch_get_action(kb, rec), rec) = 0
    BY <1>2, <1>7 DEF Count
  <2>6. rec \in Records /\ kb' = process_action(kb, rec) /\ Settles(rec.key, TRUE)
    BY <1>1, <1>2, <1>7 DEF Act
  <2> QED BY <1>1, <1>5, <1>7, <2>2, <2>4, <2>5, <2>6, PressCarried
<1>8. CASE rec.key # NOEVENT /\ ~rec.pressed
  <2>1. ~(Tapped /\ k = rec.key)
    BY <1>1, <1>8 DEF OwnRelease, IS_TAPPING_KEY, IS_TAPPING
  <2>2. Mode(rec.key) = rec.count
    BY <1>2, <1>4, <1>8, <2>1, ModeTapped
  <2>3. ~(rec.count >= TAPPING_TOGGLE)
    BY <1>2, <1>8 DEF Reversible
  <2>4. \A m \in Keys : m # rec.key /\ settled[m] => settled'[m] /\ Mode(m)' = Mode(m)
    BY <1>1, <1>5 DEF Settles
  <2>5. rec \in Records /\ kb' = process_action(kb, rec)
    BY <1>1, <1>2, <1>8 DEF Act
  <2> QED BY <1>1, <1>8, <2>2, <2>3, <2>4, <2>5, FreeCarried
<1> QED BY <1>6, <1>7, <1>8

LEMMA CarryReleased ==
    ASSUME Reversible, Sound(kb), GripInv, CountInv, NEW rec, Call(rec), TapReleased(rec)
    PROVE  Carried
<1>1. /\ Removed /\ kb' = process_action(kb, WithTap(rec))
      /\ Settles(rec.key, FALSE) /\ (toggled => toggled')
      /\ Tapped /\ rec \in Records /\ rec.key = tapping_key.key /\ rec.pressed = FALSE
      /\ WithTap(rec) \in Records /\ WithTap(rec).key = rec.key
      /\ WithTap(rec).pressed = FALSE /\ WithTap(rec).count = tapping_key.count
      /\ ~Undecided' /\ ~Tapped'
  BY ReleasedShape
<1>2. PICK x \in Records : x = WithTap(rec)
  BY <1>1
<1>3. /\ ~Undecided /\ rec.key # NOEVENT /\ rec.key \in Keys
      /\ x.key = rec.key /\ ~x.pressed /\ x.count = tapping_key.count
      /\ kb' = process_action(kb, x)
  BY <1>1, <1>2, UndecidedNotTapped, RecordFields
<1>4. \A m : m # rec.key => (Counted(m)' <=> Counted(m))
  BY <1>1, <1>3, NoneOfKey, CountsRemoved DEF CountInv
<1>5. Mode(x.key) = x.count
  BY <1>1, <1>3, ModeTapped
<1>6. \A m \in Keys : m # x.key /\ settled[m] => settled'[m] /\ Mode(m)' = Mode(m)
  <2>1. \A m \in Keys : m # x.key => Mode(m)' = Mode(m)
    BY <1>1, <1>3, <1>4, ModeTapped, KeysEvent
  <2> QED BY <1>1, <1>3, <2>1 DEF Settles
<1>7. x.count >= TAPPING_TOGGLE /\ HasTapCode(x.key, MODS_TAP_TOGGLE) => toggled'
  <2>1. HasTapCode(x.key, MODS_TAP_TOGGLE) <=> HasTapCode(tapping_key.key, MODS_TAP_TOGGLE)
    BY <1>1, <1>3
  <2> QED BY <1>1, <1>3, <2>1 DEF CountInv, TapSettled
<1> QED BY <1>1, <1>3, <1>5, <1>6, <1>7, FreeCarried

LEMMA CarrySequential ==
    ASSUME Reversible, Sound(kb), GripInv, CountInv, NEW rec, Call(rec), SequentialTap(rec)
    PROVE  Carried
<1>1. /\ Removed /\ kb' = process_action(kb, NextTapOf(rec))
      /\ Settles(rec.key, TRUE) /\ (toggled => toggled')
      /\ IS_TAPPING_RELEASED /\ rec \in Records /\ rec.key = tapping_key.key
      /\ rec.pressed = TRUE
      /\ NextTapOf(rec) \in Records /\ NextTapOf(rec).key = rec.key
      /\ NextTapOf(rec).pressed = TRUE /\ NextTapOf(rec).interrupted = FALSE
      /\ NextTapOf(rec).count > 1 /\ tapping_key' = NextTapOf(rec)
  BY SequentialShape DEF Reversible
<1>2. PICK x \in Records : x = NextTapOf(rec)
  BY <1>1
<1>3. /\ ~Undecided /\ ~Tapped /\ rec.key # NOEVENT /\ rec.key \in Keys
      /\ x.key = rec.key /\ x.pressed /\ ~x.interrupted /\ x.count > 1 /\ x.count \in Nat
      /\ kb' = process_action(kb, x) /\ tapping_key' = x
  BY <1>1, <1>2, RecordFields, RecordBits DEF IS_TAPPING_RELEASED, Undecided, Tapped,
     IS_TAPPING_PRESSED
<1>4. settled[x.key] = FALSE
  BY <1>1, <1>3, PressTaken
<1>5. Tapped'
  BY <1>3 DEF Tapped, IS_TAPPING_PRESSED, IS_TAPPING
<1>6. Mode(x.key)' = Count(layer_switch_get_action(kb, x), x)
  BY <1>3, <1>5, ModeTapped DEF Count
<1>7. \A m : m # rec.key => (Counted(m)' <=> Counted(m))
  BY <1>1, <1>3, NoneOfKey, CountsRemoved DEF CountInv
<1>8. \A m \in Keys : m # x.key => Mode(m)' = Mode(m)
  BY <1>3, <1>7, ModeTapped, KeysEvent
<1>9. Settles(x.key, TRUE)
  BY <1>1, <1>3
<1> QED BY <1>1, <1>3, <1>4, <1>6, <1>8, <1>9, PressCarried

(* What the press of a tap key takes from the tap before it.               *)
Forced(part) ==
    IF Tapped /\ tapping_key.count > 1 THEN Load(Does(tapping_key.key), tapping_key.count, part)
    ELSE {}

LEMMA TrackGrip ==
    ASSUME NEW q \in Kb, NEW rec
    PROVE  \A part \in Parts : Grip(Track(q, rec), part) = Grip(q, part)
<1> DEFINE t == Track(q, rec)
<1>1. /\ t.keys = q.keys /\ t.real = q.real /\ t.weak = q.weak /\ t.layer = q.layer
      /\ t.usage = q.usage
  BY DEF Track, Kb
<1>2. Used(t) = Used(q)
  BY <1>1 DEF Used
<1> HIDE DEF t
<1> QED BY <1>1, <1>2, Grips DEF Parts, t

LEMMA BeforeStep ==
    ASSUME Reversible, Sound(kb), CountInv, NEW rec, Call(rec), rec \in Records, rec.pressed,
           ~Undecided
    PROVE  /\ settled[rec.key] = FALSE
           /\ Tapped => tapping_key.key # rec.key
           /\ Sound(Before(rec))
           /\ \A m : m # rec.key => /\ DoesAt(Before(rec), m) = Does(m)
                                    /\ Before(rec).pressed[m] = kb.pressed[m]
           /\ \A part \in Parts :
                 \/ part = "real" /\ toggled
                 \/ Grip(Before(rec), part) \subseteq Grip(kb, part) \ Forced(part)
<1> DEFINE t == Track(kb, rec)
<1>0. kb \in Kb /\ Engine /\ rec.key \in Keys
  BY CallFacts, RecordFields DEF Engine
<1>1. settled[rec.key] = FALSE
  BY PressTaken
<1>2. Tapped => tapping_key.key # rec.key
  BY <1>1 DEF CountInv, TapSettled
<1>3. Sound(t) /\ t.keymap = kb.keymap /\ \A k : ActionsOf(t, k) = ActionsOf(kb, k)
  BY SoundTrack DEF Reversible
<1>4. \A m : m # rec.key => t.pressed[m] = kb.pressed[m]
  <2>1. t.pressed = [kb.pressed EXCEPT ![rec.key] = current_layer_for_key(kb, rec.key)]
    BY <1>0 DEF Track, Kb
  <2>2. kb.pressed \in [Keys -> Layers]
    BY <1>0 DEF Kb
  <2> HIDE DEF t
  <2> QED BY <1>0, <2>1, <2>2
<1>5. \A m : m # rec.key => DoesAt(t, m) = Does(m)
  BY <1>3, <1>4 DEF Does, DoesAt, action_for_key
<1>6. \A part \in Parts : Grip(t, part) = Grip(kb, part)
  BY <1>0, TrackGrip
<1> HIDE DEF t
<1>7. CASE ~(Tapped /\ tapping_key.count > 1)
  <2>1. Before(rec) = t
    BY <1>7 DEF Before, t
  <2>2. \A part \in Parts : Forced(part) = {}
    BY <1>7 DEF Forced
  <2> QED BY <1>1, <1>2, <1>3, <1>4, <1>5, <1>6, <2>1, <2>2
<1>8. CASE Tapped /\ tapping_key.count > 1
  <2> DEFINE x == ForcedRelease(rec)
             a == layer_switch_get_action(t, x)
  <2>1. tapping_key \in Records /\ tapping_key.key \in Keys
    BY <1>0, <1>8, TapStates DEF Tapped, IS_TAPPING_PRESSED
  <2>2. /\ x \in Records /\ x.key = tapping_key.key /\ x.pressed = FALSE
        /\ x.count = tapping_key.count
    <3>1. rec.time \in 0 .. TimeMod-2
      BY DEF Records
    <3>2. tapping_key \in [key : Keys, pressed : BOOLEAN, time : 0 .. TimeMod-2,
                           count : 0 .. TapMax, interrupted : BOOLEAN]
      BY <2>1 DEF Records
    <3> QED BY <3>1, <3>2 DEF ForcedRelease, Records
  <2>3. Before(rec) = process_action(t, x)
    BY <1>8 DEF Before, t
  <2> HIDE DEF x
  <2>4. /\ Sound(process_action(t, x)) /\ a \in ActionsOf(t, x.key)
        /\ Effect(t, process_action(t, x), a, x)
    BY <1>3, <2>2, SoundAct DEF Reversible
  <2>5. t \in Kb
    BY <1>3 DEF Sound
  <2>6. /\ \A k : /\ DoesAt(process_action(t, x), k) = DoesAt(t, k)
                  /\ process_action(t, x).pressed[k] = t.pressed[k]
        /\ a = DoesAt(t, x.key)
    BY <2>2, <2>5, ActDoes
  <2>7. a = Does(tapping_key.key) /\ a \in ActionsOf(kb, tapping_key.key)
    BY <1>2, <1>3, <1>5, <1>8, <2>2, <2>4, <2>6
  <2>8. ASSUME NEW part \in Parts
        PROVE  \/ part = "real" /\ toggled
               \/ Grip(Before(rec), part) \subseteq Grip(kb, part) \ Forced(part)
    <3>1. \/ Grip(process_action(t, x), part) \subseteq Grip(t, part) \ Load(a, x.count, part)
          \/ Stays_On(a, x.count, part)
      BY <2>2, <2>4 DEF Effect
    <3>2. Forced(part) = Load(a, x.count, part)
      BY <1>8, <2>2, <2>7 DEF Forced
    <3>3. CASE Stays_On(a, x.count, part)
      <4>1. HasTapCode(tapping_key.key, MODS_TAP_TOGGLE)
        BY <2>7, <3>3 DEF Stays_On, HasTapCode, MODS_TAP_TOGGLE
      <4>2. part = "real" /\ tapping_key.count >= TAPPING_TOGGLE
        BY <2>2, <3>3 DEF Stays_On
      <4> QED BY <1>8, <4>1, <4>2 DEF CountInv, TapSettled
    <3>4. CASE Grip(process_action(t, x), part) \subseteq Grip(t, part) \ Load(a, x.count, part)
      BY <1>6, <2>3, <3>2, <3>4
    <3> QED BY <3>1, <3>3, <3>4
  <2> QED BY <1>1, <1>2, <1>4, <1>5, <2>3, <2>4, <2>6, <2>8
<1> QED BY <1>7, <1>8

LEMMA StartGrip ==
    ASSUME GripInv, CountInv, NEW rec, toggled => toggled',
           tapping_key.count \in Nat, Tapped => tapping_key.key \in Keys,
           settled[rec.key] = FALSE,
           \A m \in Keys : m # rec.key /\ settled[m] => settled'[m] /\ Does(m)' = Does(m),
           \A m : m # rec.key => (Counted(m)' <=> Counted(m)),
           Tapped => tapping_key.key # rec.key,
           Tapped' => tapping_key'.key = rec.key,
           \A part \in Parts :
              \/ part = "real" /\ toggled'
              \/ Grip(kb', part) \subseteq (Grip(kb, part) \ Forced(part)) \cup Held(part)'
    PROVE  GripInv'
<1>1. \A m \in Keys : m # rec.key =>
         Mode(m)' = IF Counted(m) THEN 1 ELSE 0
  BY ModeTapped, KeysEvent
<1>2. \A m \in Keys : ~(Tapped /\ tapping_key.key = m) => Mode(m) = IF Counted(m) THEN 1 ELSE 0
  BY ModeTapped, KeysEvent
<1>3. \A m \in Keys : settled[m] /\ ~(Tapped /\ tapping_key.key = m) => Kept(m)
  BY <1>1, <1>2 DEF Kept
<1>4. PICK x : x = tapping_key.key
  OBVIOUS
<1>5. CASE Tapped /\ tapping_key.count > 1
  <2>1. \A m \in Keys : m # x => Kept(m)
    BY <1>3, <1>4 DEF Kept
  <2>2. Mode(x) = tapping_key.count
    BY <1>4, <1>5, ModeTapped, KeysEvent
  <2>3. \A part \in Parts : Forced(part) = Load(Does(x), Mode(x), part)
    BY <1>4, <1>5, <2>2 DEF Forced
  <2> QED BY <2>1, <2>3, GripFreed
<1>6. CASE ~(Tapped /\ tapping_key.count > 1)
  <2>1. \A part \in Parts : Forced(part) = {}
    BY <1>6 DEF Forced
  <2>2. ASSUME NEW m \in Keys PROVE Kept(m)
    <3>1. SUFFICES ASSUME settled[m], Tapped, tapping_key.key = m PROVE Kept(m)
      BY <1>3 DEF Kept
    <3>2. tapping_key.count = 1
      BY <1>6, <3>1 DEF Tapped
    <3>3. Counted(tapping_key.key)
      BY <3>1, <3>2 DEF CountInv, TapSettled
    <3>4. Mode(m) = 1 /\ Counted(m)
      BY <3>1, <3>2, <3>3, ModeTapped, KeysEvent
    <3>5. m # rec.key
      BY <3>1
    <3>6. Mode(m)' = 1
      BY <1>1, <3>4, <3>5
    <3> QED BY <3>1, <3>4, <3>5, <3>6 DEF Kept
  <2> SUFFICES ASSUME NEW part \in Parts, ~(part = "real" /\ toggled')
               PROVE  Grip(kb', part) \subseteq Held(part)'
    BY DEF GripInv
  <2>3. Grip(kb, part) \subseteq Held(part)
    BY DEF GripInv
  <2>4. Held(part) \subseteq Held(part)'
    BY <2>2 DEF Held, Kept
  <2> QED BY <2>1, <2>3, <2>4
<1> QED BY <1>5, <1>6

LEMMA CountsTaken ==
    ASSUME NEW rec, Call(rec), CountsRelease(rec)
    PROVE  \A m : m # rec.key => (Counted(m)' <=> Counted(m))
<1>1. /\ pc = "drain" /\ rec = waiting_buffer[1] /\ 1 \in Slots
      /\ \A j \in Slots : j \in Nat /\ j >= 1
      /\ \A j \in Slots' : j \in Nat /\ j >= 1
  <2>1. pc = "drain"
    BY DEF CountsRelease
  <2>2. /\ \A j \in Slots : j \in Nat /\ j >= 1
        /\ \A j \in Slots' : j \in Nat /\ j >= 1
    BY DEF Slots
  <2> QED BY <2>1, <2>2, CallFacts
<1>2. PICK i \in Slots :
          /\ waiting_buffer[i].key = rec.key
          /\ waiting_buffer'[i - 1].key = rec.key
          /\ \A j \in Slots' : /\ j + 1 \in Slots
                               /\ j + 1 # i => waiting_buffer'[j] = waiting_buffer[j + 1]
          /\ \A j \in Slots : j > 1 => j - 1 \in Slots'
  BY DEF CountsRelease
<1> SUFFICES ASSUME NEW m, m # rec.key PROVE Counted(m)' <=> Counted(m)
  OBVIOUS
<1>3. ASSUME NEW j \in Slots', waiting_buffer'[j].key = m, waiting_buffer'[j].count > 0
      PROVE  Counted(m)
  <2>1. j + 1 = i => j = i - 1
    BY <1>1
  <2>2. j + 1 # i
    BY <1>2, <1>3, <2>1
  <2>3. j + 1 \in Slots /\ waiting_buffer'[j] = waiting_buffer[j + 1]
    BY <1>2, <2>2
  <2> QED BY <1>3, <2>3 DEF Counted
<1>4. ASSUME NEW j \in Slots, waiting_buffer[j].key = m, waiting_buffer[j].count > 0
      PROVE  Counted(m)'
  <2>1. j # 1 /\ j # i
    BY <1>1, <1>2, <1>4
  <2>2. j - 1 \in Slots' /\ (j - 1) + 1 = j
    BY <1>1, <1>2, <2>1
  <2>3. waiting_buffer'[j - 1] = waiting_buffer[j]
    BY <1>2, <2>1, <2>2
  <2> QED BY <1>4, <2>2, <2>3 DEF Counted
<1> QED BY <1>3, <1>4 DEF Counted

LEMMA CarryStartsOnly ==
    ASSUME Reversible, Sound(kb), GripInv, CountInv, NEW rec, Call(rec), rec \in Records,
           rec.pressed, ~Undecided, StartsOnly(rec)
    PROVE  Carried
<1>1. /\ Removed /\ kb' = Before(rec) /\ tapping_key' = rec
      /\ SettlesNone /\ toggled' = toggled /\ Undecided'
  BY DEF StartsOnly
<1>2. /\ settled[rec.key] = FALSE
      /\ Tapped => tapping_key.key # rec.key
      /\ Sound(Before(rec))
      /\ \A m : m # rec.key => /\ DoesAt(Before(rec), m) = Does(m)
                               /\ Before(rec).pressed[m] = kb.pressed[m]
      /\ \A part \in Parts :
            \/ part = "real" /\ toggled
            \/ Grip(Before(rec), part) \subseteq Grip(kb, part) \ Forced(part)
  BY BeforeStep
<1>3. ~Tapped' /\ rec.key # NOEVENT /\ Engine
  <2>1. ~Tapped'
    BY <1>1 DEF Tapped, Undecided
  <2> QED BY <2>1, RecordFields, CallFacts
<1>4. \A m : m # rec.key => (Counted(m)' <=> Counted(m))
  BY <1>1, <1>3, NoneOfKey, CountsRemoved DEF CountInv
<1>5. \A m : m # rec.key => Does(m)' = Does(m)
  BY <1>1, <1>2 DEF Does
<1>6. tapping_key.count \in Nat /\ (Tapped => tapping_key.key \in Keys)
  <2>1. CASE IS_TAPPING
    BY <1>3, <2>1, TapStates
  <2>2. CASE ~IS_TAPPING
    <3>1. tapping_key = NoTapping \/ tapping_key.count \in Nat
      BY <1>3, RecordBits DEF Engine, Tappings
    <3> QED BY <2>2, <3>1 DEF NoTapping, Record, Tapped, IS_TAPPING_PRESSED
  <2> QED BY <2>1, <2>2
<1>7. \A part \in Parts :
         \/ part = "real" /\ toggled'
         \/ Grip(kb', part) \subseteq (Grip(kb, part) \ Forced(part)) \cup Held(part)'
  BY <1>1, <1>2
<1>8. \A m \in Keys : m # rec.key /\ settled[m] => settled'[m] /\ Does(m)' = Does(m)
  BY <1>1, <1>5 DEF SettlesNone
<1>9. GripInv'
  BY <1>1, <1>2, <1>3, <1>4, <1>6, <1>7, <1>8, StartGrip
<1>10. Sound(kb)'
  BY <1>1, <1>2 DEF Sound, Told, Kb, ActionsOf, action_for_key, IsOneShot, IsCancellable,
     TapModes, MODS_ONESHOT, MODS_TAP_TOGGLE
<1>11. \A m \in Keys : settled[m] => kb'.pressed[m] = kb.pressed[m]
  BY <1>1, <1>2
<1> QED BY <1>9, <1>10, <1>11 DEF Carried

LEMMA CarryStartsAsTap ==
    ASSUME Reversible, Sound(kb), GripInv, CountInv, NEW rec, Call(rec), rec \in Records,
           rec.pressed, ~Undecided, StartsAsTap(rec),
           TapOf(rec) \in Records, TapOf(rec).key = rec.key, TapOf(rec).pressed = TRUE,
           TapOf(rec).count = 1, TapOf(rec).interrupted = FALSE
    PROVE  Carried
<1> DEFINE b == Before(rec)
           x == TapOf(rec)
           a == layer_switch_get_action(b, x)
<1>1. /\ CountsRelease(rec) /\ kb' = process_action(b, x)
      /\ tapping_key' = x /\ Settles(rec.key, TRUE) /\ (toggled => toggled')
      /\ Tapped'
  BY DEF StartsAsTap
<1>2. /\ settled[rec.key] = FALSE
      /\ Tapped => tapping_key.key # rec.key
      /\ Sound(b)
      /\ \A m : m # rec.key => DoesAt(b, m) = Does(m) /\ b.pressed[m] = kb.pressed[m]
      /\ \A part \in Parts :
            \/ part = "real" /\ toggled
            \/ Grip(b, part) \subseteq Grip(kb, part) \ Forced(part)
  BY BeforeStep
<1>3. rec.key # NOEVENT /\ rec.key \in Keys /\ Engine
  BY RecordFields, CallFacts
<1> HIDE DEF b, x
<1>0. /\ x \in Records /\ x.key = rec.key /\ x.pressed = TRUE /\ x.count = 1
      /\ x.interrupted = FALSE
  BY DEF x
<1>4. \A m : m # rec.key => (Counted(m)' <=> Counted(m))
  BY <1>1, CountsTaken
<1>5. /\ Sound(process_action(b, x)) /\ Effect(b, process_action(b, x), a, x)
  BY <1>0, <1>2, SoundAct DEF Reversible
<1>6. /\ DoesAt(process_action(b, x), rec.key) = a
      /\ \A m : m # rec.key =>
            /\ DoesAt(process_action(b, x), m) = DoesAt(b, m)
            /\ process_action(b, x).pressed[m] = b.pressed[m]
  <2>1. b \in Kb
    BY <1>2 DEF Sound
  <2> QED BY <1>0, <2>1, ActDoes
<1>7. Does(rec.key)' = a /\ \A m : m # rec.key => Does(m)' = Does(m)
  BY <1>1, <1>2, <1>6 DEF Does
<1>8. Mode(rec.key)' = 1
  BY <1>0, <1>1, <1>3, ModeTapped
<1>9. Count(a, x) = 1
  BY <1>0 DEF Count
<1>10. tapping_key.count \in Nat /\ (Tapped => tapping_key.key \in Keys)
  <2>1. CASE IS_TAPPING
    BY <1>3, <2>1, TapStates
  <2>2. CASE ~IS_TAPPING
    <3>1. tapping_key = NoTapping \/ tapping_key.count \in Nat
      BY <1>3, RecordBits DEF Engine, Tappings
    <3> QED BY <2>2, <3>1 DEF NoTapping, Record, Tapped, IS_TAPPING_PRESSED
  <2> QED BY <2>1, <2>2
<1>11. settled'[rec.key] /\ \A m \in Keys : settled[m] => settled'[m]
  BY <1>1, <1>3 DEF Settles
<1>12. ASSUME NEW part \in Parts
       PROVE  \/ part = "real" /\ toggled'
              \/ Grip(kb', part) \subseteq (Grip(kb, part) \ Forced(part)) \cup Held(part)'
  <2>1. Grip(process_action(b, x), part) \subseteq Grip(b, part) \cup Load(a, 1, part)
    BY <1>0, <1>5, <1>9 DEF Effect
  <2>2. Load(Does(rec.key)', Mode(rec.key)', part) \subseteq Held(part)'
    BY <1>3, <1>11, HeldBy
  <2>3. Load(a, 1, part) \subseteq Held(part)'
    BY <1>7, <1>8, <2>2
  <2> QED BY <1>1, <1>2, <2>1, <2>3
<1>13. GripInv'
  <2>1. tapping_key'.key = rec.key
    BY <1>0, <1>1
  <2>2. \A m \in Keys : m # rec.key /\ settled[m] => settled'[m] /\ Does(m)' = Does(m)
    BY <1>7, <1>11
  <2> QED BY <1>1, <1>2, <1>4, <1>10, <1>12, <2>1, <2>2, StartGrip
<1>14. Sound(kb)'
  BY <1>1, <1>5 DEF Sound, Told, Kb, ActionsOf, action_for_key, IsOneShot, IsCancellable,
     TapModes, MODS_ONESHOT, MODS_TAP_TOGGLE
<1>15. \A m \in Keys : settled[m] => kb'.pressed[m] = kb.pressed[m]
  BY <1>1, <1>2, <1>6
<1> QED BY <1>13, <1>14, <1>15 DEF Carried

LEMMA CarryCall ==
    ASSUME Reversible, Sound(kb), GripInv, CountInv, NEW rec, Call(rec), process_tapping(rec)
    PROVE  Carried
<1>1. CASE FirstTap(rec)
  BY <1>1, CarryFirstTap
<1>2. CASE RetainModifier(rec) \/ WaitForDecision(rec)
  BY <1>2, CarryWaits
<1>3. CASE ReleaseAtOnce(rec) \/ EventDuringTap(rec) \/ EventAfterTap(rec) \/ PlainEvent(rec)
  BY <1>3, CarryPasses
<1>4. CASE Timeout(rec)
  BY <1>4, CarryTimeout
<1>5. CASE TapExpires(rec)
  BY <1>5, CarryExpires
<1>6. CASE TapReleased(rec)
  BY <1>6, CarryReleased
<1>7. CASE SequentialTap(rec)
  BY <1>7, CarrySequential
<1>8. CASE StartAgain(rec)
  BY <1>8, CarryAgain
<1>9. CASE NextTapKey(rec) \/ OtherTapKey(rec) \/ PressTapKey(rec)
  BY <1>9, StartShape, CarryStartsOnly, CarryStartsAsTap
<1> QED BY <1>1, <1>2, <1>3, <1>4, <1>5, <1>6, <1>7, <1>8, <1>9 DEF process_tapping

(* The inductive invariant of the two theorems below.                      *)
HoldInv == LineInv /\ FirstTaps /\ Sound(kb) /\ CountInv /\ GripInv

LEMMA HoldInit == Init => HoldInv
<1> SUFFICES ASSUME Init PROVE HoldInv
  OBVIOUS
<1>1. LineInv /\ CountInv
  BY LineInit, CountInit
<1>2. FirstTaps
  BY EmptySeq DEF Init, FirstTaps
<1>3. PICK name \in DOMAIN KeyMaps : kb = InitKb(name)
  BY DEF Init
<1>4. Sound(kb)
  BY <1>3, SoundInit
<1>5. \A part \in Parts : Grip(kb, part) = {}
  <2>1. kb.keys = {} /\ kb.real = {} /\ kb.weak = {} /\ kb.layer = {} /\ Used(kb) = {}
    BY <1>3 DEF InitKb, Used
  <2> QED BY <2>1, Grips DEF Parts
<1> QED BY <1>1, <1>2, <1>4, <1>5 DEF HoldInv, GripInv

(* Every step carries what is held over, whoever calls process_tapping.    *)
LEMMA HoldCarried ==
    ASSUME Reversible, HoldInv, OneTapWaits, Room, [Next]_vars
    PROVE  CountInv' /\ Carried
<1>1. /\ Inv /\ OrderInv /\ WaitingInv /\ FirstTaps /\ Sound(kb) /\ CountInv /\ GripInv
      /\ LastInv
  BY WaitingLast DEF HoldInv, LineInv, Inv
<1>2. ASSUME NEW rec, Call(rec), process_tapping(rec) PROVE CountInv' /\ Carried
  BY <1>1, <1>2, CountCall, CarryCall
<1>3. ASSUME NEW key \in Keys, Event(key) PROVE CountInv' /\ Carried
  <2>1. EventCall(key) /\ process_tapping(Changed(key))
    BY <1>1, <1>3, EventOrder
  <2>2. PICK rec : rec = Changed(key)
    OBVIOUS
  <2>3. Call(rec) /\ process_tapping(rec)
    BY <1>1, <2>1, <2>2 DEF Call
  <2> QED BY <1>2, <2>3
<1>4. CASE Tick
  <2>1. pc = "scan" /\ process_tapping(TICK)
    BY <1>4 DEF Tick
  <2>2. PICK rec : rec = TICK
    OBVIOUS
  <2>3. Call(rec) /\ process_tapping(rec)
    BY <1>1, <2>1, <2>2 DEF Call
  <2> QED BY <1>2, <2>3
<1>5. CASE Drain
  <2>1. DrainCall /\ process_tapping(waiting_buffer[1])
    BY <1>5 DEF Drain, DrainCall
  <2>2. PICK rec : rec = waiting_buffer[1]
    OBVIOUS
  <2>3. Call(rec) /\ process_tapping(rec)
    BY <1>1, <2>1, <2>2 DEF Call
  <2> QED BY <1>2, <2>3
<1>6. CASE UNCHANGED <<tapping_key, waiting_buffer, kb, settled, toggled>>
  <2>1. CountInv'
    BY <1>1, <1>6, CountStutters
  <2>2. \A k : Counted(k)' <=> Counted(k)
    BY <1>6 DEF Counted, Slots
  <2>3. Tapped' <=> Tapped
    BY <1>6 DEF Tapped, IS_TAPPING_PRESSED, IS_TAPPING
  <2>4. \A k \in Keys : Mode(k)' = Mode(k)
    BY <1>6, <2>2, <2>3, ModeTapped, KeysEvent
  <2> QED BY <1>1, <1>6, <2>1, <2>4, SameCarried
<1> QED BY <1>3, <1>4, <1>5, <1>6 DEF Next, WaitPass, WaitStep, Wait, Drained, vars

LEMMA HoldStep ==
    ASSUME Reversible
    PROVE  HoldInv /\ OneTapWaits /\ Room /\ [Next]_vars => HoldInv'
<1> SUFFICES ASSUME HoldInv, OneTapWaits, Room, [Next]_vars PROVE HoldInv'
  OBVIOUS
<1>1. LineInv' /\ FirstTaps'
  BY LineStep, FirstTapsInvariant DEF HoldInv, LineInv
<1>2. CountInv' /\ Carried
  BY HoldCarried
<1> QED BY <1>1, <1>2 DEF Carried, HoldInv

LEMMA HoldQuiet == HoldInv => NothingStuck
<1> SUFFICES ASSUME HoldInv, Quiet PROVE
        /\ kb.keys = {} /\ kb.weak = {}
        /\ ~toggled => kb.real = {} /\ kb.layer = {}
        /\ \A p \in Pages : kb.usage[p] = KC_NO
        /\ kb.host.keys = {} /\ kb.host.mods \subseteq kb.real \cup kb.oneshot
  BY DEF NothingStuck
<1>1. /\ WaitingInv /\ Told(kb) /\ GripInv /\ down = {} /\ waiting_buffer = <<>>
      /\ ~IS_TAPPING_PRESSED /\ Engine
  BY DEF HoldInv, LineInv, Sound, Quiet, Inv
<1>2. ASSUME NEW k \in Keys PROVE ~settled[k]
  <2>1. Places(waiting_buffer, k) = {}
    BY <1>1, EmptySeq DEF Places
  <2>2. EventsOf(waiting_buffer, k) = <<>>
    BY <1>1, <2>1, EventsEmpty DEF Engine
  <2>3. Waiting(k) = <<>> \o <<>>
    BY <1>1, <2>2 DEF Waiting, Undecided
  <2>4. Waiting(k) = <<>>
    BY <2>3, ConcatEmptySeq, EmptySeq
  <2> QED BY <1>1, <2>4 DEF WaitingInv, LatestOf
<1>3. \A part : Held(part) = {}
  BY <1>2 DEF Held
<1>4. \A part \in Parts : (part = "real" /\ toggled) \/ Grip(kb, part) = {}
  BY <1>1, <1>3 DEF GripInv
<1>5. /\ Grip(kb, "keys") = {} /\ Grip(kb, "weak") = {} /\ Grip(kb, "layer") = {}
      /\ Grip(kb, "usage") = {} /\ (~toggled => Grip(kb, "real") = {})
  BY <1>4 DEF Parts
<1>6. /\ kb.keys = {} /\ kb.weak = {} /\ kb.layer = {} /\ Used(kb) = {}
      /\ (~toggled => kb.real = {})
  BY <1>5, Grips
<1>7. kb.host.keys = {} /\ kb.host.mods \subseteq kb.real \cup kb.oneshot
  BY <1>1, <1>6 DEF Told
<1> QED BY <1>6, <1>7 DEF Used

(* process_action (action.c) and process_tapping (action_tapping.c): when  *)
(* no key is down and nothing waits, no code, modifier, layer or usage is  *)
(* left on, in the keyboard or for the host, but for a modifier that was   *)
(* toggled by TAPPING_TOGGLE taps.  This holds for every matrix, term,     *)
(* size of the buffer and turn of the clock, and for every keymap in which *)
(* releases undo presses, as long as one press of a tap key waits at most  *)
(* and the buffer is not filled up.                                        *)
THEOREM NothingIsStuck ==
    ASSUME Reversible
    PROVE  Spec /\ [](OneTapWaits /\ Room) => []NothingStuck
<1>1. HoldInv /\ (OneTapWaits /\ Room) /\ [Next]_vars => HoldInv'
  BY HoldStep
<1> QED BY <1>1, HoldInit, HoldQuiet, PTL DEF Spec

(* Under the same conditions the layer that layer_switch_get_action        *)
(* (action_layer.c) has recorded for a key stays the same from its press   *)
(* until its release, although it is asked for again when the tapping key  *)
(* settles and when a tap is cancelled.                                    *)
THEOREM ReleasedOnPressLayer ==
    ASSUME Reversible
    PROVE  Spec /\ [](OneTapWaits /\ Room) => ReleaseOnPressLayer
<1>1. HoldInv /\ (OneTapWaits /\ Room) /\ [Next]_vars => HoldInv'
  BY HoldStep
<1>2. HoldInv /\ (OneTapWaits /\ Room) /\ [Next]_vars =>
        [\A k \in Keys : settled[k] => kb'.pressed[k] = kb.pressed[k]]_vars
  BY HoldCarried DEF Carried
<1> QED BY <1>1, <1>2, HoldInit, PTL DEF Spec, ReleaseOnPressLayer

-----------------------------------------------------------------------------
(* One-shot modifiers                                                      *)

(* A one-shot modifier that waits goes on waiting, or goes to the host     *)
(* together with a key.                                                    *)
Reaches(q, r) ==
    q.keys = {} => \/ r.oneshot = q.oneshot
                   \/ r.keys # {} /\ q.oneshot \subseteq r.host.mods

LEMMA SendReaches ==
    ASSUME NEW q \in Kb PROVE Reaches(q, send_keyboard_report(q))
BY DEF send_keyboard_report, Kb, Reaches

LEMMA RegisterReaches ==
    ASSUME NEW q \in Kb, NEW mods \in SUBSET Mods
    PROVE  /\ Reaches(q, register_mods(q, mods)) /\ Reaches(q, unregister_mods(q, mods))
BY DEF register_mods, unregister_mods, send_keyboard_report, Kb, Reaches

LEMMA CodeReaches ==
    ASSUME NEW q \in Kb, NEW code
    PROVE  /\ Reaches(q, register_code(q, code)) /\ Reaches(q, unregister_code(q, code))
           /\ q.keys = {} => /\ unregister_code(q, code).keys = {}
                             /\ unregister_code(q, code).oneshot = q.oneshot
<1>1. CASE code \in KeyCodes
  <2>0. code \notin Mods /\ ~IsUsage(code)
    BY <1>1, ActionsAssumption DEF IsUsage
  <2> DEFINE v == [q EXCEPT !.keys = @ \cup {code}]
             w == [q EXCEPT !.keys = @ \ {code}]
  <2>1. /\ register_code(q, code) = send_keyboard_report(v)
        /\ unregister_code(q, code) = send_keyboard_report(w)
    BY <1>1, <2>0 DEF register_code, unregister_code
  <2>2. /\ v \in Kb /\ v.keys = q.keys \cup {code} /\ v.oneshot = q.oneshot
        /\ w \in Kb /\ w.keys = q.keys \ {code} /\ w.oneshot = q.oneshot
    BY <1>1 DEF Kb
  <2> HIDE DEF v, w
  <2>3. /\ v.oneshot \subseteq send_keyboard_report(v).host.mods
        /\ send_keyboard_report(v).keys = v.keys
        /\ send_keyboard_report(w).keys = w.keys
        /\ w.keys = {} => send_keyboard_report(w).oneshot = w.oneshot
    BY <2>2 DEF send_keyboard_report, Kb
  <2>4. v.keys # {}
    BY <2>2
  <2> QED BY <2>1, <2>2, <2>3, <2>4 DEF Reaches
<1>2. CASE code \notin KeyCodes /\ code \in Mods
  <2>0. ~IsUsage(code)
    BY <1>2, ActionsAssumption DEF IsUsage
  <2> DEFINE v == [q EXCEPT !.real = @ \cup {code}]
             w == [q EXCEPT !.real = @ \ {code}]
  <2>1. /\ register_code(q, code) = send_keyboard_report(v)
        /\ unregister_code(q, code) = send_keyboard_report(w)
    BY <1>2, <2>0 DEF register_code, unregister_code
  <2>2. /\ v \in Kb /\ v.keys = q.keys /\ v.oneshot = q.oneshot
        /\ w \in Kb /\ w.keys = q.keys /\ w.oneshot = q.oneshot
    BY <1>2 DEF Kb
  <2> HIDE DEF v, w
  <2>3. /\ Reaches(v, send_keyboard_report(v)) /\ Reaches(w, send_keyboard_report(w))
        /\ send_keyboard_report(w).keys = w.keys
        /\ w.keys = {} => send_keyboard_report(w).oneshot = w.oneshot
    BY <2>2, SendReaches DEF send_keyboard_report, Kb
  <2> QED BY <2>1, <2>2, <2>3 DEF Reaches
<1>3. CASE code \notin KeyCodes /\ code \notin Mods
  <2>1. /\ register_code(q, code) =
             IF IsUsage(code) THEN host_send(q, PageOf(code), code) ELSE q
        /\ unregister_code(q, code) =
             IF IsUsage(code) THEN host_send(q, PageOf(code), KC_NO) ELSE q
    BY <1>3 DEF register_code, unregister_code
  <2>2. \A page, c : /\ host_send(q, page, c).oneshot = q.oneshot
                     /\ host_send(q, page, c).keys = q.keys
    BY DEF host_send, Kb
  <2> QED BY <2>1, <2>2 DEF Reaches
<1> QED BY <1>1, <1>2, <1>3

LEMMA ModsReaches ==
    ASSUME NEW q \in Kb, NEW a \in Actions, a.kind = "MODS", NEW pressed \in BOOLEAN
    PROVE  Reaches(q, ProcessMods(q, a, pressed))
<1>0. a.mods \in SUBSET Mods
  BY ActionFields
<1>1. CASE pressed
  <2> DEFINE w == [q EXCEPT !.weak = @ \cup a.mods]
             t == IF a.mods = {} THEN q ELSE send_keyboard_report(w)
  <2>1. w \in Kb /\ w.keys = q.keys /\ w.oneshot = q.oneshot
    BY <1>0 DEF Kb
  <2>2. send_keyboard_report(w) \in Kb
    BY <2>1, SendType
  <2>3. t \in Kb /\ (q.keys = {} => t.keys = {} /\ t.oneshot = q.oneshot)
    <3>1. /\ send_keyboard_report(w).keys = w.keys
          /\ w.keys = {} => send_keyboard_report(w).oneshot = w.oneshot
      BY <2>1 DEF send_keyboard_report, Kb
    <3> QED BY <2>1, <2>2, <3>1
  <2>4. ProcessMods(q, a, pressed) = register_code(t, a.code)
    BY <1>1 DEF ProcessMods
  <2> HIDE DEF t, w
  <2>5. Reaches(t, register_code(t, a.code))
    BY <2>3, CodeReaches
  <2> QED BY <2>3, <2>4, <2>5 DEF Reaches
<1>2. CASE ~pressed
  <2> DEFINE r == unregister_code(q, a.code)
             w == [r EXCEPT !.weak = @ \ a.mods]
  <2>1. r \in Kb /\ (q.keys = {} => r.keys = {} /\ r.oneshot = q.oneshot)
    BY RegisterCodeType, CodeReaches
  <2>2. ProcessMods(q, a, pressed) = IF a.mods = {} THEN r ELSE send_keyboard_report(w)
    BY <1>2 DEF ProcessMods
  <2> HIDE DEF r
  <2>3. w \in Kb /\ w.keys = r.keys /\ w.oneshot = r.oneshot
    BY <2>1 DEF Kb
  <2> HIDE DEF w
  <2>4. Reaches(w, send_keyboard_report(w)) /\ send_keyboard_report(w).keys = w.keys
    BY <2>3, SendReaches DEF send_keyboard_report, Kb
  <2> QED BY <2>1, <2>2, <2>3, <2>4 DEF Reaches
<1> QED BY <1>1, <1>2

LEMMA LayerReaches ==
    ASSUME NEW q \in Kb
    PROVE  /\ \A l, d : [q EXCEPT !.layer = l].oneshot = q.oneshot
                        /\ [q EXCEPT !.deflt = d].oneshot = q.oneshot
           /\ \A v : /\ layer_on(q, v).oneshot = q.oneshot
                     /\ layer_off(q, v).oneshot = q.oneshot
                     /\ layer_invert(q, v).oneshot = q.oneshot
                     /\ layer_move(q, v).oneshot = q.oneshot
                     /\ layer_on(q, v).keys = q.keys
                     /\ layer_off(q, v).keys = q.keys
           /\ layer_clear(q).oneshot = q.oneshot
BY DEF layer_on, layer_off, layer_invert, layer_move, layer_clear, Kb

LEMMA ActionReaches ==
    ASSUME NEW q \in Kb, NEW rec \in Records, ~IsOneShot(layer_switch_get_action(q, rec))
    PROVE  Reaches(q, process_action(q, rec))
<1> DEFINE a == layer_switch_get_action(q, rec)
           t == Track(q, rec)
           p == process_action(q, rec)
<1>1. rec.key \in Keys /\ rec.pressed \in BOOLEAN /\ rec.count \in Nat
  BY RecordBits
<1>2. a \in Actions /\ t \in Kb /\ t.keys = q.keys /\ t.oneshot = q.oneshot
  BY <1>1, GetActionType, TrackType DEF Track, Kb
<1>d. p = CASE a.kind = "MODS"       -> ProcessMods(t, a, rec.pressed)
          [] a.kind = "MODS_TAP" /\ a.code = MODS_ONESHOT ->
                ProcessOneShot(t, a.mods, rec)
          [] a.kind = "MODS_TAP" /\ a.code = MODS_TAP_TOGGLE ->
                ProcessTapToggle(t, a.mods, rec)
          [] a.kind = "MODS_TAP" /\ a.code \notin {MODS_ONESHOT, MODS_TAP_TOGGLE} ->
                ProcessModsTap(t, a, rec)
          [] a.kind = "USAGE"      ->
                host_send(t, a.page, IF rec.pressed THEN a.code ELSE KC_NO)
          [] a.kind = "LAYER"      -> ProcessLayer(t, a, rec.pressed)
          [] a.kind = "LAYER_TAP"  -> ProcessLayerTap(t, a, rec)
          [] a.kind = "LAYER_MODS" -> ProcessLayerMods(t, a, rec.pressed)
          [] OTHER                 -> t
  BY DEF process_action
<1>n. ~(a.kind = "MODS_TAP" /\ a.code = MODS_ONESHOT)
  BY DEF IsOneShot
<1> HIDE DEF a, t, p
<1>3. SUFFICES Reaches(t, p)
  BY <1>2 DEF Reaches, p
<1>f. /\ a.kind \in {"MODS", "MODS_TAP", "LAYER_MODS"} => a.mods \in SUBSET Mods
      /\ a.kind = "USAGE" => a.page \in Pages /\ a.code \in Codes
      /\ a.kind \in {"LAYER_TAP", "LAYER_MODS"} => a.val \in Layers
  BY <1>2, ActionFields
<1>s. Reaches(t, t)
  BY DEF Reaches
<1>4. CASE a.kind = "MODS"
  BY <1>d, <1>1, <1>2, <1>4, ModsReaches
<1>5. CASE a.kind = "MODS_TAP" /\ a.code = MODS_TAP_TOGGLE
  <2>1. p = ProcessTapToggle(t, a.mods, rec)
    BY <1>d, <1>n, <1>5
  <2> QED BY <1>2, <1>5, <1>f, <1>s, <2>1, RegisterReaches DEF ProcessTapToggle
<1>6. CASE a.kind = "MODS_TAP" /\ a.code \notin {MODS_ONESHOT, MODS_TAP_TOGGLE}
  <2>1. p = ProcessModsTap(t, a, rec)
    BY <1>d, <1>6
  <2> QED BY <1>1, <1>2, <1>6, <1>f, <1>s, <2>1, RegisterReaches, CodeReaches
          DEF ProcessModsTap
<1>7. CASE a.kind = "USAGE"
  <2>1. p = host_send(t, a.page, IF rec.pressed THEN a.code ELSE KC_NO)
    BY <1>d, <1>7
  <2> QED BY <1>2, <2>1 DEF host_send, Kb, Reaches
<1>8. CASE a.kind = "LAYER"
  <2>1. p = ProcessLayer(t, a, rec.pressed)
    BY <1>d, <1>8
  <2>2. ProcessLayer(t, a, rec.pressed).oneshot = t.oneshot
    BY <1>2, LayerReaches DEF ProcessLayer
  <2> QED BY <2>1, <2>2 DEF Reaches
<1>9. CASE a.kind = "LAYER_TAP"
  <2>1. p = ProcessLayerTap(t, a, rec)
    BY <1>d, <1>9
  <2>2. CASE a.code \in {OP_TAP_TOGGLE, OP_ON_OFF, OP_OFF_ON, OP_SET_CLEAR}
    <3>1. ProcessLayerTap(t, a, rec) \in
            {t, layer_invert(t, a.val), layer_on(t, a.val), layer_off(t, a.val),
             layer_move(t, a.val), layer_clear(t)}
      BY <2>2 DEF ProcessLayerTap
    <3> QED BY <1>2, <2>1, <3>1, LayerReaches DEF Reaches
  <2>3. CASE a.code \notin {OP_TAP_TOGGLE, OP_ON_OFF, OP_OFF_ON, OP_SET_CLEAR}
    <3>1. ProcessLayerTap(t, a, rec) \in
            {register_code(t, a.code), layer_on(t, a.val), unregister_code(t, a.code),
             layer_off(t, a.val)}
      BY <1>1, <2>3 DEF ProcessLayerTap
    <3>2. Reaches(t, layer_on(t, a.val)) /\ Reaches(t, layer_off(t, a.val))
      BY <1>2, LayerReaches DEF Reaches
    <3> QED BY <1>2, <2>1, <3>1, <3>2, CodeReaches
  <2> QED BY <2>2, <2>3
<1>10. CASE a.kind = "LAYER_MODS"
  <2>1. p = ProcessLayerMods(t, a, rec.pressed)
    BY <1>d, <1>10
  <2> DEFINE u == layer_on(t, a.val)
             v == layer_off(t, a.val)
  <2>2. /\ u \in Kb /\ v \in Kb /\ u.keys = t.keys /\ v.keys = t.keys
        /\ u.oneshot = t.oneshot /\ v.oneshot = t.oneshot
    BY <1>2, <1>10, <1>f, LayerOpsType, LayerReaches
  <2>3. p \in {register_mods(u, a.mods), unregister_mods(v, a.mods)}
    BY <2>1 DEF ProcessLayerMods
  <2> HIDE DEF u, v
  <2>4. Reaches(u, register_mods(u, a.mods)) /\ Reaches(v, unregister_mods(v, a.mods))
    BY <1>10, <1>f, <2>2, RegisterReaches
  <2> QED BY <2>2, <2>3, <2>4 DEF Reaches
<1>11. CASE a.kind \notin {"MODS", "MODS_TAP", "USAGE", "LAYER", "LAYER_TAP", "LAYER_MODS"}
  BY <1>d, <1>11, <1>s
<1> QED BY <1>n, <1>4, <1>5, <1>6, <1>7, <1>8, <1>9, <1>10, <1>11

(* A one-shot key that is tapped twice in a row, and is then down as an    *)
(* ordinary modifier, has no other key beside it whose press would make    *)
(* the engine release it for the host (action_tapping.c:159).              *)
OneShotFree ==
    Tapped /\ tapping_key.count > 1 /\ HasTapCode(tapping_key.key, MODS_ONESHOT) =>
        \A k \in Keys : TapKey(k) => k = tapping_key.key

(* The step that takes a one-shot modifier sends it with a key, or it is   *)
(* an event of the one-shot key itself.                                    *)
Served ==
    kb.oneshot # {} /\ kb'.oneshot = {} /\ kb.keys = {} =>
        \/ kb'.keys # {} /\ kb.oneshot \subseteq kb'.host.mods
        \/ \E k \in Keys : HasTapCode(k, MODS_ONESHOT) /\ settled'[k] # settled[k]

LEMMA OneShotCode ==
    ASSUME NEW k \in Keys, NEW a \in ActionsOf(kb, k), IsOneShot(a)
    PROVE  HasTapCode(k, MODS_ONESHOT)
<1>1. a.kind = "MODS_TAP" /\ a.code = MODS_ONESHOT
  BY DEF IsOneShot
<1> QED BY <1>1 DEF HasTapCode

LEMMA ServedSame == kb' = kb => Served
BY DEF Served

LEMMA ActServed ==
    ASSUME Reversible, Sound(kb), NEW x \in Records, kb' = process_action(kb, x),
           IsOneShot(layer_switch_get_action(kb, x)) => settled'[x.key] # settled[x.key]
    PROVE  Served
<1> DEFINE a == layer_switch_get_action(kb, x)
<1>1. x.key \in Keys /\ kb \in Kb /\ a \in ActionsOf(kb, x.key)
  BY RecordBits, SoundAct DEF Reversible, Sound
<1>2. CASE IsOneShot(a)
  <2>1. HasTapCode(x.key, MODS_ONESHOT) /\ settled'[x.key] # settled[x.key]
    BY <1>1, <1>2, OneShotCode
  <2> QED BY <1>1, <2>1 DEF Served
<1>3. CASE ~IsOneShot(a)
  <2>1. Reaches(kb, process_action(kb, x))
    BY <1>1, <1>3, ActionReaches
  <2> QED BY <2>1 DEF Served, Reaches
<1> QED BY <1>2, <1>3

LEMMA NotBoth == \A a : ~(IsOneShot(a) /\ IsCancellable(a))
BY DEF IsOneShot, IsCancellable, TapModes

LEMMA ServedTimeout ==
    ASSUME Reversible, Sound(kb), CountInv, NEW rec, Call(rec), Timeout(rec)
    PROVE  Served
<1>1. /\ kb' = process_action(kb, tapping_key) /\ Settles(tapping_key.key, TRUE)
      /\ Undecided /\ tapping_key \in Records
  BY TimeoutShape
<1>2. Engine /\ tapping_key.key \in Keys /\ settled \in [Keys -> BOOLEAN]
  BY <1>1, CallFacts, RecordFields DEF Engine
<1>3. ASSUME IsOneShot(layer_switch_get_action(kb, tapping_key))
      PROVE  settled'[tapping_key.key] # settled[tapping_key.key]
  <2>1. ~settled[tapping_key.key]
    BY <1>1, <1>2, <1>3, SettledFixed, NotBoth DEF Reversible
  <2>2. settled'[tapping_key.key] = TRUE
    BY <1>1, <1>2 DEF Settles
  <2> QED BY <1>2, <2>1, <2>2
<1> QED BY <1>1, <1>3, ActServed

LEMMA ServedFirstTap ==
    ASSUME Reversible, Sound(kb), CountInv, NEW rec, Call(rec), FirstTap(rec)
    PROVE  Served
<1>1. /\ Undecided /\ tapping_key \in Records
      /\ FirstTapOf \in Records /\ FirstTapOf.key = tapping_key.key
      /\ kb' = process_action(kb, FirstTapOf) /\ Settles(tapping_key.key, TRUE)
  BY FirstTapShape
<1>2. PICK x \in Records : x = FirstTapOf
  BY <1>1
<1>3. /\ Engine /\ x.key \in Keys /\ settled \in [Keys -> BOOLEAN] /\ x.key = tapping_key.key
      /\ kb' = process_action(kb, x)
  BY <1>1, <1>2, CallFacts, RecordFields DEF Engine
<1>4. ASSUME IsOneShot(layer_switch_get_action(kb, x))
      PROVE  settled'[x.key] # settled[x.key]
  <2>1. ~settled[tapping_key.key]
    BY <1>1, <1>3, <1>4, SettledFixed, NotBoth DEF Reversible
  <2>2. settled'[x.key] = TRUE
    BY <1>1, <1>3 DEF Settles
  <2> QED BY <1>3, <2>1, <2>2
<1> QED BY <1>3, <1>4, ActServed

LEMMA ServedPasses ==
    ASSUME Reversible, Sound(kb), CountInv, NEW rec, Call(rec),
           ReleaseAtOnce(rec) \/ EventDuringTap(rec) \/ EventAfterTap(rec) \/ PlainEvent(rec)
    PROVE  Served
<1>1. /\ kb' = Act(rec) /\ Settles(rec.key, rec.pressed)
      /\ ~Undecided \/ (~rec.pressed /\ ~waiting_buffer_typed(rec) /\ ~OwnRelease(rec))
  BY PassShape
<1>2. /\ Engine
      /\ rec.key # NOEVENT => rec \in Records /\ rec.key \in Keys /\ rec.pressed \in BOOLEAN
  BY CallFacts, RecordBits
<1>3. CASE rec.key = NOEVENT
  BY <1>1, <1>3, ServedSame DEF Act
<1>4. CASE rec.key # NOEVENT
  <2>1. ~Holds(rec.key)
    BY <1>1, <1>2, <1>4, TapStates DEF Holds, OwnRelease, IS_TAPPING_KEY
  <2>2. pc = "scan" => EventsOf(waiting_buffer, rec.key) = <<>>
    BY <1>1, <1>4, NoneOfKey
  <2>3. settled[rec.key] = ~rec.pressed
    BY <1>4, <2>1, <2>2, FirstOfKey
  <2>4. settled'[rec.key] = rec.pressed
    BY <1>1, <1>2, <1>4 DEF Settles
  <2>5. settled'[rec.key] # settled[rec.key]
    BY <1>2, <1>4, <2>3, <2>4
  <2> QED BY <1>1, <1>2, <1>4, <2>5, ActServed DEF Act
<1> QED BY <1>3, <1>4

LEMMA ServedReleased ==
    ASSUME Reversible, Sound(kb), CountInv, NEW rec, Call(rec), TapReleased(rec)
    PROVE  Served
<1>1. /\ kb' = process_action(kb, WithTap(rec)) /\ Settles(rec.key, FALSE)
      /\ Tapped /\ rec \in Records /\ rec.key = tapping_key.key
      /\ WithTap(rec) \in Records /\ WithTap(rec).key = rec.key
  BY ReleasedShape
<1>2. PICK x \in Records : x = WithTap(rec)
  BY <1>1
<1>3. rec.key \in Keys /\ x.key = rec.key /\ kb' = process_action(kb, x)
  BY <1>1, <1>2, RecordFields
<1>4. settled[x.key] /\ settled'[x.key] = FALSE
  BY <1>1, <1>3 DEF CountInv, TapSettled, Settles
<1> QED BY <1>3, <1>4, ActServed

LEMMA ServedSequential ==
    ASSUME Reversible, Sound(kb), CountInv, NEW rec, Call(rec), SequentialTap(rec)
    PROVE  Served
<1>1. /\ kb' = process_action(kb, NextTapOf(rec)) /\ Settles(rec.key, TRUE)
      /\ IS_TAPPING_RELEASED /\ rec \in Records /\ rec.pressed = TRUE
      /\ NextTapOf(rec) \in Records /\ NextTapOf(rec).key = rec.key
  BY SequentialShape DEF Reversible
<1>2. PICK x \in Records : x = NextTapOf(rec)
  BY <1>1
<1>3. rec.key \in Keys /\ x.key = rec.key /\ kb' = process_action(kb, x) /\ ~Undecided
  BY <1>1, <1>2, RecordFields DEF IS_TAPPING_RELEASED, Undecided, IS_TAPPING_PRESSED
<1>4. settled[x.key] = FALSE /\ settled'[x.key] = TRUE
  BY <1>1, <1>3, PressTaken DEF Settles
<1> QED BY <1>3, <1>4, ActServed

(* What comes before a new tapping key starts leaves the modifier alone.   *)
LEMMA BeforeServes ==
    ASSUME Reversible, OneShotFree, Sound(kb), CountInv, NEW rec, Call(rec), rec \in Records,
           rec.pressed, ~Undecided, TapKey(rec.key)
    PROVE  /\ Before(rec).keymap = kb.keymap
           /\ kb.keys = {} => Before(rec).keys = {} /\ Before(rec).oneshot = kb.oneshot
<1> DEFINE t == Track(kb, rec)
<1>0. kb \in Kb /\ Engine /\ rec.key \in Keys
  BY CallFacts, RecordFields DEF Engine
<1>1. Tapped => tapping_key.key # rec.key
  BY BeforeStep
<1>2. Sound(t) /\ t.keymap = kb.keymap /\ \A k : ActionsOf(t, k) = ActionsOf(kb, k)
  BY SoundTrack DEF Reversible
<1>3. t \in Kb /\ t.keys = kb.keys /\ t.oneshot = kb.oneshot
  BY <1>0, TrackType DEF Track, Kb
<1> HIDE DEF t
<1>4. CASE ~(Tapped /\ tapping_key.count > 1)
  BY <1>2, <1>3, <1>4 DEF Before, t
<1>5. CASE Tapped /\ tapping_key.count > 1
  <2> DEFINE x == ForcedRelease(rec)
             a == layer_switch_get_action(t, x)
             r == process_action(t, x)
  <2>1. tapping_key \in Records /\ tapping_key.key \in Keys
    BY <1>0, <1>5, TapStates
  <2>2. x \in Records /\ x.key = tapping_key.key /\ x.pressed = FALSE
    <3>1. rec.time \in 0 .. TimeMod-2
      BY DEF Records
    <3>2. tapping_key \in [key : Keys, pressed : BOOLEAN, time : 0 .. TimeMod-2,
                           count : 0 .. TapMax, interrupted : BOOLEAN]
      BY <2>1 DEF Records
    <3> QED BY <3>1, <3>2 DEF ForcedRelease, Records
  <2>3. Before(rec) = r
    BY <1>5 DEF Before, t
  <2> HIDE DEF x
  <2>4. a \in ActionsOf(t, x.key) /\ Effect(t, r, a, x) /\ r.keymap = t.keymap
    BY <1>2, <2>2, SoundAct DEF Reversible
  <2>5. ~IsOneShot(a)
    <3>1. a \in ActionsOf(kb, tapping_key.key)
      BY <1>2, <2>2, <2>4
    <3>2. IsOneShot(a) => HasTapCode(tapping_key.key, MODS_ONESHOT)
      BY <2>1, <3>1, OneShotCode
    <3> QED BY <1>0, <1>1, <1>5, <3>2 DEF OneShotFree
  <2>6. Reaches(t, r)
    BY <1>3, <2>2, <2>5, ActionReaches
  <2>7. Grip(r, "keys") \subseteq Grip(t, "keys")
    <3>1. "keys" \in Parts /\ ~Stays_On(a, x.count, "keys")
      BY DEF Parts, Stays_On
    <3> QED BY <2>2, <2>4, <3>1 DEF Effect
  <2>8. r.keys \subseteq kb.keys
    BY <1>3, <2>7, Grips
  <2> QED BY <1>2, <1>3, <2>3, <2>4, <2>6, <2>8 DEF Reaches
<1> QED BY <1>4, <1>5

LEMMA ServedStarts ==
    ASSUME Reversible, OneShotFree, Sound(kb), CountInv, NEW rec, Call(rec),
           NextTapKey(rec) \/ OtherTapKey(rec) \/ PressTapKey(rec)
    PROVE  Served
<1> DEFINE b == Before(rec)
           y == TapOf(rec)
<1>1. /\ ~Undecided /\ rec \in Records /\ rec.pressed = TRUE /\ TapKey(rec.key)
      /\ y \in Records /\ y.key = rec.key
      /\ StartsOnly(rec) \/ StartsAsTap(rec)
  BY StartShape
<1>2. /\ settled[rec.key] = FALSE /\ Sound(b) /\ rec.key \in Keys
      /\ b.keymap = kb.keymap
      /\ kb.keys = {} => b.keys = {} /\ b.oneshot = kb.oneshot
  BY <1>1, BeforeStep, BeforeServes, RecordFields
<1>3. CASE StartsOnly(rec)
  BY <1>2, <1>3 DEF StartsOnly, Served
<1>4. CASE StartsAsTap(rec)
  <2>1. kb' = process_action(b, y) /\ settled'[rec.key] = TRUE
    BY <1>2, <1>4 DEF StartsAsTap, Settles
  <2> HIDE DEF b, y
  <2> DEFINE a == layer_switch_get_action(b, y)
  <2>2. a \in ActionsOf(b, rec.key) /\ b \in Kb
    BY <1>1, <1>2, SoundAct DEF Reversible, Sound
  <2>3. CASE IsOneShot(a)
    <3>1. a \in ActionsOf(kb, rec.key)
      BY <1>2, <2>2 DEF ActionsOf, action_for_key
    <3>2. HasTapCode(rec.key, MODS_ONESHOT)
      BY <1>2, <2>3, <3>1, OneShotCode
    <3> QED BY <1>2, <2>1, <3>2 DEF Served
  <2>4. CASE ~IsOneShot(a)
    <3>1. Reaches(b, process_action(b, y))
      BY <1>1, <2>2, <2>4, ActionReaches
    <3> QED BY <1>2, <2>1, <3>1 DEF Served, Reaches
  <2> QED BY <2>3, <2>4
<1> QED BY <1>1, <1>3, <1>4

LEMMA ServedCall ==
    ASSUME Reversible, OneShotFree, Sound(kb), CountInv, NEW rec, Call(rec),
           process_tapping(rec)
    PROVE  Served
<1>1. CASE RetainModifier(rec) \/ WaitForDecision(rec)
  BY <1>1, WaitsShape, ServedSame
<1>2. CASE TapExpires(rec)
  BY <1>2, ExpiresShape, ServedSame
<1>3. CASE StartAgain(rec)
  BY <1>3, AgainShape, ServedSame
<1> QED BY <1>1, <1>2, <1>3, ServedTimeout, ServedFirstTap, ServedPasses, ServedReleased,
           ServedSequential, ServedStarts DEF process_tapping

LEMMA HoldServed ==
    ASSUME Reversible, HoldInv, OneTapWaits, Room, OneShotFree, [Next]_vars
    PROVE  Served
<1>1. /\ Inv /\ OrderInv /\ WaitingInv /\ FirstTaps /\ Sound(kb) /\ CountInv /\ LastInv
  BY WaitingLast DEF HoldInv, LineInv, Inv
<1>2. ASSUME NEW rec, Call(rec), process_tapping(rec) PROVE Served
  BY <1>1, <1>2, ServedCall
<1>3. ASSUME NEW key \in Keys, Event(key) PROVE Served
  <2>1. EventCall(key) /\ process_tapping(Changed(key))
    BY <1>1, <1>3, EventOrder
  <2>2. PICK rec : rec = Changed(key)
    OBVIOUS
  <2>3. Call(rec) /\ process_tapping(rec)
    BY <1>1, <2>1, <2>2 DEF Call
  <2> QED BY <1>2, <2>3
<1>4. CASE Tick
  <2>1. pc = "scan" /\ process_tapping(TICK)
    BY <1>4 DEF Tick
  <2>2. PICK rec : rec = TICK
    OBVIOUS
  <2>3. Call(rec) /\ process_tapping(rec)
    BY <1>1, <2>1, <2>2 DEF Call
  <2> QED BY <1>2, <2>3
<1>5. CASE Drain
  <2>1. DrainCall /\ process_tapping(waiting_buffer[1])
    BY <1>5 DEF Drain, DrainCall
  <2>2. PICK rec : rec = waiting_buffer[1]
    OBVIOUS
  <2>3. Call(rec) /\ process_tapping(rec)
    BY <1>1, <2>1, <2>2 DEF Call
  <2> QED BY <1>2, <2>3
<1>6. CASE kb' = kb
  BY <1>6, ServedSame
<1> QED BY <1>3, <1>4, <1>5, <1>6 DEF Next, WaitPass, WaitStep, Wait, Drained, vars

(* ProcessOneShot and send_keyboard_report (action.c, action_util.c): a    *)
(* one-shot modifier that waits, while no key is held, is ended by a       *)
(* report that carries a key and the modifier, or by an event of the       *)
(* one-shot key itself; no report without a key loses it, and no action of *)
(* another key takes it away.  Under the conditions above, as long as a    *)
(* one-shot key that is held as a modifier has no tap key beside it.       *)
THEOREM OneShotsReach ==
    ASSUME Reversible
    PROVE  Spec /\ [](OneTapWaits /\ Room /\ OneShotFree) => OneShotReachesKey
<1>1. HoldInv /\ (OneTapWaits /\ Room /\ OneShotFree) /\ [Next]_vars => HoldInv'
  BY HoldStep
<1>2. HoldInv /\ (OneTapWaits /\ Room /\ OneShotFree) /\ [Next]_vars =>
        [kb.oneshot # {} /\ kb'.oneshot = {} /\ kb.keys = {} =>
            \/ kb'.keys # {} /\ kb.oneshot \subseteq kb'.host.mods
            \/ \E k \in Keys :
                  HasTapCode(k, MODS_ONESHOT) /\ settled'[k] # settled[k]]_vars
  BY HoldServed DEF Served
<1> QED BY <1>1, <1>2, HoldInit, PTL DEF Spec, OneShotReachesKey
=============================================================================
