---------------------------- MODULE KeyRingLoops ----------------------------
(***************************************************************************)
(* add_key_byte and del_key_byte once more, as the loops they are written  *)
(* as: one iteration per recursive call, on a record of the ring.  KeyRing *)
(* states what the loops do; this module is what it is checked against.    *)
(***************************************************************************)
EXTENDS KeyRing

Ring == [keys |-> keys, head |-> head, tail |-> tail, count |-> count]

None == -1

RECURSIVE Scan(_, _, _, _), Shift(_, _, _, _), Retract(_)

\* the search loop of add_key_byte: the first hole, or Found at the code
Scan(r, code, i, empty) ==
    IF r.keys[i] = code THEN [found |-> TRUE, empty |-> empty]
    ELSE LET e == IF empty = None /\ r.keys[i] = NoKey THEN i ELSE empty
         IN  IF RO_INC(i) = r.tail THEN [found |-> FALSE, empty |-> e]
             ELSE Scan(r, code, RO_INC(i), e)

\* the left-shift loop, then cb_tail = RO_SUB(cb_tail, offset)
Shift(r, i, empty, offset) ==
    LET moved == r.keys[i] # NoKey
        ks    == IF moved THEN [r.keys EXCEPT ![empty] = r.keys[i], ![i] = NoKey]
                 ELSE r.keys
        e     == IF moved THEN RO_INC(empty) ELSE empty
        o     == IF moved THEN offset ELSE offset + 1
        s     == [r EXCEPT !.keys = ks]
    IN  IF RO_INC(i) = r.tail THEN [s EXCEPT !.tail = RO_SUB(r.tail, o)]
        ELSE Shift(s, RO_INC(i), e, o)

AddToTail(r, code) ==
    [r EXCEPT !.keys[r.tail] = code, !.tail = RO_INC(r.tail),
              !.count = (r.count + 1) % CountMod]

AddLoop(r, code) ==
    IF r.count = 0 THEN AddToTail(r, code)
    ELSE LET f == Scan(r, code, r.head, None) IN
         CASE f.found           -> r
           [] ~f.found /\ r.tail # r.head -> AddToTail(r, code)
           [] ~f.found /\ r.tail = r.head /\ f.empty = None ->
                 AddToTail([r EXCEPT !.head = RO_INC(r.head),
                                     !.count = (r.count - 1) % CountMod], code)
           [] OTHER -> AddToTail(Shift(r, RO_INC(f.empty), f.empty, 1), code)

\* the loop that moves cb_tail back
Retract(r) ==
    LET s == [r EXCEPT !.tail = RO_DEC(r.tail)] IN
    IF s.keys[RO_DEC(s.tail)] # NoKey \/ s.tail = s.head THEN s ELSE Retract(s)

DelAt(r, i) ==
    LET c == (r.count - 1) % CountMod
        s == [r EXCEPT !.keys[i] = NoKey, !.count = c,
                       !.head = IF c = 0 THEN 0 ELSE r.head,
                       !.tail = IF c = 0 THEN 0 ELSE r.tail]
    IN  IF i = RO_DEC(s.tail) THEN Retract(s) ELSE s

RECURSIVE DelScan(_, _, _)
DelScan(r, code, i) ==
    IF r.keys[i] = code THEN DelAt(r, i)
    ELSE IF RO_INC(i) = r.tail THEN r ELSE DelScan(r, code, RO_INC(i))

DelLoop(r, code) == IF r.count = 0 THEN r ELSE DelScan(r, code, r.head)

-----------------------------------------------------------------------------
(* The declarative add_key_byte and del_key_byte of KeyRing leave the ring *)
(* exactly as the loops of the source do.                                  *)
MatchesLoops ==
    [][\A code \in Codes :
          /\ add_key_byte(code) => Ring' = AddLoop(Ring, code)
          /\ del_key_byte(code) => Ring' = DelLoop(Ring, code)]_vars
=============================================================================
