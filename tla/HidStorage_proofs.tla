-------------------------- MODULE HidStorage_proofs --------------------------
(***************************************************************************)
(* What TLC checks of HidStorage for one small keyboard, proved for any    *)
(* number of layers, rows and columns, any size of the blocks and of a     *)
(* packet: lookups are honest, packets are set as meant, and what is saved *)
(* survives wherever the power fails, provided that no two sections share  *)
(* a page of the data flash.                                               *)
(***************************************************************************)
EXTENDS HidStorage, TLAPS

-----------------------------------------------------------------------------
(* The layout                                                              *)

LEMMA ProductNat == \A m, n \in Nat : m * n \in Nat
BY SMT

LEMMA WordsEnough == \A n \in Nat : Words(n) \in Nat /\ n <= Words(n)
<1> SUFFICES ASSUME NEW n \in Nat PROVE Words(n) \in Nat /\ n <= Words(n)
  OBVIOUS
<1>1. Word \in Nat /\ Word > 0
  BY SMT, StorageAssumption DEF StorageAssumption
<1> DEFINE q == (n + Word - 1) \div Word
           r == (n + Word - 1) % Word
<1>2. q \in Nat /\ r \in 0 .. Word - 1 /\ n + Word - 1 = Word * q + r
  BY <1>1, SMTT(30)
<1>3. q * Word \in Nat /\ q * Word = Word * q
  BY <1>1, <1>2, SMT
<1>4. n <= q * Word
  BY <1>1, <1>2, <1>3, SMT
<1> QED  BY <1>3, <1>4 DEF Words

LEMMA RowSizes ==
    /\ KEYMAP_ROW_SIZE \in Nat /\ KEYMAP_LAYER_SIZE \in Nat /\ KeymapBytes \in Nat
    /\ Rows \in Nat /\ Cols \in Nat /\ Layers \in Nat
<1>1. Layers \in Nat /\ Rows \in Nat /\ Cols \in Nat
  BY StorageAssumption DEF StorageAssumption
<1>2. KEYMAP_ROW_SIZE \in Nat
  BY <1>1, SMT DEF KEYMAP_ROW_SIZE
<1>3. KEYMAP_LAYER_SIZE \in Nat
  BY <1>1, <1>2, ProductNat DEF KEYMAP_LAYER_SIZE
<1> QED  BY <1>1, <1>2, <1>3, ProductNat DEF KeymapBytes

LEMMA Layout ==
    /\ \A s \in Sections : Size[s] \in Nat /\ Base[s] \in Nat
    /\ KeymapBytes <= Size["keymap"]
    /\ \A s \in Sections : Cells(s) \subseteq Flash
    /\ \A s, t \in Sections : s # t => Cells(s) \cap Cells(t) = {}
<1>1. /\ Size["keymap"] \in Nat /\ Size["macro"] \in Nat /\ Size["config"] \in Nat
      /\ KeymapBytes <= Size["keymap"]
  BY WordsEnough, RowSizes, StorageAssumption DEF Size, StorageAssumption
<1>2. /\ Base["keymap"] = 0 /\ Base["macro"] = Size["keymap"]
      /\ Base["config"] = Size["keymap"] + Size["macro"]
  BY DEF Base
<1>3. Flash = 0 .. Size["keymap"] + Size["macro"] + Size["config"] - 1
  BY DEF Flash
<1>4. \A s \in Sections : Size[s] \in Nat /\ Base[s] \in Nat
  BY <1>1, <1>2 DEF Sections
<1>5. \A s \in Sections : Cells(s) \subseteq Flash
  BY <1>1, <1>2, <1>3 DEF Sections, Cells
<1>6. \A s, t \in Sections : s # t => Cells(s) \cap Cells(t) = {}
  BY <1>1, <1>2 DEF Sections, Cells
<1> QED  BY <1>1, <1>4, <1>5, <1>6

(* A place of a matrix of a times b lies in it.                            *)
LEMMA Inside ==
    ASSUME NEW a \in Nat, NEW b \in Nat, NEW i \in 0 .. a - 1, NEW j \in 0 .. b - 1
    PROVE  i * b + j \in 0 .. a * b - 1
<1>1. (i + 1) * b <= a * b
  BY SMT
<1>2. (i + 1) * b = i * b + b
  BY SMT
<1>3. i * b \in Nat /\ a * b \in Nat
  BY SMT
<1> QED  BY <1>1, <1>2, <1>3, SMT

LEMMA KeyPlaces ==
    ASSUME NEW k \in KeyPositions
    PROVE  Index(k) \in Places("keymap") /\ Index(k) + 1 \in Places("keymap")
<1>1. k.layer \in 0 .. Layers - 1 /\ k.row \in 0 .. Rows - 1 /\ k.col \in 0 .. Cols - 1
  BY Zenon DEF KeyPositions
<1> DEFINE inRow == k.col * 2
           inLayer == k.row * KEYMAP_ROW_SIZE + inRow
<1>2. inRow \in 0 .. KEYMAP_ROW_SIZE - 1 /\ inRow + 1 \in 0 .. KEYMAP_ROW_SIZE - 1
  BY <1>1, RowSizes, SMT DEF KEYMAP_ROW_SIZE
<1>3. /\ inLayer \in 0 .. KEYMAP_LAYER_SIZE - 1
      /\ k.row * KEYMAP_ROW_SIZE + (inRow + 1) \in 0 .. KEYMAP_LAYER_SIZE - 1
  <2> HIDE DEF inRow
  <2> QED  BY <1>1, <1>2, RowSizes, Inside DEF KEYMAP_LAYER_SIZE
<1>4. k.row * KEYMAP_ROW_SIZE \in Nat
  BY <1>1, RowSizes, ProductNat, SMT
<1>5. inLayer + 1 \in 0 .. KEYMAP_LAYER_SIZE - 1
  <2> HIDE DEF inRow
  <2> QED  BY <1>2, <1>3, <1>4, SMT
<1>6. /\ k.layer * KEYMAP_LAYER_SIZE + inLayer \in 0 .. Layers * KEYMAP_LAYER_SIZE - 1
      /\ k.layer * KEYMAP_LAYER_SIZE + (inLayer + 1) \in 0 .. Layers * KEYMAP_LAYER_SIZE - 1
  <2> HIDE DEF inLayer
  <2> QED  BY <1>1, <1>3, <1>5, RowSizes, Inside
<1>7. KeymapBytes = Layers * KEYMAP_LAYER_SIZE
  BY RowSizes, SMT DEF KeymapBytes
<1>8. k.layer * KEYMAP_LAYER_SIZE \in Nat
  BY <1>1, RowSizes, ProductNat, SMT
<1>9. Index(k) = k.layer * KEYMAP_LAYER_SIZE + inLayer
  <2>1. inRow \in Nat
    BY <1>1, SMT
  <2> HIDE DEF inRow
  <2>2. Index(k) = k.layer * KEYMAP_LAYER_SIZE + k.row * KEYMAP_ROW_SIZE + inRow
    BY DEF Index, inRow
  <2> QED  BY <2>1, <2>2, <1>4, <1>8, SMT
<1> HIDE DEF inLayer
<1> QED
  BY <1>5, <1>3, <1>6, <1>7, <1>8, <1>9, Layout, RowSizes, SMT DEF Places, Sections

-----------------------------------------------------------------------------
(* The invariant                                                           *)

LookupOK ==
    lookup # NoLookup =>
        /\ lookup.pc \in {"flag", "low", "high", "done"}
        /\ lookup.key \in KeyPositions

(* The code the key of the lookup has in the block now.                    *)
CodeNow == Code(ram["keymap"][Index(lookup.key)], ram["keymap"][Index(lookup.key) + 1])

(* Unless the key was written, the bytes read so far still belong to it.   *)
Honest ==
    lookup # NoLookup /\ ~rewritten =>
        /\ lookup.pc = "flag" => Action(ram["keymap"], lookup.key) \in seen
        /\ lookup.pc \in {"low", "high"} => CodeNow \in seen
        /\ lookup.pc = "high" => lookup.low = ram["keymap"][Index(lookup.key)]
        /\ lookup.pc = "done" => lookup.code \in seen

Valid == keymap_valid = HasCode(ram["keymap"])

LInv == TypeOK /\ Valid /\ LookupOK /\ Honest

Inv == LInv /\ SetAsMeant

-----------------------------------------------------------------------------
(* What a write to memory does                                             *)

LEMMA FieldNames == ram.keymap = ram["keymap"] /\ ram'.keymap = ram'["keymap"]
OBVIOUS

LEMMA Write ==
    ASSUME TypeOK,
           NEW s \in Sections, NEW offset \in Nat, NEW data \in Seq(Bytes),
           storage_write_data(s, offset, data)
    PROVE  /\ DOMAIN ram' = Sections
           /\ \A t \in Sections : ram'[t] \in Blocks(t)
           /\ \A t \in Sections \ {s} : ram'[t] = ram[t]
           /\ \A i \in Places(s) :
                 ram'[s][i] = IF i - offset \in 0 .. Len(data) - 1
                              THEN data[i - offset + 1] ELSE ram[s][i]
           /\ keymap_valid' = IF s = "keymap" THEN HasCode(ram'[s]) ELSE keymap_valid
           /\ s # "keymap" => UNCHANGED histories
           /\ \E places :
                 /\ \A i \in Places(s) \ places : ram'[s][i] = ram[s][i]
                 /\ s = "keymap" => Watch(ram'[s], places)
<1> DEFINE len == IF Size[s] < Len(data) + offset THEN Size[s] - offset ELSE Len(data)
           places == offset .. offset + len - 1
           block == [i \in Places(s) \cup places |->
                        IF i \in places THEN data[i - offset + 1] ELSE ram[s][i]]
<1>1. /\ ram' = [ram EXCEPT ![s] = block]
      /\ keymap_valid' = IF s = "keymap" THEN HasCode(block) ELSE keymap_valid
      /\ IF s = "keymap" THEN Watch(block, places) ELSE UNCHANGED histories
  BY Zenon DEF storage_write_data
<1>2. DOMAIN ram = Sections /\ \A t \in Sections : ram[t] \in Blocks(t)
  BY DEF TypeOK
<1>3. Size[s] \in Nat /\ Len(data) \in Nat
  BY Layout
<1>4. \A i \in Places(s) : i \in places <=> i - offset \in 0 .. Len(data) - 1
  BY <1>3, SMT DEF Places
<1>5. block \in Blocks(s)
  <2>0. places \subseteq Places(s)
    BY <1>3, SMT DEF Places
  <2>1. ASSUME NEW i \in Places(s) PROVE block[i] \in Bytes
    <3>1. ram[s][i] \in Bytes
      BY <1>2, Zenon DEF Blocks
    <3>2. i \in places => data[i - offset + 1] \in Bytes
      BY <1>3, <1>4, SMT DEF Places
    <3> QED  BY <3>1, <3>2
  <2> HIDE DEF places
  <2>2. Places(s) \cup places = Places(s)
    BY <2>0
  <2> QED  BY <2>1, <2>2, Zenon DEF Blocks
<1>6. \A i \in Places(s) :
         block[i] = IF i - offset \in 0 .. Len(data) - 1
                    THEN data[i - offset + 1] ELSE ram[s][i]
  <2> HIDE DEF places
  <2> QED  BY <1>4
<1>7. \A i \in Places(s) \ places : block[i] = ram[s][i]
  <2> HIDE DEF places
  <2> QED  OBVIOUS
<1>8. ram'[s] = block /\ DOMAIN ram' = Sections /\ \A t \in Sections \ {s} : ram'[t] = ram[t]
  <2> HIDE DEF block
  <2> QED  BY <1>1, <1>2
<1> HIDE DEF block, places
<1> QED  BY <1>1, <1>2, <1>5, <1>6, <1>7, <1>8, Zenon

LEMMA HasCodeBoolean == \A block : HasCode(block) \in BOOLEAN
BY Zenon DEF HasCode

(* A write to the keymap leaves a lookup honest.                           *)
LEMMA WriteHonest ==
    ASSUME LInv, NEW offset \in Nat, NEW data \in Seq(Bytes),
           storage_write_data("keymap", offset, data), lookup' = lookup
    PROVE  Valid' /\ LookupOK' /\ Honest'
<1>1. TypeOK /\ "keymap" \in Sections
  BY DEF LInv, Sections
<1>2. keymap_valid' = HasCode(ram'["keymap"])
  BY <1>1, Write
<1>3. PICK places : /\ \A i \in Places("keymap") \ places : ram'["keymap"][i] = ram["keymap"][i]
                    /\ Watch(ram'["keymap"], places)
  BY <1>1, Write
<1>4. LookupOK'
  BY DEF LInv, LookupOK, NoLookup
<1>5. Honest'
  <2>1. SUFFICES ASSUME lookup # NoLookup, ~rewritten' PROVE Honest'
    BY DEF Honest
  <2>2. /\ lookup.key \in KeyPositions
        /\ Index(lookup.key) \in Places("keymap") /\ Index(lookup.key) + 1 \in Places("keymap")
    BY <2>1, KeyPlaces DEF LInv, LookupOK
  <2>3. /\ ~rewritten
        /\ Index(lookup.key) \notin places /\ Index(lookup.key) + 1 \notin places
        /\ seen' = seen \cup {Action(ram'["keymap"], lookup.key)}
    BY <1>3, <2>1, Zenon DEF Watch
  <2>4. /\ ram'["keymap"][Index(lookup.key)] = ram["keymap"][Index(lookup.key)]
        /\ ram'["keymap"][Index(lookup.key) + 1] = ram["keymap"][Index(lookup.key) + 1]
    BY <1>3, <2>2, <2>3, Zenon
  <2>5. CodeNow' = CodeNow
    BY <2>4, Zenon DEF CodeNow
  <2> QED  BY <2>1, <2>3, <2>4, <2>5, Zenon DEF LInv, Honest
<1> QED  BY <1>2, <1>4, <1>5 DEF Valid

(* A write to another block does not touch it.                             *)
LEMMA OtherHonest ==
    ASSUME LInv, ram'["keymap"] = ram["keymap"],
           UNCHANGED <<keymap_valid, lookup, rewritten, seen>>
    PROVE  Valid' /\ LookupOK' /\ Honest'
BY Zenon DEF LInv, Valid, LookupOK, Honest, CodeNow

(* The types of what is not written.                                       *)
LEMMA WriteTypes ==
    ASSUME TypeOK, DOMAIN ram' = Sections, \A t \in Sections : ram'[t] \in Blocks(t),
           keymap_valid' \in BOOLEAN, meant' \in [Places("keymap") -> Bytes \cup {Unknown}],
           UNCHANGED <<flash, save, lookup, saved>>
    PROVE  TypeOK'
BY Zenon DEF TypeOK, Blocks

-----------------------------------------------------------------------------
(* The commands                                                            *)

LEMMA SingleKeyStep ==
    ASSUME Inv, NEW k \in KeyPositions, NEW code \in Bytes \X Bytes, set_single_key(k, code)
    PROVE  Inv'
<1>1. /\ Index(k) \in Places("keymap") /\ Index(k) + 1 \in Places("keymap")
      /\ Index(k) \in Nat /\ "keymap" \in Sections
  BY KeyPlaces, Layout DEF Places, Sections
<1>2. code \in Seq(Bytes) /\ Len(code) = 2 /\ code[1] \in Bytes /\ code[2] \in Bytes
  <2>1. PICK low \in Bytes, high \in Bytes : code = <<low, high>>
    BY SMT
  <2> QED  BY <2>1, SMT
<1>3. /\ storage_write_data("keymap", Index(k), code) /\ TypeOK /\ LInv
      /\ UNCHANGED <<flash, save, lookup, saved>>
  BY DEF set_single_key, Inv, LInv
<1>4. /\ DOMAIN ram' = Sections /\ \A t \in Sections : ram'[t] \in Blocks(t)
      /\ \A i \in Places("keymap") :
            ram'["keymap"][i] = IF i - Index(k) \in 0 .. Len(code) - 1
                                THEN code[i - Index(k) + 1] ELSE ram["keymap"][i]
      /\ keymap_valid' = HasCode(ram'["keymap"])
  BY <1>1, <1>2, <1>3, Write
<1>5. /\ meant \in [Places("keymap") -> Bytes \cup {Unknown}]
      /\ meant' = [meant EXCEPT ![Index(k)] = code[1], ![Index(k) + 1] = code[2]]
  BY <1>3 DEF TypeOK, set_single_key
<1>6. meant' \in [Places("keymap") -> Bytes \cup {Unknown}]
  BY <1>1, <1>2, <1>5
<1>7. TypeOK'
  BY <1>3, <1>4, <1>6, HasCodeBoolean, WriteTypes
<1>8. Valid' /\ LookupOK' /\ Honest'
  BY <1>1, <1>2, <1>3, WriteHonest DEF set_single_key
<1>9. SetAsMeant'
  <2>1. SUFFICES ASSUME NEW i \in Places("keymap"), meant'[i] # Unknown
                 PROVE  ram'["keymap"][i] = meant'[i]
    BY DEF SetAsMeant
  <2>0. meant'[Index(k)] = code[1] /\ meant'[Index(k) + 1] = code[2]
    <3>1. Index(k) # Index(k) + 1
      BY <1>1, SMT
    <3> QED  BY <1>1, <1>5, <3>1, Zenon
  <2>2. CASE i = Index(k)
    <3>1. i - Index(k) \in 0 .. Len(code) - 1 /\ i - Index(k) + 1 = 1
      BY <1>1, <1>2, <2>2, SMT
    <3> QED  BY <1>4, <2>0, <2>2, <3>1, Zenon
  <2>3. CASE i = Index(k) + 1
    <3>1. i - Index(k) \in 0 .. Len(code) - 1 /\ i - Index(k) + 1 = 2
      BY <1>1, <1>2, <2>3, SMT
    <3> QED  BY <1>4, <2>0, <2>3, <3>1, Zenon
  <2>4. CASE i # Index(k) /\ i # Index(k) + 1
    <3>1. meant'[i] = meant[i]
      BY <1>5, <2>4
    <3>2. i - Index(k) \notin 0 .. Len(code) - 1
      BY <1>1, <1>2, <2>4, SMT DEF Places
    <3> QED  BY <1>4, <2>1, <3>1, <3>2 DEF Inv, SetAsMeant
  <2> QED  BY <2>2, <2>3, <2>4
<1> QED  BY <1>7, <1>8, <1>9 DEF Inv, LInv

LEMMA AllKeysStep ==
    ASSUME Inv, NEW id \in Nat, NEW data \in Seq(Bytes), NEW junk \in Bytes,
           set_all_keys(id, data, junk)
    PROVE  Inv'
<1> DEFINE place == id * Packet
           all == data \o <<junk>>
<1>1. place \in Nat /\ "keymap" \in Sections
  BY ProductNat, StorageAssumption DEF StorageAssumption, Sections
<1>2. /\ all \in Seq(Bytes) /\ Len(all) = Len(data) + 1 /\ Len(data) \in Nat
      /\ \A j \in 1 .. Len(data) : all[j] = data[j]
  BY SMT
<1>3. /\ storage_write_data("keymap", place, all) /\ TypeOK /\ LInv
      /\ UNCHANGED <<flash, save, lookup, saved>> /\ meant' = Sent(id, data)
  BY DEF set_all_keys, Inv, LInv
<1> HIDE DEF all
<1>4. /\ DOMAIN ram' = Sections /\ \A t \in Sections : ram'[t] \in Blocks(t)
      /\ \A i \in Places("keymap") :
            ram'["keymap"][i] = IF i - place \in 0 .. Len(all) - 1
                                THEN all[i - place + 1] ELSE ram["keymap"][i]
      /\ keymap_valid' = HasCode(ram'["keymap"])
  BY <1>1, <1>2, <1>3, Write
<1>5. /\ meant \in [Places("keymap") -> Bytes \cup {Unknown}]
      /\ meant' = [i \in Places("keymap") |->
                      IF i - place \in 0 .. Len(data) - 1 THEN data[i - place + 1]
                      ELSE IF i = place + Len(data) THEN Unknown ELSE meant[i]]
  BY <1>3 DEF TypeOK, Sent
<1> HIDE DEF place
<1>6. meant' \in [Places("keymap") -> Bytes \cup {Unknown}]
  <2>1. ASSUME NEW i \in Places("keymap"), i - place \in 0 .. Len(data) - 1
        PROVE  data[i - place + 1] \in Bytes
    BY <1>1, <1>2, <2>1, SMT DEF Places
  <2> QED  BY <1>5, <2>1, Zenon
<1>7. TypeOK'
  BY <1>3, <1>4, <1>6, HasCodeBoolean, WriteTypes
<1>8. Valid' /\ LookupOK' /\ Honest'
  BY <1>1, <1>2, <1>3, WriteHonest
<1>9. SetAsMeant'
  <2>1. SUFFICES ASSUME NEW i \in Places("keymap"), meant'[i] # Unknown
                 PROVE  ram'["keymap"][i] = meant'[i]
    BY DEF SetAsMeant
  <2>2. i \in Int
    BY SMT DEF Places
  <2>3. CASE i - place \in 0 .. Len(data) - 1
    <3>1. i - place \in 0 .. Len(all) - 1 /\ i - place + 1 \in 1 .. Len(data)
      BY <1>1, <1>2, <2>2, <2>3, SMT
    <3> QED  BY <1>2, <1>4, <1>5, <2>3, <3>1, Zenon
  <2>4. CASE i - place \notin 0 .. Len(data) - 1
    <3>1. meant'[i] = meant[i] /\ i # place + Len(data)
      BY <1>5, <2>1, <2>4, Zenon
    <3>2. i - place \notin 0 .. Len(all) - 1
      BY <1>1, <1>2, <2>2, <2>4, <3>1, SMT
    <3> QED  BY <1>4, <2>1, <3>1, <3>2 DEF Inv, SetAsMeant
  <2> QED  BY <2>3, <2>4
<1> QED  BY <1>7, <1>8, <1>9 DEF Inv, LInv

LEMMA MacroStep ==
    ASSUME Inv, NEW id \in Nat, NEW data \in Seq(Bytes), set_all_macro(id, data)
    PROVE  Inv'
<1>1. id * Packet \in Nat /\ "macro" \in Sections /\ "keymap" \in Sections \ {"macro"}
  BY ProductNat, StorageAssumption DEF StorageAssumption, Sections
<1>2. /\ storage_write_data("macro", id * Packet, data) /\ TypeOK /\ LInv
      /\ UNCHANGED <<flash, save, lookup, saved, meant>>
  BY DEF set_all_macro, Inv, LInv
<1>3. /\ DOMAIN ram' = Sections /\ \A t \in Sections : ram'[t] \in Blocks(t)
      /\ ram'["keymap"] = ram["keymap"]
      /\ keymap_valid' = keymap_valid /\ UNCHANGED histories
  BY <1>1, <1>2, Write
<1>4. TypeOK'
  BY <1>2, <1>3, WriteTypes DEF TypeOK
<1>5. Valid' /\ LookupOK' /\ Honest'
  BY <1>2, <1>3, OtherHonest DEF histories
<1>6. SetAsMeant'
  BY <1>2, <1>3 DEF Inv, SetAsMeant
<1> QED  BY <1>4, <1>5, <1>6 DEF Inv, LInv

LEMMA SaveStep ==
    ASSUME Inv, NEW mask \in SUBSET Sections, write_data(mask)
    PROVE  Inv'
<1>1. TypeOK'
  BY Zenon DEF Inv, LInv, TypeOK, write_data, Blocks
<1>2. Valid' /\ LookupOK' /\ Honest'
  BY OtherHonest DEF Inv, write_data, histories
<1>3. SetAsMeant'
  BY DEF Inv, SetAsMeant, write_data
<1> QED  BY <1>1, <1>2, <1>3 DEF Inv, LInv

-----------------------------------------------------------------------------
(* Saving                                                                  *)

LEMMA DueLeft ==
    ASSUME TypeOK, save.left # {}
    PROVE  Due \in save.left /\ Due \in Sections
BY DEF TypeOK, Due, Sections

LEMMA FlashTypes ==
    ASSUME TypeOK, NEW s \in Sections, NEW n \in Nat
    PROVE  /\ ErasedUpTo(s, n) \in [Flash -> Bytes]
           /\ WrittenUpTo(s, n) \in [Flash -> Bytes]
<1>1. Erased \in Bytes /\ \A a \in Flash : flash[a] \in Bytes
  BY StorageAssumption DEF StorageAssumption, TypeOK
<1>2. \A a \in Cells(s) : ram[s][a - Base[s]] \in Bytes
  <2>1. ASSUME NEW a \in Cells(s) PROVE a - Base[s] \in Places(s)
    BY Layout, SMT DEF Cells, Places
  <2>2. ram[s] \in Blocks(s)
    BY DEF TypeOK
  <2> QED  BY <2>1, <2>2, Zenon DEF Blocks
<1>3. ErasedUpTo(s, n) \in [Flash -> Bytes]
  BY <1>1, Zenon DEF ErasedUpTo
<1>4. WrittenUpTo(s, n) \in [Flash -> Bytes]
  BY <1>1, <1>2, Zenon DEF WrittenUpTo
<1> QED  BY <1>3, <1>4

LEMMA LoadedTypes ==
    ASSUME NEW f \in [Flash -> Bytes]
    PROVE  DOMAIN Loaded(f) = Sections /\ \A s \in Sections : Loaded(f)[s] \in Blocks(s)
<1>1. ASSUME NEW s \in Sections, NEW i \in Places(s) PROVE Base[s] + i \in Flash
  <2>1. Base[s] + i \in Cells(s)
    BY Layout, SMT DEF Cells, Places
  <2> QED  BY <2>1, Layout
<1>2. \A s \in Sections : FlashOf(f, s) \in Blocks(s)
  BY <1>1, Zenon DEF FlashOf, Blocks
<1> QED  BY <1>2, Zenon DEF Loaded

LEMMA EraseStep ==
    ASSUME Inv, EraseSection
    PROVE  Inv'
<1>1. TypeOK /\ Due \in Sections /\ Size[Due] \in Nat
  BY DueLeft, Layout DEF Inv, LInv, EraseSection
<1>2. flash' = ErasedUpTo(Due, Size[Due]) /\ saved' = [saved EXCEPT ![Due] = Torn]
  BY Zenon DEF EraseSection
<1>3. flash' \in [Flash -> Bytes]
  BY <1>1, <1>2, FlashTypes
<1>4. DOMAIN saved' = Sections /\ \A s \in Sections : saved'[s] \in Blocks(s) \cup {Torn}
  BY <1>1, <1>2, Zenon DEF TypeOK
<1>5. save' \in [left : SUBSET Sections, erased : BOOLEAN, mask : SUBSET Sections]
  <2>1. /\ save' = [save EXCEPT !.erased = TRUE]
        /\ save \in [left : SUBSET Sections, erased : BOOLEAN, mask : SUBSET Sections]
    BY DEF EraseSection, Inv, LInv, TypeOK
  <2> QED  BY <2>1, Zenon
<1>6. UNCHANGED <<ram, keymap_valid, lookup, rewritten, seen, meant>>
  BY Zenon DEF EraseSection, histories
<1>7. TypeOK'
  BY <1>1, <1>3, <1>4, <1>5, <1>6, Zenon DEF TypeOK, Blocks
<1>8. Valid' /\ LookupOK' /\ Honest'
  BY <1>6, OtherHonest DEF Inv
<1> QED  BY <1>6, <1>7, <1>8 DEF Inv, LInv, SetAsMeant

LEMMA WriteStep ==
    ASSUME Inv, WriteSection
    PROVE  Inv'
<1>1. TypeOK /\ Due \in Sections /\ Size[Due] \in Nat
  BY DueLeft, Layout DEF Inv, LInv, WriteSection
<1>2. flash' = WrittenUpTo(Due, Size[Due]) /\ saved' = [saved EXCEPT ![Due] = ram[Due]]
  BY Zenon DEF WriteSection
<1>3. flash' \in [Flash -> Bytes]
  BY <1>1, <1>2, FlashTypes
<1>4. DOMAIN saved' = Sections /\ \A s \in Sections : saved'[s] \in Blocks(s) \cup {Torn}
  BY <1>1, <1>2, Zenon DEF TypeOK
<1>5. save' \in [left : SUBSET Sections, erased : BOOLEAN, mask : SUBSET Sections]
  <2>1. /\ save' = [save EXCEPT !.left = save.left \ {Due}, !.erased = FALSE]
        /\ save \in [left : SUBSET Sections, erased : BOOLEAN, mask : SUBSET Sections]
    BY DEF WriteSection, Inv, LInv, TypeOK
  <2> QED  BY <2>1, Zenon
<1>6. UNCHANGED <<ram, keymap_valid, lookup, rewritten, seen, meant>>
  BY Zenon DEF WriteSection, histories
<1>7. TypeOK'
  BY <1>1, <1>3, <1>4, <1>5, <1>6, Zenon DEF TypeOK, Blocks
<1>8. Valid' /\ LookupOK' /\ Honest'
  BY <1>6, OtherHonest DEF Inv
<1> QED  BY <1>6, <1>7, <1>8 DEF Inv, LInv, SetAsMeant

LEMMA EndSaveStep ==
    ASSUME Inv, EndSave
    PROVE  Inv'
<1>1. TypeOK'
  BY Zenon DEF Inv, LInv, TypeOK, EndSave, NotSaving, Blocks
<1>2. Valid' /\ LookupOK' /\ Honest'
  BY OtherHonest DEF Inv, EndSave, histories
<1> QED  BY <1>1, <1>2 DEF Inv, LInv, SetAsMeant, EndSave

(* After the power has failed, everything is read from the flash again.    *)
LEMMA PowerStep ==
    ASSUME Inv, NEW n \in Nat, PowerCycle(n)
    PROVE  Inv'
<1>1. TypeOK
  BY DEF Inv, LInv
<1>2. /\ flash' = IF save.left = {} THEN flash
                  ELSE IF save.erased THEN WrittenUpTo(Due, n) ELSE ErasedUpTo(Due, n)
      /\ saved' = IF save.left = {} THEN saved ELSE [saved EXCEPT ![Due] = Torn]
      /\ ram' = Loaded(flash') /\ keymap_valid' = HasCode(ram'["keymap"])
      /\ save' = NotSaving /\ lookup' = NoLookup /\ meant' = ram'["keymap"]
  BY Zenon, FieldNames DEF PowerCycle
<1>3. flash' \in [Flash -> Bytes]
  BY <1>1, <1>2, DueLeft, FlashTypes DEF TypeOK
<1>4. DOMAIN saved' = Sections /\ \A s \in Sections : saved'[s] \in Blocks(s) \cup {Torn}
  BY <1>1, <1>2, Zenon DEF TypeOK
<1>5. DOMAIN ram' = Sections /\ \A s \in Sections : ram'[s] \in Blocks(s)
  BY <1>2, <1>3, LoadedTypes
<1>6. meant' \in [Places("keymap") -> Bytes \cup {Unknown}]
  <2>1. ram'["keymap"] \in Blocks("keymap")
    BY <1>5 DEF Sections
  <2> QED  BY <1>2, <2>1, Zenon DEF Blocks
<1>7. save' \in [left : SUBSET Sections, erased : BOOLEAN, mask : SUBSET Sections]
  BY <1>2, Zenon DEF NotSaving
<1>8. lookup'.pc \in {"idle", "flag", "low", "high", "done"}
  BY <1>2, Zenon DEF NoLookup
<1>9. keymap_valid' \in BOOLEAN
  BY <1>2, HasCodeBoolean
<1>10. TypeOK'
  BY <1>3, <1>4, <1>5, <1>6, <1>7, <1>8, <1>9, Zenon DEF TypeOK, Blocks
<1>11. Valid' /\ LookupOK' /\ Honest' /\ SetAsMeant'
  BY <1>2, Zenon DEF Valid, LookupOK, Honest, SetAsMeant, NoLookup
<1> QED  BY <1>10, <1>11 DEF Inv, LInv

-----------------------------------------------------------------------------
(* The lookup                                                              *)

LEMMA LookupTypes ==
    ASSUME Inv, lookup'.pc \in {"idle", "flag", "low", "high", "done"},
           UNCHANGED <<ram, keymap_valid, flash, save, saved, meant>>
    PROVE  TypeOK' /\ Valid' /\ SetAsMeant'
<1>1. TypeOK'
  BY Zenon DEF Inv, LInv, TypeOK, Blocks
<1> QED  BY <1>1 DEF Inv, LInv, Valid, SetAsMeant

LEMMA LookupStep ==
    ASSUME Inv, NEW k \in LookedUp, Lookup(k)
    PROVE  Inv'
<1>1. /\ k \in KeyPositions /\ lookup' = [pc |-> "flag", key |-> k]
      /\ seen' = {Action(ram'["keymap"], k)}
      /\ UNCHANGED <<ram, keymap_valid, flash, save, saved, meant>>
  BY LookedUpAssumption, FieldNames DEF Lookup, LookedUpAssumption
<1>2. lookup'.pc = "flag" /\ lookup'.key = k
  BY <1>1
<1>3. TypeOK' /\ Valid' /\ SetAsMeant'
  BY <1>1, <1>2, LookupTypes
<1>4. LookupOK' /\ Honest'
  BY <1>1, <1>2, Zenon DEF LookupOK, Honest
<1> QED  BY <1>3, <1>4 DEF Inv, LInv

(* The action of a key is the code in the block if the keymap is valid.    *)
LEMMA ActionNow ==
    ASSUME Valid
    PROVE  Action(ram["keymap"], lookup.key) =
              IF keymap_valid THEN CodeNow ELSE BuiltIn(lookup.key)
BY Zenon DEF Valid, Action, CodeNow

LEMMA ReadFlagStep ==
    ASSUME Inv, ReadFlag
    PROVE  Inv'
<1>1. /\ lookup # NoLookup /\ lookup.pc = "flag" /\ lookup.key \in KeyPositions
      /\ ~rewritten => Action(ram["keymap"], lookup.key) \in seen
  BY DEF Inv, LInv, LookupOK, Honest, ReadFlag, NoLookup
<1>2. UNCHANGED <<ram, keymap_valid, flash, save, rewritten, seen, saved, meant>>
  BY DEF ReadFlag, Reads, histories
<1>3. CASE keymap_valid
  <2>1. lookup' = [pc |-> "low", key |-> lookup.key]
    BY <1>3 DEF ReadFlag, Reads
  <2>2. lookup'.pc = "low" /\ lookup'.key = lookup.key
    BY <2>1
  <2>3. CodeNow' = CodeNow
    BY <1>2, <2>2, Zenon DEF CodeNow
  <2>4. ~rewritten => CodeNow \in seen
    BY <1>1, <1>3, ActionNow DEF Inv, LInv
  <2>5. LookupOK' /\ Honest'
    BY <1>1, <1>2, <2>2, <2>3, <2>4 DEF LookupOK, Honest
  <2> QED  BY <1>2, <2>2, <2>5, LookupTypes DEF Inv, LInv
<1>4. CASE ~keymap_valid
  <2>1. lookup' = [pc |-> "done", key |-> lookup.key, code |-> BuiltIn(lookup.key)]
    BY <1>4 DEF ReadFlag, Reads
  <2>2. lookup'.pc = "done" /\ lookup'.key = lookup.key /\ lookup'.code = BuiltIn(lookup.key)
    BY <2>1
  <2>3. ~rewritten => BuiltIn(lookup.key) \in seen
    BY <1>1, <1>4, ActionNow DEF Inv, LInv
  <2>4. LookupOK' /\ Honest'
    BY <1>1, <1>2, <2>2, <2>3 DEF LookupOK, Honest
  <2> QED  BY <1>2, <2>2, <2>4, LookupTypes DEF Inv, LInv
<1> QED  BY <1>3, <1>4

LEMMA ReadLowStep ==
    ASSUME Inv, ReadLow
    PROVE  Inv'
<1>1. /\ lookup # NoLookup /\ lookup.pc = "low" /\ lookup.key \in KeyPositions
      /\ ~rewritten => CodeNow \in seen
  BY DEF Inv, LInv, LookupOK, Honest, ReadLow, NoLookup
<1>2. UNCHANGED <<ram, keymap_valid, flash, save, rewritten, seen, saved, meant>>
  BY DEF ReadLow, Reads, histories
<1>3. lookup' = [pc |-> "high", key |-> lookup.key,
                 low |-> ram["keymap"][Index(lookup.key)]]
  BY FieldNames DEF ReadLow, Reads
<1>4. /\ lookup'.pc = "high" /\ lookup'.key = lookup.key
      /\ lookup'.low = ram["keymap"][Index(lookup.key)]
  BY <1>3
<1>5. CodeNow' = CodeNow
  BY <1>2, <1>4, Zenon DEF CodeNow
<1>6. LookupOK' /\ Honest'
  BY <1>1, <1>2, <1>4, <1>5 DEF LookupOK, Honest
<1> QED  BY <1>2, <1>4, <1>6, LookupTypes DEF Inv, LInv

LEMMA ReadHighStep ==
    ASSUME Inv, ReadHigh
    PROVE  Inv'
<1>1. /\ lookup # NoLookup /\ lookup.pc = "high" /\ lookup.key \in KeyPositions
      /\ ~rewritten => /\ CodeNow \in seen
                       /\ lookup.low = ram["keymap"][Index(lookup.key)]
  BY DEF Inv, LInv, LookupOK, Honest, ReadHigh, NoLookup
<1>2. UNCHANGED <<ram, keymap_valid, flash, save, rewritten, seen, saved, meant>>
  BY DEF ReadHigh, Reads, histories
<1>3. lookup' = [pc |-> "done", key |-> lookup.key,
                 code |-> Code(lookup.low, ram["keymap"][Index(lookup.key) + 1])]
  BY FieldNames DEF ReadHigh, Reads
<1>4. /\ lookup'.pc = "done" /\ lookup'.key = lookup.key
      /\ lookup'.code = Code(lookup.low, ram["keymap"][Index(lookup.key) + 1])
  BY <1>3
<1>5. ~rewritten => lookup'.code \in seen
  BY <1>1, <1>4, Zenon DEF CodeNow
<1>6. LookupOK' /\ Honest'
  BY <1>1, <1>2, <1>4, <1>5 DEF LookupOK, Honest
<1> QED  BY <1>2, <1>4, <1>6, LookupTypes DEF Inv, LInv

LEMMA ReturnStep ==
    ASSUME Inv, Return
    PROVE  Inv'
<1>1. lookup' = NoLookup /\ UNCHANGED <<ram, keymap_valid, flash, save, saved, meant>>
  BY DEF Return
<1>2. lookup'.pc = "idle"
  BY <1>1 DEF NoLookup
<1>3. TypeOK' /\ Valid' /\ SetAsMeant'
  BY <1>1, <1>2, LookupTypes
<1>4. LookupOK' /\ Honest'
  BY <1>1, Zenon DEF LookupOK, Honest, NoLookup
<1> QED  BY <1>3, <1>4 DEF Inv, LInv

-----------------------------------------------------------------------------
(* The invariant holds                                                     *)

LEMMA InvInit == Init => Inv
<1> SUFFICES ASSUME Init PROVE Inv
  OBVIOUS
<1>1. flash \in [Flash -> Bytes] /\ ram = Loaded(flash) /\ saved = Loaded(flash)
  BY StorageAssumption DEF Init, StorageAssumption
<1>2. /\ DOMAIN ram = Sections /\ DOMAIN saved = Sections
      /\ \A s \in Sections : ram[s] \in Blocks(s) /\ saved[s] \in Blocks(s) \cup {Torn}
  BY <1>1, LoadedTypes, Zenon
<1>3. meant = ram["keymap"] /\ keymap_valid = HasCode(ram["keymap"])
  BY FieldNames DEF Init
<1>4. meant \in [Places("keymap") -> Bytes \cup {Unknown}]
  <2>1. ram["keymap"] \in Blocks("keymap")
    BY <1>2 DEF Sections
  <2> QED  BY <1>3, <2>1, Zenon DEF Blocks
<1>5. save \in [left : SUBSET Sections, erased : BOOLEAN, mask : SUBSET Sections]
  BY Zenon DEF Init, NotSaving
<1>6. lookup = NoLookup /\ lookup.pc = "idle"
  BY DEF Init, NoLookup
<1>7. TypeOK
  BY <1>1, <1>2, <1>3, <1>4, <1>5, <1>6, HasCodeBoolean, Zenon DEF TypeOK
<1>8. Valid /\ LookupOK /\ Honest /\ SetAsMeant
  BY <1>3, <1>6, FieldNames DEF Valid, LookupOK, Honest, SetAsMeant
<1> QED  BY <1>7, <1>8 DEF Inv, LInv

(* The packets of Next are sequences of bytes.                             *)
LEMMA DataBytes ==
    ASSUME NEW s \in Sections, NEW id \in Ids(s)
    PROVE  id \in Nat /\ Data(s, id) \subseteq Seq(Bytes)
<1>1. id \in Nat /\ id * Packet \in Nat /\ id * Packet < Size[s]
  BY Layout, ProductNat, StorageAssumption DEF Ids, StorageAssumption
<1>2. Packet \in Nat /\ Size[s] \in Nat
  BY Layout, StorageAssumption DEF StorageAssumption
<1> DEFINE n == IF Size[s] - id * Packet < Packet THEN Size[s] - id * Packet ELSE Packet
<1>3. n \in Nat
  BY <1>1, <1>2, SMT
<1> HIDE DEF n
<1>4. [1 .. n -> Bytes] \subseteq Seq(Bytes)
  BY <1>3, SMT
<1>5. Data(s, id) = [1 .. n -> Bytes]
  BY Zenon DEF Data, n
<1> QED  BY <1>1, <1>4, <1>5

LEMMA InvStep ==
    ASSUME Inv, [Next]_vars
    PROVE  Inv'
<1>1. CASE UNCHANGED vars
  <2>1. UNCHANGED <<ram, keymap_valid, flash, save, lookup, rewritten, seen, saved, meant>>
    BY <1>1 DEF vars
  <2>2. TypeOK' /\ Valid' /\ SetAsMeant'
    BY <2>1, LookupTypes DEF Inv, LInv, TypeOK
  <2>3. LookupOK' /\ Honest'
    BY <2>1, OtherHonest DEF Inv
  <2> QED  BY <2>2, <2>3 DEF Inv, LInv
<1>2. CASE \E k \in KeyPositions, code \in Bytes \X Bytes : set_single_key(k, code)
  BY <1>2, SingleKeyStep
<1>3. CASE \E id \in Ids("keymap"), junk \in Bytes :
              \E data \in Data("keymap", id) : set_all_keys(id, data, junk)
  BY <1>3, DataBytes, AllKeysStep DEF Sections
<1>4. CASE \E id \in Ids("macro") : \E data \in Data("macro", id) : set_all_macro(id, data)
  BY <1>4, DataBytes, MacroStep DEF Sections
<1>5. CASE \E mask \in Masks : write_data(mask)
  BY <1>5, SaveStep, MasksAssumption DEF MasksAssumption
<1>6. CASE \E s \in Sections : \E n \in 0 .. Size[s] : PowerCycle(n)
  BY <1>6, PowerStep, Layout
<1>7. CASE \E k \in LookedUp : Lookup(k)
  BY <1>7, LookupStep
<1> QED
  BY <1>1, <1>2, <1>3, <1>4, <1>5, <1>6, <1>7, EraseStep, WriteStep, EndSaveStep,
     ReadFlagStep, ReadLowStep, ReadHighStep, ReturnStep DEF Next

LEMMA InvAlways == Spec => []Inv
BY InvInit, InvStep, PTL DEF Spec

-----------------------------------------------------------------------------
(* What is saved                                                           *)

(* The flash can be erased for one section alone.                          *)
Apart ==
    \A s, t \in Sections : s # t => EraseRange(s) \cap Cells(t) = {}

(* The sections of the command that are done hold what is in memory.       *)
Saving ==
    /\ \A s \in Sections : saved[s] # Torn => FlashOf(flash, s) = saved[s]
    /\ save.left \subseteq save.mask
    /\ \A s \in save.mask \ save.left : saved[s] = ram[s]

LEMMA FlashCells ==
    ASSUME NEW s \in Sections, NEW f, NEW g,
           \A a \in Cells(s) : f[a] = g[a]
    PROVE  FlashOf(f, s) = FlashOf(g, s)
<1>1. \A i \in Places(s) : Base[s] + i \in Cells(s)
  BY Layout, SMT DEF Places, Cells
<1> QED  BY <1>1, Zenon DEF FlashOf

(* Erasing a section, or writing it, touches no other.                     *)
LEMMA OthersKept ==
    ASSUME Apart, NEW s \in Sections, NEW t \in Sections, s # t, NEW n \in Nat
    PROVE  /\ FlashOf(ErasedUpTo(s, n), t) = FlashOf(flash, t)
           /\ FlashOf(WrittenUpTo(s, n), t) = FlashOf(flash, t)
<1>1. \A a \in Cells(t) : a \in Flash /\ a \notin EraseRange(s) /\ a \notin Cells(s)
  BY Layout DEF Apart
<1>2. \A a \in Cells(t) : ErasedUpTo(s, n)[a] = flash[a] /\ WrittenUpTo(s, n)[a] = flash[a]
  BY <1>1, Zenon DEF ErasedUpTo, WrittenUpTo
<1> QED  BY <1>2, FlashCells

(* A section that is written to its end holds what is in memory.           *)
LEMMA WholeWritten ==
    ASSUME TypeOK, NEW s \in Sections
    PROVE  FlashOf(WrittenUpTo(s, Size[s]), s) = ram[s]
<1>1. ram[s] \in [Places(s) -> Bytes]
  BY DEF TypeOK, Blocks
<1>2. ASSUME NEW i \in Places(s) PROVE FlashOf(WrittenUpTo(s, Size[s]), s)[i] = ram[s][i]
  <2> DEFINE a == Base[s] + i
  <2>1. a \in Cells(s) \cap Flash /\ a < Base[s] + Size[s] /\ a - Base[s] = i
    <3>1. Size[s] \in Nat /\ Base[s] \in Nat /\ i \in 0 .. Size[s] - 1
      BY Layout DEF Places
    <3>2. a \in Cells(s) /\ a < Base[s] + Size[s] /\ a - Base[s] = i
      BY <3>1, SMT DEF Cells
    <3> QED  BY <3>2, Layout, Zenon
  <2>2. FlashOf(WrittenUpTo(s, Size[s]), s)[i] = WrittenUpTo(s, Size[s])[a]
    BY Zenon DEF FlashOf
  <2> HIDE DEF a
  <2>3. WrittenUpTo(s, Size[s])[a] = ram[s][a - Base[s]]
    BY <2>1 DEF WrittenUpTo
  <2> QED  BY <2>1, <2>2, <2>3
<1>3. FlashOf(WrittenUpTo(s, Size[s]), s) = [i \in Places(s) |-> ram[s][i]]
  BY <1>2, Zenon DEF FlashOf
<1> QED  BY <1>1, <1>3, Zenon

LEMMA SavingInit == Init => Saving
<1> SUFFICES ASSUME Init PROVE Saving
  OBVIOUS
<1>1. \A s \in Sections : saved[s] = FlashOf(flash, s)
  BY Zenon DEF Init, Loaded
<1>2. save.left = {} /\ save.mask = {}
  BY DEF Init, NotSaving
<1> QED  BY <1>1, <1>2 DEF Saving

(* Nothing is being saved while a command writes to memory.                *)
LEMMA NotSavingKept ==
    ASSUME Free, Saving, UNCHANGED <<flash, save, saved>>
    PROVE  Saving'
<1>1. save.left = {} /\ save.mask = {}
  BY DEF Free, NotSaving
<1> QED  BY <1>1 DEF Saving, FlashOf

LEMMA SavingStep ==
    ASSUME Apart, TypeOK, Saving, [Next]_vars
    PROVE  Saving'
<1>1. CASE UNCHANGED <<ram, flash, save, saved>>
  BY <1>1 DEF Saving, FlashOf
<1>2. CASE Free /\ UNCHANGED <<flash, save, saved>>
  BY <1>2, NotSavingKept
<1>3. CASE \E mask \in Masks : write_data(mask)
  <2>1. PICK mask \in Masks : write_data(mask)
    BY <1>3
  <2>2. save'.left = mask /\ save'.mask = mask /\ UNCHANGED <<ram, flash, saved>>
    BY <2>1 DEF write_data
  <2> QED  BY <2>2 DEF Saving, FlashOf
<1>4. CASE EraseSection
  <2>1. /\ Due \in save.left /\ Due \in Sections /\ Size[Due] \in Nat
        /\ DOMAIN saved = Sections
        /\ save \in [left : SUBSET Sections, erased : BOOLEAN, mask : SUBSET Sections]
    BY <1>4, DueLeft, Layout DEF EraseSection, TypeOK
  <2>2. /\ flash' = ErasedUpTo(Due, Size[Due]) /\ saved' = [saved EXCEPT ![Due] = Torn]
        /\ save' = [save EXCEPT !.erased = TRUE] /\ ram' = ram
    BY <1>4, Zenon DEF EraseSection
  <2>3. save'.left = save.left /\ save'.mask = save.mask
    BY <2>1, <2>2, Zenon
  <2>4. \A s \in Sections : saved'[s] = IF s = Due THEN Torn ELSE saved[s]
    BY <2>1, <2>2, Zenon
  <2>5. \A s \in Sections \ {Due} : FlashOf(flash', s) = FlashOf(flash, s)
    BY <2>1, <2>2, OthersKept
  <2>6. save.mask \subseteq Sections
    BY <2>1, Zenon
  <2> QED  BY <2>1, <2>2, <2>3, <2>4, <2>5, <2>6, Zenon DEF Saving
<1>5. CASE WriteSection
  <2>1. /\ Due \in save.left /\ Due \in Sections /\ Size[Due] \in Nat
        /\ DOMAIN saved = Sections
        /\ save \in [left : SUBSET Sections, erased : BOOLEAN, mask : SUBSET Sections]
    BY <1>5, DueLeft, Layout DEF WriteSection, TypeOK
  <2>2. /\ flash' = WrittenUpTo(Due, Size[Due]) /\ saved' = [saved EXCEPT ![Due] = ram[Due]]
        /\ save' = [save EXCEPT !.left = save.left \ {Due}, !.erased = FALSE] /\ ram' = ram
    BY <1>5, Zenon DEF WriteSection
  <2>3. save'.left = save.left \ {Due} /\ save'.mask = save.mask
    BY <2>1, <2>2, Zenon
  <2>4. \A s \in Sections : saved'[s] = IF s = Due THEN ram[Due] ELSE saved[s]
    BY <2>1, <2>2, Zenon
  <2>5. \A s \in Sections \ {Due} : FlashOf(flash', s) = FlashOf(flash, s)
    BY <2>1, <2>2, OthersKept
  <2>6. FlashOf(flash', Due) = ram[Due]
    BY <2>1, <2>2, WholeWritten
  <2>7. save.mask \subseteq Sections
    BY <2>1, Zenon
  <2> QED  BY <2>1, <2>2, <2>3, <2>4, <2>5, <2>6, <2>7, Zenon DEF Saving
<1>6. CASE EndSave
  <2>1. save'.left = {} /\ save'.mask = {} /\ UNCHANGED <<ram, flash, saved>>
    BY <1>6 DEF EndSave, NotSaving
  <2> QED  BY <2>1 DEF Saving, FlashOf
<1>7. CASE \E s \in Sections : \E n \in 0 .. Size[s] : PowerCycle(n)
  <2>1. PICK n \in Nat : PowerCycle(n)
    BY <1>7, Layout
  <2>2. /\ flash' = IF save.left = {} THEN flash
                    ELSE IF save.erased THEN WrittenUpTo(Due, n) ELSE ErasedUpTo(Due, n)
        /\ saved' = IF save.left = {} THEN saved ELSE [saved EXCEPT ![Due] = Torn]
        /\ save' = NotSaving
    BY <2>1, Zenon DEF PowerCycle
  <2>3. save'.left = {} /\ save'.mask = {}
    BY <2>2 DEF NotSaving
  <2>4. CASE save.left = {}
    BY <2>2, <2>3, <2>4, Zenon DEF Saving
  <2>5. CASE save.left # {}
    <3>1. Due \in Sections /\ DOMAIN saved = Sections
      BY <2>5, DueLeft DEF TypeOK
    <3>2. \A s \in Sections : saved'[s] = IF s = Due THEN Torn ELSE saved[s]
      BY <2>2, <2>5, <3>1, Zenon
    <3>3. \A s \in Sections \ {Due} : FlashOf(flash', s) = FlashOf(flash, s)
      BY <2>2, <2>5, <3>1, OthersKept
    <3> QED  BY <2>3, <3>2, <3>3, Zenon DEF Saving
  <2> QED  BY <2>4, <2>5
<1> QED
  BY <1>1, <1>2, <1>3, <1>4, <1>5, <1>6, <1>7
     DEF Next, vars, set_single_key, set_all_keys, set_all_macro,
         Lookup, ReadFlag, ReadLow, ReadHigh, Return, Reads

-----------------------------------------------------------------------------
(* The theorems                                                            *)

(* Whatever commands come, and wherever the power fails, the blocks, the   *)
(* flash and the state of a command keep their types: no write runs over   *)
(* the end of a block.                                                     *)
THEOREM TypeCorrect == Spec => []TypeOK
BY InvAlways, PTL DEF Inv, LInv

(* A lookup in the keyboard thread, interrupted anywhere by commands that  *)
(* rewrite the keymap, returns an action the key had at some moment of it, *)
(* unless the key itself was rewritten.                                    *)
THEOREM HonestLookups == Spec => []LookupHonest
<1>1. Inv => LookupHonest
  <2>1. ASSUME Inv, lookup.pc = "done", ~rewritten PROVE lookup.code \in seen
    BY <2>1 DEF Inv, LInv, Honest, NoLookup
  <2> QED  BY <2>1 DEF LookupHonest
<1> QED  BY <1>1, InvAlways, PTL

(* For keymaps and packets of any size: every byte a tool has set is what  *)
(* the block holds, whatever byte the packets write behind their end.      *)
THEOREM KeysAsMeant == Spec => []SetAsMeant
BY InvAlways, PTL DEF Inv

(* What was saved of a section survives whatever happens to the others, in *)
(* a data flash that can be erased for one section alone.                  *)
THEOREM SavesSurvive ==
    ASSUME Apart
    PROVE  Spec => []SavedSurvives
<1>1. Init => Inv /\ Saving
  BY InvInit, SavingInit
<1>2. Inv /\ Saving /\ [Next]_vars => (Inv /\ Saving)'
  BY InvStep, SavingStep DEF Inv, LInv
<1>3. Inv /\ Saving => SavedSurvives
  BY DEF Saving, SavedSurvives
<1> QED  BY <1>1, <1>2, <1>3, PTL DEF Spec
=============================================================================
