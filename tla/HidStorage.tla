------------------------------ MODULE HidStorage ------------------------------
(***************************************************************************)
(* The settings of the keyboard: the blocks in memory, their copies in     *)
(* data flash (DRIVERS/eeprom/eeprom.c), and the commands by which a tool  *)
(* on the host reads, changes and saves them (hid_on_recv in               *)
(* DRIVERS/USB/hid_configuration.c).                                       *)
(*                                                                         *)
(* A command runs in the USB interrupt, to its end.  The keyboard thread   *)
(* looks actions up in the keymap block at the same time; the interrupt    *)
(* may come between any two of its reads.  Saving erases and then writes   *)
(* one section after the other, and the power may fail at any byte of it.  *)
(*                                                                         *)
(* The code of a key is the pair of its bytes.  A tool waits for the       *)
(* answer of a command and names no place behind the end of a block.  The  *)
(* answers themselves, and the commands that change nothing, are left out. *)
(***************************************************************************)
EXTENDS Integers, Sequences

CONSTANTS
    Layers, Rows, Cols,     \* MAX_LAYER, MATRIX_ROWS, MATRIX_COLS
    MacroSize, ConfigSize,  \* the other blocks
    Word,                   \* 4: blocks are whole words
    Packet,                 \* MAX_HID_PACKET_SIZE
    PageSize,               \* the data flash is erased by pages
    Bytes,                  \* bound: the values of a byte
    Masks,                  \* bound: the sections that are saved together
    LookedUp,               \* bound: the keys that are looked up
    Erased                  \* the one an erased byte has

ASSUME StorageAssumption ==
    /\ Layers \in Nat \ {0} /\ Rows \in Nat \ {0} /\ Cols \in Nat \ {0}
    /\ MacroSize \in Nat \ {0} /\ ConfigSize \in Nat \ {0}
    /\ Word \in Nat \ {0} /\ Packet \in Nat \ {0} /\ PageSize \in Nat \ {0}
    /\ Bytes \subseteq Nat /\ 0 \in Bytes /\ Erased \in Bytes

-----------------------------------------------------------------------------
(* The layout of the blocks and of the data flash                          *)

KEYMAP_ROW_SIZE == Cols * 2
KEYMAP_LAYER_SIZE == Rows * KEYMAP_ROW_SIZE
KeymapBytes == KEYMAP_LAYER_SIZE * Layers

Words(n) == ((n + Word - 1) \div Word) * Word

Size == [keymap |-> Words(KeymapBytes), macro |-> Words(MacroSize),
         config |-> ConfigSize]
Sections == {"keymap", "macro", "config"}

ASSUME MasksAssumption == Masks \subseteq SUBSET Sections

Base == [keymap |-> 0, macro |-> Size.keymap, config |-> Size.keymap + Size.macro]

Places(s) == 0 .. Size[s] - 1
Cells(s) == Base[s] .. Base[s] + Size[s] - 1
Flash == 0 .. Size.keymap + Size.macro + Size.config - 1

\* a page is erased as a whole
EraseRange(s) == {a \in Flash : \E b \in Cells(s) : a \div PageSize = b \div PageSize}

Blank(s) == [i \in Places(s) |-> Erased]

KeyPositions == [layer : 0 .. Layers - 1, row : 0 .. Rows - 1, col : 0 .. Cols - 1]
ASSUME LookedUpAssumption == LookedUp \subseteq KeyPositions

Index(k) == k.layer * KEYMAP_LAYER_SIZE + k.row * KEYMAP_ROW_SIZE + k.col * 2

VARIABLES
    ram,            \* keymap_block, macro_block, config_block
    keymap_valid,
    flash,          \* the data flash
    save,           \* storage_write: the sections left, whether the first is erased
    lookup,         \* the keyboard thread in action_for_key
    rewritten,      \* history: the key was written during the lookup
    seen,           \* history: if not, the actions it had during the lookup
    saved,          \* history: what was last saved in a section
    meant           \* history: the keymap the tool means to have set

vars == <<ram, keymap_valid, flash, save, lookup, rewritten, seen, saved, meant>>
histories == <<rewritten, seen>>

\* no block is empty
Torn == <<>>

\* no byte has this value
Unknown == -1

HasCode(block) == \E i \in 0 .. KeymapBytes - 1 : block[i] # 0

Code(low, high) == <<"keymap", low, high>>
BuiltIn(k) == <<"actionmaps", k>>

\* the action a key has: of the block if anything is in it, else built in
Action(block, k) == IF HasCode(block) THEN Code(block[Index(k)], block[Index(k) + 1])
                    ELSE BuiltIn(k)

NoLookup == [pc |-> "idle"]
NotSaving == [left |-> {}, erased |-> FALSE, mask |-> {}]

FlashOf(f, s) == [i \in Places(s) |-> f[Base[s] + i]]

\* storage_read(0xff), as main calls it
Loaded(f) == [s \in Sections |-> FlashOf(f, s)]

Init ==
    /\ flash = [a \in Flash |-> Erased]
    /\ ram = Loaded(flash)
    /\ keymap_valid = HasCode(ram.keymap)
    /\ save = NotSaving
    /\ lookup = NoLookup /\ rewritten = FALSE /\ seen = {}
    /\ saved = Loaded(flash)
    /\ meant = ram.keymap

-----------------------------------------------------------------------------
(* Commands that change a block                                            *)

Free == save = NotSaving

\* a command finds the thread in a lookup
Watch(block, places) ==
    IF lookup = NoLookup THEN UNCHANGED histories
    ELSE /\ rewritten' = (rewritten \/ Index(lookup.key) \in places
                                    \/ Index(lookup.key) + 1 \in places)
         /\ seen' = IF rewritten' THEN {} ELSE seen \cup {Action(block, lookup.key)}

\* mutant: the length is not clipped
storage_write_data_Unclipped(s, offset, data) ==
    LET places == offset .. offset + Len(data) - 1
        block == [i \in Places(s) \cup places |->
                     IF i \in places THEN data[i - offset + 1] ELSE ram[s][i]]
    IN  /\ ram' = [ram EXCEPT ![s] = block]
        /\ keymap_valid' = IF s = "keymap" THEN HasCode(block) ELSE keymap_valid
        /\ IF s = "keymap" THEN Watch(block, places) ELSE UNCHANGED histories

\* mutant: keymap_valid is not checked again
storage_write_data_Unchecked(s, offset, data) ==
    LET len == IF Size[s] < Len(data) + offset THEN Size[s] - offset ELSE Len(data)
        places == offset .. offset + len - 1
        block == [i \in Places(s) \cup places |->
                     IF i \in places THEN data[i - offset + 1] ELSE ram[s][i]]
    IN  /\ ram' = [ram EXCEPT ![s] = block]
        /\ UNCHANGED keymap_valid
        /\ IF s = "keymap" THEN Watch(block, places) ELSE UNCHANGED histories

\* storage_write_data in set_storage
storage_write_data(s, offset, data) ==
    LET len == IF Size[s] < Len(data) + offset THEN Size[s] - offset ELSE Len(data)
        places == offset .. offset + len - 1
        block == [i \in Places(s) \cup places |->
                     IF i \in places THEN data[i - offset + 1] ELSE ram[s][i]]
    IN  /\ ram' = [ram EXCEPT ![s] = block]
        /\ keymap_valid' = IF s = "keymap" THEN HasCode(block) ELSE keymap_valid
        /\ IF s = "keymap" THEN Watch(block, places) ELSE UNCHANGED histories

set_single_key(k, code) ==
    /\ Free
    /\ storage_write_data("keymap", Index(k), code)
    /\ meant' = [meant EXCEPT ![Index(k)] = code[1], ![Index(k) + 1] = code[2]]
    /\ UNCHANGED <<flash, save, lookup, saved>>

\* the tool sends the packets of a keymap in order: the byte behind this one
\* is either overwritten by the next packet or not known
Sent(id, data) ==
    [i \in Places("keymap") |->
        IF i - id * Packet \in 0 .. Len(data) - 1 THEN data[i - id * Packet + 1]
        ELSE IF i = id * Packet + Len(data) THEN Unknown ELSE meant[i]]

\* mutant: the place is counted in packets as long as this one
set_all_keys_OwnLength(id, data, junk) ==
    /\ Free
    /\ storage_write_data("keymap", id * Len(data), data \o <<junk>>)
    /\ meant' = Sent(id, data)
    /\ UNCHANGED <<flash, save, lookup, saved>>

\* The length counts the number of the packet before the data, so that one
\* byte more is written: what lies behind the data in the endpoint's buffer.
set_all_keys(id, data, junk) ==
    /\ Free
    /\ storage_write_data("keymap", id * Packet, data \o <<junk>>)
    /\ meant' = Sent(id, data)
    /\ UNCHANGED <<flash, save, lookup, saved>>

set_all_macro(id, data) ==
    /\ Free
    /\ storage_write_data("macro", id * Packet, data)
    /\ UNCHANGED <<flash, save, lookup, saved, meant>>

-----------------------------------------------------------------------------
(* WRITE_CONFIG: storage_write and the answer                              *)

\* storage_write takes the sections in this order
Due == IF "keymap" \in save.left THEN "keymap"
       ELSE IF "macro" \in save.left THEN "macro" ELSE "config"

write_data(mask) ==
    /\ Free
    /\ save' = [left |-> mask, erased |-> FALSE, mask |-> mask]
    /\ UNCHANGED <<ram, keymap_valid, flash, lookup, histories, saved, meant>>

\* the flash after the first n bytes of an erase or a write
ErasedUpTo(s, n) ==
    [a \in Flash |-> IF a \in EraseRange(s) /\ (n = Size[s] \/ a < Base[s] + n)
                     THEN Erased ELSE flash[a]]
WrittenUpTo(s, n) ==
    [a \in Flash |-> IF a \in Cells(s) /\ a < Base[s] + n
                     THEN ram[s][a - Base[s]] ELSE flash[a]]

EraseSection ==
    /\ save.left # {} /\ ~save.erased
    /\ LET s == Due
       IN  /\ flash' = ErasedUpTo(s, Size[s])
           /\ saved' = [saved EXCEPT ![s] = Torn]
    /\ save' = [save EXCEPT !.erased = TRUE]
    /\ UNCHANGED <<ram, keymap_valid, lookup, histories, meant>>

\* mutant: the section is written where the keymap is
WriteSection_AtZero ==
    /\ save.left # {} /\ save.erased
    /\ LET s == Due
       IN  /\ flash' = [a \in Flash |-> IF a \in Places(s) THEN ram[s][a] ELSE flash[a]]
           /\ saved' = [saved EXCEPT ![s] = ram[s]]
    /\ save' = [save EXCEPT !.left = @ \ {Due}, !.erased = FALSE]
    /\ UNCHANGED <<ram, keymap_valid, lookup, histories, meant>>

WriteSection ==
    /\ save.left # {} /\ save.erased
    /\ LET s == Due
       IN  /\ flash' = WrittenUpTo(s, Size[s])
           /\ saved' = [saved EXCEPT ![s] = ram[s]]
    /\ save' = [save EXCEPT !.left = @ \ {Due}, !.erased = FALSE]
    /\ UNCHANGED <<ram, keymap_valid, lookup, histories, meant>>

EndSave ==
    /\ save # NotSaving /\ save.left = {}
    /\ save' = NotSaving
    /\ UNCHANGED <<ram, keymap_valid, flash, lookup, histories, saved, meant>>

\* the power fails after n bytes of the step that is due, and comes back
PowerCycle(n) ==
    LET s == Due
    IN  /\ flash' = IF save.left = {} THEN flash
                    ELSE IF save.erased THEN WrittenUpTo(s, n) ELSE ErasedUpTo(s, n)
        /\ saved' = IF save.left = {} THEN saved ELSE [saved EXCEPT ![s] = Torn]
        /\ ram' = Loaded(flash')
        /\ keymap_valid' = HasCode(ram'.keymap)
        /\ save' = NotSaving
        /\ lookup' = NoLookup /\ rewritten' = FALSE /\ seen' = {}
        /\ meant' = ram'.keymap

-----------------------------------------------------------------------------
(* action_for_key in the keyboard thread                                   *)

InThread == Free        \* the interrupt does not return while it saves

Lookup(k) ==
    /\ InThread /\ lookup.pc = "idle"
    /\ lookup' = [pc |-> "flag", key |-> k]
    /\ seen' = {Action(ram.keymap, k)}
    /\ rewritten' = FALSE
    /\ UNCHANGED <<ram, keymap_valid, flash, save, saved, meant>>

Reads(next) ==
    /\ lookup' = next
    /\ UNCHANGED <<ram, keymap_valid, flash, save, histories, saved, meant>>

ReadFlag ==
    /\ InThread /\ lookup.pc = "flag"
    /\ Reads(IF keymap_valid THEN [pc |-> "low", key |-> lookup.key]
             ELSE [pc |-> "done", key |-> lookup.key, code |-> BuiltIn(lookup.key)])

ReadLow ==
    /\ InThread /\ lookup.pc = "low"
    /\ Reads([pc |-> "high", key |-> lookup.key, low |-> ram.keymap[Index(lookup.key)]])

ReadHigh ==
    /\ InThread /\ lookup.pc = "high"
    /\ Reads([pc |-> "done", key |-> lookup.key,
              code |-> Code(lookup.low, ram.keymap[Index(lookup.key) + 1])])

Return ==
    /\ InThread /\ lookup.pc = "done"
    /\ lookup' = NoLookup /\ rewritten' = FALSE /\ seen' = {}
    /\ UNCHANGED <<ram, keymap_valid, flash, save, saved, meant>>

-----------------------------------------------------------------------------
\* the packets a tool sends: full ones, and the rest of the block
Data(s, id) ==
    LET n == IF Size[s] - id * Packet < Packet THEN Size[s] - id * Packet ELSE Packet
    IN  [1 .. n -> Bytes]

Ids(s) == {id \in 0 .. Size[s] : id * Packet < Size[s]}

Next ==
    \/ \E k \in KeyPositions, code \in Bytes \X Bytes : set_single_key(k, code)
    \/ \E id \in Ids("keymap"), junk \in Bytes :
          \E data \in Data("keymap", id) : set_all_keys(id, data, junk)
    \/ \E id \in Ids("macro") : \E data \in Data("macro", id) : set_all_macro(id, data)
    \/ \E mask \in Masks : write_data(mask)
    \/ EraseSection \/ WriteSection \/ EndSave
    \/ \E s \in Sections : \E n \in 0 .. Size[s] : PowerCycle(n)
    \/ \E k \in LookedUp : Lookup(k)
    \/ ReadFlag \/ ReadLow \/ ReadHigh \/ Return

Spec == Init /\ [][Next]_vars

-----------------------------------------------------------------------------
Blocks(s) == [Places(s) -> Bytes]

TypeOK ==
    /\ \A s \in Sections : ram[s] \in Blocks(s) /\ saved[s] \in Blocks(s) \cup {Torn}
    /\ DOMAIN ram = Sections /\ DOMAIN saved = Sections
    /\ flash \in [Flash -> Bytes]
    /\ keymap_valid \in BOOLEAN
    /\ save \in [left : SUBSET Sections, erased : BOOLEAN, mask : SUBSET Sections]
    /\ lookup.pc \in {"idle", "flag", "low", "high", "done"}
    /\ meant \in [Places("keymap") -> Bytes \cup {Unknown}]

(* What was once saved of a section stays there until it is saved again,   *)
(* whatever is saved of the others and wherever the power fails            *)
(* (eeprom.c:184-215); and WRITE_CONFIG is answered with success when      *)
(* every section it names holds what is in memory.                         *)
SavedSurvives ==
    /\ \A s \in Sections : saved[s] # Torn => FlashOf(flash, s) = saved[s]
    /\ save # NotSaving /\ save.left = {} => \A s \in save.mask : saved[s] = ram[s]

(* A lookup returns an action the key had at some moment of it: neither a  *)
(* keymap_valid that has become stale nor a change of other keys disturbs  *)
(* it (eeprom.c:41-45).  Only a change of the key itself can tear it.      *)
LookupHonest ==
    lookup.pc = "done" /\ ~rewritten => lookup.code \in seen

(* Every byte a tool has set, with one key or as part of a packet, is what *)
(* the block holds, in spite of the byte each packet writes behind its     *)
(* end: sent in order, the packets of a keymap leave no trace of it.       *)
SetAsMeant ==
    \A i \in Places("keymap") : meant[i] # Unknown => ram.keymap[i] = meant[i]

(* "设置单个按键键值" (hid_configuration.h:24), set the value of a single   *)
(* key: the others keep their actions.                                     *)
SingleKeyOnly ==
    [][ram' # ram => \A k \in KeyPositions, code \in Bytes \X Bytes :
          set_single_key(k, code) =>
              \A other \in KeyPositions \ {k} :
                  Action(ram'.keymap, other) = Action(ram.keymap, other)]_vars
=============================================================================
