# A TLA+ model of the zora61 keyboard firmware

The repository is the firmware of a CH583 (RISC-V) keyboard: the TMK keyboard
engine on top of RT-Thread, with the chip's USB device controller. This
directory specifies the path of a key from the contact to the report the host
takes, the USB device that carries it, and the settings a tool on the host
changes; it model-checks them with TLC on small instances and proves most of
the safety properties with TLAPS for every value of the constants. The build
that is modelled is the `zora61` keyboard (`keyboard/zora61/rules.mk`, `config.h`):
a matrix of 5 x 14, `DEBOUNCE` 5, `USB_6KRO_ENABLE`, NKRO off at boot,
`WAITING_BUFFER_SIZE` 8, `TAPPING_TERM` 200 ms, `TAPPING_TOGGLE` 5, mouse keys on;
bootmagic, commands, RGB, encoder, OLED and 2.4 GHz radio off.

Run from this directory: `tlc -config Tapping.cfg TappingMC`, `tlapm
KeyRing_proofs.tla`. `PROJECT.json` lists the runs with their modules, the
source lines of every definition, the mutants, the theorems, the hazards.

## 1. The system

Who runs what:

- The **keyboard thread** (`APP/task_thread.c`) initialises the matrix and
  repeats `keyboard_task(); wait_ms(10)`. Everything from the scan to the copy
  of a report into an endpoint buffer happens in this thread, in one call.
- The **USB interrupt** (`USB_DevTransProcess`) arms and acknowledges the
  endpoints, answers control transfers, and executes the commands of the
  configuration protocol (which rewrite the keymap and may clear the keyboard).
- The **event thread** waits for a mailbox nobody sends to.

There is no lock between the thread and the interrupt.

| component | state | operations | talks to |
|---|---|---|---|
| matrix driver, `DRIVERS/keyboard_matrix.c` | `matrix_debouncing[]`, `debouncing`, `matrix[]` | `matrix_scan_kb`: read row by row, count down, copy | read by the keyboard task |
| keyboard task, `TMK/keyboard.c` | `matrix_prev[]` | report each change with the time, then a `TICK`; then `mousekey_task` | calls `action_exec` |
| tapping engine, `TMK/action_tapping.c` | `tapping_key`, `waiting_buffer` | `action_tapping_process`, `process_tapping`, `waiting_buffer_*` | calls `process_action`, `clear_keyboard` |
| actions, `TMK/action.c` | none of its own | `process_action`, `register_code`, `unregister_code`, `clear_keyboard`, `is_tap_key` | layers, modifiers, report, mouse, host |
| layers, `TMK/action_layer.c` | `layer_state`, `default_layer_state`, `layer_pressed[][]` | `layer_on/off/invert/move/clear`, the bit operations, `layer_switch_get_action` | reads the keymap |
| six-key report, `TMK/action_util.c` | `keys[6]`, `cb_head`, `cb_tail`, `cb_count`, `real_mods`, `weak_mods`, `oneshot_mods` | `add_key_byte`, `del_key_byte`, `clear_keys`, `send_keyboard_report` | host driver |
| host reports, `TMK/host.c`, `DRIVERS/keyboard_host_driver.c` | last system and consumer usage | `host_keyboard_send`, `host_system_send`, `host_consumer_send`, `keyboard_leds` | USB endpoints |
| timer, `DRIVERS/keyboard_timer.c` | the RT-Thread tick | `timer_read`, `TIMER_DIFF_16` | tapping, mouse keys |
| mouse keys, `TMK/mousekey.c` | the mouse report, repeat counter, time of the last report | on, off, task, clear | host |
| USB device, `DRIVERS/USB/usbuser1.c` | endpoint buffers, `R8_UEPn_CTRL`, the control transfer in progress, address, configuration | `DevEPn_IN_Deal` in the thread, `USB_DevTransProcess` in the interrupt | host |
| configuration protocol, `DRIVERS/USB/hid_configuration.c` | none between commands | set a key, set blocks, save, DFU | storage, `clear_keyboard` |
| keymap storage, `DRIVERS/eeprom/eeprom.c` | blocks in RAM, `keymap_valid`, their copies in data flash | read, write, save, `action_for_key` | read by the layers |
| macros, `TMK/action_macro.c` | | | none shipped |
| lighting, radio, display, encoder, sensors | | | off in this build |
| RT-Thread, vendor libraries | | | third-party |

What is hard in it, and what right means:

- *Matrix*: rows are read one after the other while the contacts move, and one
  counter debounces the whole matrix. No glitch passes, each change
  is reported once and in order, and the report settles on the contacts.
- *Tapping engine*: fifteen ways through `process_tapping`, a buffer that is
  drained after every event and overflows into `clear_keyboard`, a forced release
  of the previous tap, and a settlement that may come from a timeout, from a
  release or from a release found in the buffer. The events of a
  key take effect in order and once, typing is not reordered, modifiers stay
  with what they modify, a release undoes its press, nothing stays on when
  all keys are up, and no event waits for ever.
- *Report*: a ring with holes whose indices move in loops that wrap. It is
  a queue of the held keys, in which every release finds its key, also if
  the interrupt clears it in the middle of a loop.
- *Endpoint 1*: thread and interrupt read, change and write one control register, and both
  send reports: the interrupt's `clear_keyboard` writes over what the thread is copying;
  acknowledgements get lost, the host resets and halts. The toggles agree again
  after every disturbance, and a report sent in calm arrives once and whole.
- *Control transfers*: one buffer and three variables carry a transfer over many
  interrupts; the host repeats, drops and resets. Descriptors arrive whole, the
  address changes with the status stage, nothing is left over for the next transfer.
- *Storage*: the interrupt rewrites the keymap under a lookup, packets write
  beyond their end, saving erases before it writes, power fails.
- *Mouse keys*: repetition and acceleration by a 16-bit clock that skips a tick, in passes
  that are ten ticks apart and sometimes many more.
- *Locking keys*: a press and a release that type, beside a host that looks
  when it likes, and LEDs that are not known.

## 2. Modules

| module | what it models |
|---|---|
| `MatrixScan` | `matrix_scan_kb` and the loop over the changes in `keyboard_task` |
| `ScanEvents` | abstract: each key at most once a pass, in matrix order, alternating, then a `TICK` |
| `KeyActions` | what an event does: actions, layers, modifiers, report and host usages as operators on one record `kb` |
| `Tapping` | `keyboard_task`, `action_tapping_process`, `process_tapping`, on top of `KeyActions` |
| `EventQueue` | abstract: the events of each key take effect in order and once |
| `KeyRing` | the ring of `action_util.c:178-298` and `clear_keys`, one action per way through `add_key_byte` and `del_key_byte` |
| `KeyRingLoops` | the same two functions once more, loop by loop (recursive operators), as a reference for `KeyRing` |
| `KeyRingSteps` | the same two functions with one access to `keys[]` a step, and the interrupt's `clear_keyboard` between any two |
| `HeldKeys` | abstract: the report is a queue of at most N held keys |
| `KeyRingQueue` | the mapping from the ring to that queue: the held keys from the head on, without the holes |
| `MouseKey` | `mousekey_on/off/task/clear`, the clock, the passes of the thread and the time between them |
| `Locking` | `KC_LCAP`, `KC_LNUM`, `KC_LSCR` in `register_code` and `unregister_code` |
| `HostLocks` | external: the locks at the host, what it sees of the reports, and what it is promised |
| `UsbEndpoint` | `usb_send_key`, `DevEP1_IN_Deal`, the interrupt's cases of endpoint 1, its `clear_keyboard`, and the host |
| `UsbControl` | the SETUP, IN and OUT cases of endpoint 0, the bus reset, the thread's read and write of `R8_UEP1_CTRL`, and the host |
| `HidStorage` | the commands that write, `storage_read/write`, the data flash, `check_keymap`, `action_for_key` |
| `*MC` | definitions for TLC: keymaps, a refinement mapping, descriptor lengths |
| `*_proofs` | the theorems of `KeyRing` (with `KeyRingSteps` and `KeyRingQueue`), `MatrixScan`, `Tapping` (types and order in `Tapping_proofs`, what is held in `Holding_proofs`), `MouseKey` and `Locking` (`MouseLocking_proofs`), `UsbEndpoint`, `UsbControl`, `HidStorage` |

How they fit together. `MatrixScan` implements `ScanEvents`, which is the order in
which the environment of `Tapping` produces its events: the key of an `Event`
follows the last one of the pass (`pos`), its direction is the opposite of the last, and
the pass ends with `Tick`. `Tapping` extends `KeyActions`, in which the report is a
*set* of codes; that is what `KeyRing` and `HeldKeys` establish about `keys[]` as long as no
more than six codes are held, and `ActionsAssumption` bounds the codes accordingly.
`KeyRingSteps` extends `KeyRing`, and `AtomicUnlessCut` says that a call that is not cut
is one step of it. What `send_keyboard_report` hands to the host driver is what
`UsbEndpoint` sends, there numbered instead of spelled out. `HidStorage` has the
lookup that `KeyActions` takes for one step; `LookupHonest` is what justifies it.

Correspondence with the code, where it is not one to one:

- *Ring.* A loop is one step in `KeyRing`. The search order is `Order(s)` (distance from
  `cb_head`), the turn of the do-while loops is `Turn(head, tail)`: all slots when
  the two are equal. The left shift is `Compacted` (held keys move up in order)
  or `Rotated` (the only hole lies before the tail, where the loop starts at the head). `MatchesLoops`
  checks this against `KeyRingLoops`. `cb_count` is a number modulo `CountMod`.
- *Ring, step by step.* Where the source names `keys[i]` twice the compiler may read
  it twice or keep it in a register; the second reading is either (`Again`). A
  shift that meets N + 1 holes, which takes a `clear_keys` in its middle, leaves `cb_tail` at -1 (`%`
  rounds to zero in C); the next write goes to `keys[-1]`, the reserved
  byte of the report (`reserved`). Of the interrupt only what it does to the ring is modelled.
- *Tapping.* One step of the model is one call of `process_tapping`: with a new
  event (`Event`, `Tick`) or with the first record of the buffer (`Drain`, the loop
  at the end of `action_tapping_process`; `Drained` when it ends on an empty buffer).
  `Consume` is `return true`, `Keep` is `return false`: for a new event that means
  enqueue it, and on overflow clear; for the head of the buffer it means leave it (with the
  fields the code wrote into it) and end the loop. The buffer is a sequence from
  its tail to its head index; the array holds `WAITING_BUFFER_SIZE - 1`.
- `is_tap_key` calls `layer_switch_get_action`, which records `layer_pressed` as a
  side effect: `Track` is applied wherever the code asks (`PressTapKey`, `NextTapKey`,
  `OtherTapKey`), and again by `process_action`. In the modifier check of
  `process_tapping` the record is a release, which records nothing.
- A cancelled tap (`record->tap = (tap_t){}` in `process_action`) changes the record of the
  caller. It is visible only in the call with `&tapping_key`, whose fields go into
  the release that waits: `Decided`.
- *Hooks.* `process_record_kb` is a `bool` function with an empty body
  (`DRIVERS/process_record_kb.c`); its value, undefined in C, is taken to be true, for with false
  no key would work at all.
- *Mouse keys.* `idle` counts the ticks since `mousekey_task` last ran: `MinPass` to `MaxPass` ticks go by from a pass
  to the next. In the code these are the 10 or 11 of `wait_ms(10)` at 1000 ticks a second
  (`APP/task_thread.c:27-31`), and more when a pass itself waits: 1 between scans that bounce, 100 for a locking key
  (`action.c:418`). Keys may change at any time between the passes, as the event of the matrix comes
  before `mousekey_task` in a pass, and `clear_keyboard` comes from the interrupt too (not in the middle
  of a call). Speeds are at least 2 by `MouseAssumption`, so that the factor 0.7 of a diagonal never
  rounds one to 0; the shipped values (5, 10, 20 and 127) meet it.
- *Locking keys.* `keyboard_leds` is a `uint8_t` function with an empty body, so every set of locks
  is an answer. In the binary that is shipped (`zora61.elf`) the register still holds the
  key code, so that every press is ignored and every release types. 100 ms are taken to be
  enough for one look of the host, two reports without a wait between them are not. A seventh key
  that pops a lock from the ring within the 100 ms is left out.
- *Endpoint 1.* The bytes of a report are two cells, the modifiers and the rest, copied one after
  the other. The read and the write of `R8_UEP1_CTRL` are two steps; at most one interrupt falls
  between them (`Window`), and its toggle or NAK is then undone. While an
  interrupt is pending the controller answers busy. LED reports come back complemented
  (`Echo`). The report of `clear_keyboard` (`InterruptClear`: `HID_CMD_ENTER_DFU`, a command on endpoint 3) is sent in one
  step, at any step of the thread; it also empties `keyboard_report`, from which the thread may still be copying,
  and a word the thread had loaded before may be stored after it. A halt is undone by the next `DevEP1_IN_Deal`.
  `RB_UEP_AUTO_TOG` lasts until the bus is reset; a thread that had read the register before
  the reset writes it back (`revived`).
- *Control transfers.* A byte is where it comes from: `<<descriptor, index>>` or a value. `DevConfig`
  and `USB_SleepStatus` survive a bus reset, as in the code; `GET_STATUS` of an interface answers with what is in
  the buffer, the first byte of the request; `GET_IDLE` and `GET_PROTOCOL` send
  `wLength` bytes. Of endpoint 1 there are the halts, in both directions, and the thread: it reads them with `R8_UEP1_CTRL`
  (`arming`) and writes them back later without the one of 0x81, and what the host has asked of 0x01 in between is
  then `undone`. The loss of the acknowledgement of the status stage of `SET_ADDRESS` is left out: the
  host would then have to reset the bus.
- *Storage.* A command runs to its end in the interrupt. `SET_ALL_KEYS` writes one byte more than
  the packet has (`junk`), which the next packet overwrites; the last packet is then
  answered with an error although its bytes are written. Erased flash counts as a
  keymap, as `check_keymap` asks for a byte that is not zero. Saving is one step to erase and one to
  write a section, and `PowerCycle(n)` fails after n bytes of the step.
- *Data.* A code is a string. The left and the right side of a kind of action, and
  the bytes of an action code, are not told apart. `Usages` gives the system and consumer codes.
  `layer_state` is the set of its bits; transparent keys, the default layer and the
  five bit operations are kept.
- *History variables* are marked "history" where they are declared; no guard of the
  program reads them, except that `MaxClears` bounds `clears`.

Operators named `<definition>_<Fault>` ("mutant") are plausible faults, one for each
property. `PROJECT.json` names the property that breaks when the definition is
replaced by its fault.

## 3. Runs

| run | instance | what it shows |
|---|---|---|
| `matrix_scan` | 2 rows, 1 column, `DEBOUNCE` 5, fair | no glitch; nothing pending; refinement of `ScanEvents`; settles on the contacts |
| `tapping` | seven keymaps of three keys, term 3, toggle 3, buffer 12 (503,875 states) | types; nothing stuck; events in order; modifiers retained; a release on the layer of its press; no overtaking; a one-shot reaches its key |
| `tapping_overflow` | one keymap, term 2, buffer 4, fair | order across overflows; every event settles |
| `key_ring` | N = 4, 5 codes, 2 clears, `CountMod` 16, codes symmetric | no code twice; every held code where the loops look; `cb_count` never below the number of held keys, and above by at most N a clear; a released code is not reported until it is added again; the declarative steps equal the loops; refinement of `HeldKeys` |
| `key_ring_steps` | N = 3, 4 codes, 2 clears anywhere in a call, `CountMod` 16 (1,339,590 states), fair | every call returns; the ring is sound and holds only held keys when it has; a call that is not cut is one step of `KeyRing` |
| `mouse_keys` | three movement keys, a wheel key, a button, a speed key; speeds to 12, delay 3, interval 2, passes 1 to 3 ticks apart, clock modulo 9 (1,173,480 states) | movement follows the keys; slow at first; repeated in the first pass after it is due, and no sooner |
| `locking` | 3 locks (320,256 states) | what a locking key types changes its lock once |
| `usb_endpoint` | 2 reports of the thread, any number from `clear_keyboard` (1,188,713 states), fair | the toggles agree when idle; a report sent in calm, by either, arrives once, whole, and in the end |
| `usb_control` | packets of 2, descriptors of 5 and 2 bytes, lengths 3 and 6, two settings of two values, features of the device and of 0x01 (1,744,392 states), fair | descriptors whole; address with the status stage; settings read back; stalls only where unsupported; transfers end |
| `hid_storage` | keymap of 2 layers with one key, macro of 1 byte, configuration of 1 byte, packets of 3, pages of 1 byte (257,488 states) | what was saved survives; lookups honest; bytes as the tool set them |
| `tapping_order` | one keymap, term 4, toggle 2, the buffer of the code (8) | **violates** `EventsInOrder` (section 5) |
| `storage_pages` | as `hid_storage`, with pages of 2 bytes and a macro of 3 | **violates** `SavedSurvives` |

Bounds, and why they are enough:

- *Ring.* Four slots are the smallest ring with several holes apart from each other on either
  side of head and tail; a fifth code forces the pop. Two clears let the drift
  of the second build on that of the first. The proofs take the result to every N
  and every number of clears short of a wrap. In steps, three slots are the fewest where a shift
  moves a key over a hole and past another key; a fourth code still forces the pop.
- *Matrix.* Two keys on different rows are the smallest matrix whose picture may
  never have existed; `DEBOUNCE` is the real one. Proved for every size.
- *Time* in `Tapping` is counted in the steps in which the debounced matrix can change. Two
  changes are at least `DEBOUNCE` passes apart, of 10 or 11 ms each: 54 ms, or 65 and more if the contacts
  bounce for a scan or two. So 200 ms are four steps (the fourth is outside) or three. A step has any number of
  passes with a `TICK` each (`WaitPass`), and a change in at most one of them (`changed`). The runs
  that pass have terms of three and two steps; what four make possible is `tapping_order`.
  `now` runs modulo `TimeMod - 1` and differences modulo `TimeMod`, as in the code
  (0xFFFF and 2^16); both are small, so that every run crosses the wrap.
- *Keys.* Three: a tapping key, a second one that interrupts it, and a third that waits
  behind or was held before. Every kind of action has a keymap in which it is
  the first of these: `tap` (both tap kinds), `mods`, `oneshot`, `toggle`, `modtoggle`,
  `layermods` (with usages and the default layer), `setclear`.
- *Buffer.* With a term of three steps three keys could make six or more events wait, and
  the real buffer of 8 would overflow in a few behaviours of extremely fast
  typing. The runs keep the two questions apart: `tapping` has a buffer that never
  fills, the overflow runs have one that fills all the time.
- `TapMax` (15 in the code, where `tap.count` is four bits and stops) is just above
  `TAPPING_TOGGLE`.
- *Mouse.* Two keys of one axis, one of the other and a wheel are all the ways keys interact; the
  clock turns within one hold, and `UINT8_MAX` 4 lets the repeat counter stop. Passes may be closer together than an
  interval, as in the code, or further apart, as around the wait for a locking key.
- *Endpoint.* Two reports of the thread are one under way and one that overwrites it, or one before a disturbance and
  one after it; those of the interrupt are not counted. The safety properties are proved for any number.
- *Control.* A descriptor of three packets, one shorter and one longer than what is asked for, and
  one whose length is a multiple of the packet size, which an empty packet ends. `Recipients` leaves the halt of 0x81 to
  `UsbEndpoint`: no setting is read back from it, as every write of the thread ends it. The proofs are for all recipients.
- *Storage.* Two layers are the fewest where one packet sets half of a keymap and its extra byte
  lands in the other half; bytes are 0 (no key) or not, and the erased byte is not 0. Pages
  of one byte are pages that no two sections share. Offsets at or beyond the
  end of a block, where the clipping in 16 bits wraps, are left out: a tool names no such place.

Fairness:

- `keyboard_task` runs in an endless loop at a priority nothing starves
  (`APP/task_thread.c`), so every step of it is weakly fair: `keyboard_task` in
  `MatrixScan`, `Tick`, `Drain` and `Drained` in `Tapping`, `Running` in
  `KeyRingSteps`, `Thread` in `UsbEndpoint`. A pass sleeps for 10 ms, so that time goes on whatever the
  number of passes in a step: `SF(WaitStep)`.
- A pending interrupt is served: `WF(Interrupt)` in the USB modules.
- The host polls an armed endpoint and ends a transaction it began: `BeginIn`, `EndIn \/ EndInUnheard`; it goes
  on with a control transfer it has begun (`HostGoesOn`), and its acknowledgements are not
  lost for ever (`SF(DataIn)`: a packet can be lost any number of times, but not always).
- Contacts, events, losses, resets and halts have none. `SettlesOnContacts` assumes
  that the contacts come to rest, `EventuallySettled` nothing about typing,
  `CalmSeen` and `TransfersEnd` that no reset or other transfer comes between.

Deadlock is checked in every run.

A type invariant that TLAPS proves is left to the proof; those of `Tapping` and
`HidStorage` are checked by a run too, for they bound the buffer and the places
the commands write to.

## 4. Proofs

Checked by TLAPS, for every value of the constants that meets the named
assumptions. Every inductive invariant was checked by TLC before it was proved.

| module | assumptions | theorems | inductive invariant |
|---|---|---|---|
| `KeyRing_proofs` | `RingAssumption`; all but the first: `FewClears` | `TypeCorrect`, `NeverTwice`, `NeverOutside`, `DriftBounded`, `ReleaseAlwaysClears` | `RingInv` |
| `KeyRing_proofs` | `RingAssumption`, `FewClears` | `RingIsQueue` | `QueueInv` |
| `KeyRing_proofs` | `RingAssumption`, `FewCuts` | `SoundAfterCut`, `ReleasedAfterCut`; `CallsAreAtomic` | `StepInv`; with it `AtomicInv` |
| `MatrixScan_proofs` | `MatrixAssumption` | `TypeCorrect`, `GlitchesFiltered`, `NothingLeftPending`, `ImplementsScanEvents` | `CalmPictures`, `PassInv` |
| `Tapping_proofs` | `ActionsAssumption`, `KeyMapsAssumption`, `TappingAssumption`; the last: `RetainedKinds` | `TypeCorrect`, `ModifiersRetained` | `Inv`, `FirstTaps` |
| `Tapping_proofs` | the same three; of the behaviour: `[]OneTapWaits` | `EventsKeepOrder`, `PressesKeepOrder` | `LineInv`: `QueueInv`, `GapInv`, `TapInv`, `WaitingInv` |
| `Holding_proofs` | the same three and `Reversible`; of the behaviour: `[](OneTapWaits /\ Room)`, of the last theorem `[]OneShotFree` too | `NothingIsStuck`, `ReleasedOnPressLayer`, `OneShotsReach` | `HoldInv`: `LineInv`, `FirstTaps`, `Sound`, `CountInv`, `GripInv` |
| `MouseLocking_proofs` | `MouseAssumption` | `TypeCorrect`, `FollowsTheKeys`, `StartsSlow`, `RepeatsInTime`, `RepeatsNoSooner` | `Timing` |
| `MouseLocking_proofs` | `LockingAssumption` | `LocksFollow` | `Pending` |
| `UsbEndpoint_proofs` | `EndpointAssumption` | `TypeCorrect`, `StaysInStep`, `ExactlyOnce` | `IInv` |
| `UsbControl_proofs` | `ControlAssumption` | `TypeCorrect`, `AddressWithStatus`, `StallsOnlyUnsupported`, `DescriptorsWhole`, `SettingsReadBack` | `IInv`, `RInv` |
| `HidStorage_proofs` | `StorageAssumption`, `MasksAssumption`, `LookedUpAssumption`; the last: `Apart` | `TypeCorrect`, `HonestLookups`, `KeysAsMeant`, `SavesSurvive` | `Inv`, `Saving` |

*Report.* `FewClears == N * (MaxClears + 1) < CountMod` says that `cb_count` cannot have
wrapped: for six keys and an int8_t, at most 41 clears that find all keys held. It
cannot be dropped (section 5, 3). `RingInv` is types, no duplicates, no key outside of the
turn, bounded drift. None is inductive alone: a code is added twice if the loops miss it (so
`NoDuplicates` needs `HeldIsScanned`) or if `cb_count` is 0 with a key held (so it needs
`CountCoversHeld`), and the count is below the number of keys if a release clears a slot that
was never counted. The work is in the left shift and in the retraction of the tail: `Gathered` says what
both forms of the shift leave, `RetractedStops` where the tail stops.

*The report is a queue.* `RingIsQueue` is the refinement of `HeldKeys`: the n-th key of the queue is in the slot
with n - 1 held keys before it, and each way through the two functions is a pop, an append, a
release or a stutter of the queue. It needs that the slot before the tail holds a key
(`TailOnKey`): a release that takes the last key retracts the tail over the holes, so that holes
lie between keys only. It follows (`ShiftKeepsOrder`) that the one shift that would
reorder keys, `Rotated`, which `MatchesLoops` shows the loops can do, is never met.

*The interrupt in the middle of a call.* `FewCuts == (N + 1) * (MaxClears + 1) <= CountMod` allows one more per
clear than `FewClears`, for a call that was cut may count a key that it writes over another: 35
clears for six keys and an int8_t. `StepInv` says for each place of the two functions where the keys, the
indices and the register are, after any number of clears since the call began: a clear
leaves nothing behind the place where the loop is but what the loop itself has written since
(`SoundAfterCut`), and the code of the call is the only one that may be in the report without being in `down`
(`ReleasedAfterCut`).

*One call, one step.* `CallsAreAtomic` justifies `KeyRing`: a call of `KeyRingSteps` that is not cut ends with the ring that one
action of `KeyRing` gives. `AtomicInv` relates the ring under way to the one the call found
(`start`): in the search loops nothing has changed; in the shift (`Gathering`) the first slots hold the
keys met so far in their order, the ones not yet met are where they were; when the tail is
retracted, all slots passed are holes. `TailOnKey` holds between the calls, and the lemmas
`GatheredIsShifted`, `PutAdds`, `SearchMisses`, `ReleaseReleases` and `RetractReleases` name the action of `KeyRing` for each
way out.

*Matrix.* `NoGlitch` is not an invariant and says nothing of a counter that is still
running, so it needs `CalmPictures`: the scans since the counter was last restarted
all read the same picture. The refinement needs `PassInv`: in a pass, every key still to
be reported lies behind the last one reported.

*Tapping.* Types through all fifteen branches: the buffer stays within its array, `tap.count` within
its bits, recorded layers exist, modifiers and codes do not mix. `Inv` is stronger than `TypeOK`:
what a key is *recorded* to do must be an action of the keymap, and time stamps
must be readings of the clock.

`ModifiersRetained` is a theorem about the keymaps in which modifiers are switched by the kinds of key that
the check of `process_tapping` names (`RetainedKinds`). Three kinds it does not name: a key that holds modifiers
with a layer, a layer key with a modifier as its tap code, and a modifier toggled by taps; TLC finds a
counterexample to `ModsRetained` for either of the last two beside another tap key. The
invariant is `FirstTaps`: a record that waits has a `tap.count` of at most 1. A release that is let through although its key has
modifiers (`tap.count == 0` in the check is false) is then that of a first tap, which takes back a code or, of a one-shot
key, nothing; of a later tap it would take the modifiers of the one-shot key.

*The events of a key are a queue.* `EventsKeepOrder` is the refinement of `EventQueue`, `PressesKeepOrder` is
`NoOvertaking`; both say `Spec /\ []OneTapWaits => ...`, for every keymap, term, size of the buffer and turn of the clock.
`OneTapWaits`: of the presses in the waiting buffer, at most one is of a tap key. It is a condition on the typing, and false in
the behaviours of `tapping_order` (section 5, 1), where the key that is typed twice waits behind another tap key. Both
properties are false without it. TLC found the invariants below to hold under it, for terms of two to four
steps, all keymaps, and buffers that overflow, before they were proved.
- `QueueInv`: the records stand in the order of their times, none is older than a tapping term and a
  step, so that a difference in 16 bits is a true one, and a step of time made at most one of each key.
- `GapInv`: two records of earlier steps lie within a term of each other, or nothing but plain keys waits.
- `TapInv`: `DrainedInv` is what the drain owes to the next pass: the buffer is empty but for the step that is scanned now,
  unless the tapping key is undecided. It is not inductive: every record that stops the drain must leave an
  undecided key, and a first tap that is found in the buffer stops it without one. So its release must stand behind
  something that blocks the buffer (`Blocked`), the records must lie within the key's term (`InTerm`, `LatePlain`, `TapAge`), and a
  key that is a tap must not be pressed and released again in the buffer (`NotAgain`).
- `WaitingInv`: of each key the events that wait alternate, the first differs from what last took effect
  (`settled`), and the last is the state of the key in the matrix.

Each way through `process_tapping` then puts an event at the end of its key's queue, takes the first one of a queue, does both,
flushes all queues, or is a stutter of `EventQueue` (`Moves`). `Waiting(k)` counts the press of the undecided tapping key
as waiting, for it is no longer in the buffer and has not taken effect.

*What is held, and by whom.* The theorems of `Holding_proofs` need three conditions, and are false without them.
- `Reversible`, on the keymap: a release undoes what its press did. No key switches layers on its press or release
  alone (`LAYER` with `on`, `OP_OFF_ON`) or toggles one by taps (`OP_TAP_TOGGLE`; section 5, 5); the one-shot keys share
  one set of modifiers, which is not empty; a key whose tap can be cancelled (`MODS_TAP` with a code) has its action on layer
  0 and is transparent above (section 5, 4, is what happens otherwise); and `TapMax` and `TAPPING_TOGGLE` are more than 1.
  The built-in keymap (`keyboard/zora61/keymap_plain.c`) and all keymaps of `TappingMC` meet it but `toggle`,
  and the two that show 4 and 5.
- `OneTapWaits`, on the typing, as above (section 5, 1), and `Room`: the waiting buffer is not full (section 5, 9).
- `OneShotFree`, for the last theorem only: a one-shot key that was tapped twice in a row and is down as an ordinary
  modifier has no tap key beside it, whose press would release it for the host and end the one-shot modifier.

The invariant says who holds what. `Load(a, n, part)` is what a key with the action `a` holds after `n` taps, of the codes,
the modifiers, the layers or the usages; `GripInv` says that everything that is on is in the load of some key
whose press has taken effect (`settled`), with the action on the layer of that press (`Does`) and its number of taps (`Mode`). `Effect`
is the lemma about `process_action`: a press adds at most the load of its key, a release takes all of it. For this the release must come with
the same number of taps as the press, and that is `CountInv`: the buffer holds the counted
release of a key exactly while the engine takes its tap as the first one, a tap that was cancelled counts as none, and an
undecided key whose press took effect already is one whose tap was cancelled. `Sound` adds
that the host was told what is held, except for one-shot modifiers. Without a key that is down or an event that waits no key is
settled (`WaitingInv`), so nothing is held. TLC found the invariant to hold under
`OneTapWaits` and `Room` for these keymaps before it was proved.

*Mouse.* `MovesAsHeld` is inductive with the types. The time properties need `Clock`, which relates
`last_timer` and `now` to the ticks that really passed (`since`, up to `Delay + MaxPass`) across a turn of the clock that looks
a tick too long; `MouseAssumption` has the clock turn no sooner. `NeverStalls` is then inductive: it says that in the last
pass, `idle` ticks ago, a movement that goes on was not due yet. So a repetition is at most `MaxPass` ticks late, 10 or 11 in the code
as long as no pass waits.

*Locking.* `Pending`: the locks the host has still to change are those in the report it has not seen. `MouseLocking_proofs`
takes `Locking` as an instance (`K`) beside the promise of `HostLocks`.

*Endpoint.* `InStep`: without `RB_UEP_AUTO_TOG` a packet has the toggle of the register, an
acknowledged one leaves the register behind the host until the interrupt, and the thread
writes back what it read unless an interrupt fell between; with it, on a bus that was reset, the thread has
written it back (`revived`). `InCalm` follows a report that is sent in calm, by the thread or by `clear_keyboard`, through
`Copying`, `Offered`, `Taken`.

*Control.* `Staged` relates the stage the host is in to what the device holds, `Sending` says which piece of
the descriptor is in the buffer and where `pDescr` stands, both for a packet that is acknowledged and for
one whose interrupt is pending; `Addressed` and `Stalled` are what `AddressAgrees` and `StallExact` need of the next steps.
`RInv` follows a setting from the request that sets it (`Taken`: before its status stage the device holds the value), through
the variable that keeps it as long as no request to change it is under way (`Known`), to the packet that answers, in
the buffer or with the host (`Answered`). Of the halt of 0x01 it says nothing while that is `undone` (`Kept`); every other
write of the thread leaves that halt as it finds it.

*Storage.* `Honest`: the bytes a lookup has already read are of an action the key had while it ran.
`SetAsMeant` is inductive with it: the junk byte of a packet is either behind the block or
forgotten (`Unknown`). `Saving`: every section that is not the one being
erased holds what was saved, for which `Apart` is needed: no two sections share a page of the data flash.

Model-checked only, and why:

- `NothingStuck`, `ReleaseOnPressLayer` and `OneShotReachesKey` of `Tapping` for the keymaps that are not
  `Reversible`: the runs check them for one of these too, a layer that is toggled by taps (`toggle` of `TappingMC`),
  on which `NothingStuck` allows it to stay only after `TAPPING_TOGGLE` taps.
- `MatchesLoops`: the operators of `KeyRingLoops` are recursive and out of the prover's reach.
  `CallsAreAtomic` shows the same of the loops taken step by step.
- Liveness is out of the prover's reach: `SettlesOnContacts`, `EventuallySettled`, `CallsReturn`, `CalmSeen`, `TransfersEnd`.

## 5. Differences found

The first two are runs. The others can be repeated with the command that is given; each ends with
a counterexample.

1. A first tap whose release is found while the waiting buffer is drained returns false to "enqueue"
   (`action_tapping.c:95`), but that ends the loop, and the records stay although nothing is
   undecided; the event of the next pass overtakes them (`tapping_order`). It takes a tapping key that is
   typed twice with another key in between, all within the term of a third (three keys, six
   events in 165 ms), and a change in the pass right after the term has run out. The other key is then
   down and not reported, or up and reported: `NothingStuck` fails in the same way.
2. The sections of the data flash begin where the one before ends (with the shipped sizes at 0, 1120 and
   2144), not at a page: erasing one takes the end of the one before it, which is not
   written again, even if both are saved by the same command (`eeprom.c:184-215`; `storage_pages`).
3. `clear_keys` leaves `cb_count` alone (`action_util.c:103`), so it grows with every
   clear that finds a key held; after it has wrapped to 0 with a key in the report,
   the release of that key is skipped, against "the number of keys" it counts (`report.h:119`).
   `tlc -config KeyRingWrap.cfg KeyRingMC`
4. `layer_pressed` is recorded again when a tapping key settles
   (`action_tapping.c:187`), while `action_layer.c:147` says it is the layer "where key is
   pressed". `tlc -config TappingMomentary.cfg TappingMC`
5. A toggle key beside another tap key needs two taps, not `TAPPING_TOGGLE`
   (`action_tapping.h:27`): its forced release inverts the layer (`action_tapping.c:159`).
   `tlc -config TappingToggleEarly.cfg TappingMC`
6. The string descriptor 0 is answered with the serial number (`usbuser1.c:267`), not with the
   "LANGID Codes" of `usbdesc.c:346`. `tlc -config UsbStringZero.cfg UsbControlMC`
7. Setting one key while the keymap block is empty makes the whole block valid (`eeprom.c:41`): all
   other keys lose their built-in actions, while the command is to "set the value of
   a single key" (`hid_configuration.h:24`). `tlc -config HidStorageSingleKey.cfg HidStorageMC`
8. If `clear_keyboard` of the interrupt (`hid_configuration.c:485`) empties a full ring in the middle of a
   shift, `cb_tail` becomes -1 (`action_util.c:230`) and a key is written into the reserved byte of the
   report (`report.h:123`). `tlc -config KeyRingReserved.cfg KeyRingSteps`
9. On overflow of the waiting buffer "CLEAR ALL STATES" (`action_tapping.c:47`) clears
   no layer, and drops the release of a held layer key: the layer stays on.
   `tlc -config TappingOverflowStuck.cfg TappingMC`
10. "Resync: ignore if lock indicator is already on" (`action.c:413`, `:482`) cannot be: `keyboard_leds` returns
   nothing (`keyboard_host_driver.c:8`). `tlc -config LockingResync.cfg Locking`

Noted, and stated as an exception in the property it concerns:

- "Modifier should be retained till end of this tapping" (`action_tapping.c:117-130`) holds for the keys of the
  kinds MODS and MODS_TAP; the release of a key of kind LAYER_MODS is let through at once (`ModsRetained`).
- A report is lost if the thread sends it before the last one was fetched, or if the interrupt falls between its
  read and write of `R8_UEP1_CTRL`, or if an output report, a halt, a reset or the `clear_keyboard` of the interrupt comes
  between (`calm` in `UsbEndpoint`).
- A SET_FEATURE or CLEAR_FEATURE of the halt of 0x01 that falls between the thread's read and write of
  `R8_UEP1_CTRL` is lost (`usbuser1.c:110-111`; `undone` in `ReadsBack`). A bus reset there leaves
  `RB_UEP_AUTO_TOG` on, and the toggles disagree after the next packet (`revived` in `TogglesAgree`).
- Of two keys of one axis the last one pressed counts; its release stops the axis although
  the other is still held (`wanted` in `MouseKey`).
- The first repetition of a movement is slower (2) than the step of the press (5) with the shipped values.

## 6. Not modelled

- *Macros*: none is shipped; `action_get_macro` is the weak default that returns `MACRO_NONE`,
  `action_tapmacro_play` has no caller, and nothing reads the macro block as a macro.
- *NKRO bitmap*: off at boot, and only switched by code that is not compiled. *Bootmagic, commands,
  backlight, unimap*: not compiled.
- *Endpoints 2 and 3*: the same registers and steps as endpoint 1 (`UsbEndpoint`); mouse, system and
  consumer reports share the buffer of endpoint 2, and a later one overwrites an earlier
  one as on endpoint 1. Suspend: its branches are empty.
- *Requests* that are answered from a table nobody reads further: the report descriptor of an
  interface that does not exist, vendor requests; the contents of the descriptors.
- *Answers* of the configuration protocol, and its commands that change nothing (`READ_CONFIG`, `RESET_CONFIG`,
  `SET_SINGLE_CONFIG` have empty bodies; encoders and functions are not compiled). `ENTER_DFU`
  with a length of 1 is `clear_keyboard` and nothing else.
- *A keymap rewritten under held keys* (`eeprom.c:140`): `release` looks up the layer, not the
  action, of the press, so the release may find another action. The code promises nothing here; `HidStorage`
  covers what a lookup returns.
- *One code on two keys* (`action.c:494`): the release of one releases the code. Promised is nothing; the keymaps of the
  `tapping` run have each code once among the keys of a layer.
- `timer_elapsed32`: called only by RGB animations and tap macros.
- *Lighting, radio, display, encoder, sensors, status LEDs* are not compiled in this configuration, were
  written for another chip, or are output without a state the rest depends on.
- *RT-Thread, the vendor's BLE and peripheral libraries, fonts and firmware images* are third-party code or data. They are most of
  the lines in the repository; the modules here cover the keyboard's own code that this build runs, so that the share of
  all lines that the map names is small by nature.

## 7. Plan

Done: the path from contact to host, the device requests, the settings, mouse and locking keys
(sections 2 to 4). What is left, in this order:

1. Proofs: `NothingStuck` with layers that are toggled by taps or switched by the press alone, for which `Held` has to
   follow `layer_state` through its history and not only through the keys that are down.
2. `HidStorage` composed with `Tapping` through `kb.keymap`: what is stuck, and what is not, when the
   keymap changes under held keys.
3. Endpoint 2 as an instance of `UsbEndpoint` with several senders.
