----------------------------- MODULE UsbEndpoint -----------------------------
(***************************************************************************)
(* Endpoint 1 of the USB device, shared by the keyboard thread, the USB    *)
(* interrupt and the host: usb_send_key and DevEP1_IN_Deal in the thread,  *)
(* the cases of endpoint 1 in USB_DevTransProcess (DRIVERS/USB/usbuser1.c).*)
(*                                                                         *)
(* The thread copies a report into the buffer, sets the length and arms    *)
(* the endpoint with a read and a write of R8_UEP1_CTRL; nothing keeps the *)
(* interrupt from running between them, and nothing checks that the host   *)
(* has fetched the report before.  The host fetches a packet whenever the  *)
(* endpoint is armed, takes it if its toggle is the expected one and drops *)
(* it as a repetition if not; its acknowledgement may be lost, after which *)
(* it gets the packet again.  While the interrupt of a transfer is pending *)
(* the controller answers busy (RB_UC_INT_BUSY).                           *)
(*                                                                         *)
(* The interrupt has two reports of its own: the output reports of         *)
(* endpoint 1 (the LEDs) come back complemented as an input report of one  *)
(* byte (DevEP1_OUT_Deal), and HID_CMD_ENTER_DFU, a command on endpoint 3, *)
(* sends the empty report of clear_keyboard (hid_configuration.c).         *)
(*                                                                         *)
(* The read and the write of R8_UEP1_CTRL are a few instructions apart and *)
(* a packet takes some microseconds: at most one interrupt runs in between *)
(* (Window).                                                               *)
(***************************************************************************)
EXTENDS Naturals

CONSTANT MaxReports         \* bound: reports the thread sends

ASSUME EndpointAssumption == MaxReports \in Nat \ {0}

VARIABLES
    ctrl,       \* R8_UEP1_CTRL
    t_len,      \* R8_UEP1_T_LEN
    buf,        \* pEP1_IN_DataBuf: the modifier byte and the rest
    tpc,        \* the thread in usb_send_key
    copy,       \* the value of R8_UEP1_CTRL the thread has read
    sent,       \* reports the thread has sent so far; they are numbered
    report,     \* what keyboard_report holds: the last one or, after
                \* clear_keyboard, the empty one
    hit,        \* an interrupt ran since the thread has read it
    flag,       \* the transfer whose interrupt is pending
    packet,     \* the input packet on the bus: its toggle and first byte
    host,       \* expected toggles and the report last taken
    calm,       \* history: the last report was sent to an idle endpoint
                \* and nothing but its own transfer happened to it since
    times,      \* history: how often the host took the last report, up to 2
    revived     \* history: the thread has written RB_UEP_AUTO_TOG back after
                \* the bus reset that cleared it

vars == <<ctrl, t_len, buf, tpc, copy, hit, sent, report, flag, packet, host, calm,
          times, revived>>

REPORT_SIZE == 8
LED_SIZE == 1

\* no report has these numbers
Echo == MaxReports + 1      \* the complement of the LEDs
Nothing == MaxReports + 2   \* beyond the end of a short packet
Cleared == MaxReports + 3   \* the empty report of clear_keyboard

None == [tog |-> 2, len |-> 0, mods |-> Nothing]

Whole(n) == [mods |-> n, keys |-> n]
Flip(tog) == 1 - tog

Idle == ctrl.t_res = "NAK" /\ flag = "none" /\ packet = None

\* a report sent now finds the endpoint idle
Calm == Idle /\ host.up /\ ~revived

(* USB_DeviceInit; the host does not talk to endpoint 1 before a bus reset *)
Init ==
    /\ ctrl = [r_tog |-> 0, t_tog |-> 0, r_res |-> "ACK", t_res |-> "NAK", auto |-> TRUE]
    /\ t_len = 0
    /\ buf = Whole(0)
    /\ tpc = "idle"
    /\ copy = ctrl
    /\ hit = FALSE
    /\ sent = 0 /\ report = 0
    /\ flag = "none"
    /\ packet = None
    /\ host = [up |-> FALSE, in |-> 0, out |-> 0, got |-> Whole(0)]
    /\ calm = FALSE
    /\ times = 0
    /\ revived = FALSE

-----------------------------------------------------------------------------
(* The keyboard thread: usb_send_key(0, 8, report), DevEP1_IN_Deal(8)      *)

CopyMods ==
    /\ tpc = "idle" /\ sent < MaxReports
    /\ sent' = sent + 1 /\ report' = sent + 1
    /\ buf' = [buf EXCEPT !.mods = sent + 1]
    /\ tpc' = "copied mods"
    /\ calm' = Calm
    /\ times' = 0
    /\ UNCHANGED <<ctrl, t_len, copy, hit, flag, packet, host, revived>>

\* a word that memcpy loaded before the keyboard was cleared is stored after it
CopyKeys ==
    /\ tpc = "copied mods"
    /\ \E keys \in {sent, report} : buf' = [buf EXCEPT !.keys = keys]
    /\ tpc' = "copied"
    /\ UNCHANGED <<ctrl, t_len, copy, hit, sent, report, flag, packet, host, calm, times,
                   revived>>

SetLen ==
    /\ tpc = "copied"
    /\ t_len' = REPORT_SIZE
    /\ tpc' = "sized"
    /\ UNCHANGED <<ctrl, buf, copy, hit, sent, report, flag, packet, host, calm, times,
                   revived>>

ReadCtrl ==
    /\ tpc = "sized"
    /\ copy' = ctrl
    /\ hit' = FALSE
    /\ tpc' = "read"
    /\ UNCHANGED <<ctrl, t_len, buf, sent, report, flag, packet, host, calm, times,
                   revived>>

\* mutant: the response bits are not set
WriteCtrl_NotArmed ==
    /\ tpc = "read"
    /\ ctrl' = copy
    /\ revived' = (revived \/ (copy.auto /\ ~ctrl.auto))
    /\ tpc' = "idle"
    /\ UNCHANGED <<t_len, buf, copy, hit, sent, report, flag, packet, host, calm, times>>

WriteCtrl ==
    /\ tpc = "read"
    /\ ctrl' = [copy EXCEPT !.t_res = "ACK"]
    /\ revived' = (revived \/ (copy.auto /\ ~ctrl.auto))
    /\ tpc' = "idle"
    /\ UNCHANGED <<t_len, buf, copy, hit, sent, report, flag, packet, host, calm, times>>

Thread == CopyKeys \/ SetLen \/ ReadCtrl \/ WriteCtrl

-----------------------------------------------------------------------------
(* The host and the controller                                             *)

Ready == host.up /\ flag = "none" /\ packet = None

\* the token and the first byte of an input packet
BeginIn ==
    /\ Ready /\ ctrl.t_res = "ACK"
    /\ packet' = [tog |-> ctrl.t_tog, len |-> t_len, mods |-> buf.mods]
    /\ UNCHANGED <<ctrl, t_len, buf, tpc, copy, hit, sent, report, flag, host, calm,
                   times, revived>>

\* the rest of the packet, which the host takes or drops
Received ==
    [mods |-> packet.mods,
     keys |-> IF packet.len = REPORT_SIZE THEN buf.keys ELSE Nothing]

Take ==
    IF packet.tog = host.in
    THEN /\ host' = [host EXCEPT !.in = Flip(@), !.got = Received]
         /\ times' = IF Received = Whole(report) /\ times < 2 THEN times + 1 ELSE times
    ELSE UNCHANGED <<host, times>>

EndIn ==
    /\ packet # None
    /\ Take
    /\ packet' = None
    /\ flag' = "in"
    /\ ctrl' = IF ctrl.auto THEN [ctrl EXCEPT !.t_tog = Flip(@)] ELSE ctrl
    /\ UNCHANGED <<t_len, buf, tpc, copy, hit, sent, report, calm, revived>>

\* the acknowledgement is lost: the controller repeats the packet
EndInUnheard ==
    /\ packet # None
    /\ Take
    /\ packet' = None
    /\ UNCHANGED <<ctrl, t_len, buf, tpc, copy, hit, sent, report, flag, calm, revived>>

\* an output report; its packet may be a repetition for the device
Out ==
    /\ Ready /\ ctrl.r_res = "ACK"
    /\ flag' = IF ctrl.r_tog = host.out THEN "out" ELSE "repeated out"
    /\ host' = [host EXCEPT !.out = Flip(@)]
    /\ ctrl' = IF ctrl.auto THEN [ctrl EXCEPT !.r_tog = Flip(@)] ELSE ctrl
    /\ UNCHANGED <<t_len, buf, tpc, copy, hit, sent, report, packet, calm, times,
                   revived>>

-----------------------------------------------------------------------------
(* The interrupt.  It does not run between two of its own statements.      *)

Window ==
    /\ tpc = "read" => ~hit
    /\ hit' = (tpc = "read")

\* mutant: the endpoint stays armed
InterruptIn_StaysArmed ==
    /\ Window
    /\ flag = "in"
    /\ ctrl' = [ctrl EXCEPT !.t_tog = Flip(@)]
    /\ flag' = "none"
    /\ UNCHANGED <<t_len, buf, tpc, copy, sent, report, packet, host, calm, times,
                   revived>>

InterruptIn ==
    /\ Window
    /\ flag = "in"
    /\ ctrl' = [ctrl EXCEPT !.t_tog = Flip(@), !.t_res = "NAK"]
    /\ flag' = "none"
    /\ UNCHANGED <<t_len, buf, tpc, copy, sent, report, packet, host, calm, times,
                   revived>>

\* DevEP1_OUT_Deal(1)
InterruptOut ==
    /\ Window
    /\ flag = "out"
    /\ buf' = [buf EXCEPT !.mods = Echo]
    /\ t_len' = LED_SIZE
    /\ ctrl' = [ctrl EXCEPT !.r_tog = Flip(@), !.t_res = "ACK"]
    /\ flag' = "none"
    /\ calm' = FALSE
    /\ UNCHANGED <<tpc, copy, sent, report, packet, host, times, revived>>

InterruptRepeatedOut ==
    /\ Window
    /\ flag = "repeated out"
    /\ flag' = "none"
    /\ UNCHANGED <<ctrl, t_len, buf, tpc, copy, sent, report, packet, host, calm,
                   times, revived>>

Interrupt == InterruptIn \/ InterruptOut \/ InterruptRepeatedOut

\* HID_CMD_ENTER_DFU on endpoint 3: clear_keyboard, which empties keyboard_report,
\* and usb_send_key(0, 8, report).  The thread may still store a word it has loaded.
InterruptClear ==
    /\ Window
    /\ Ready
    /\ report' = Cleared
    /\ \E mods \in {Cleared} \cup (IF tpc = "copied mods" THEN {sent} ELSE {}) :
          buf' = [mods |-> mods, keys |-> Cleared]
    /\ t_len' = REPORT_SIZE
    /\ ctrl' = [ctrl EXCEPT !.t_res = "ACK"]
    /\ calm' = (Calm /\ tpc = "idle")
    /\ times' = 0
    /\ UNCHANGED <<tpc, copy, sent, flag, packet, host, revived>>

\* the host resets the bus and configures the device again
BusReset ==
    /\ Window
    /\ flag = "none" /\ packet = None
    /\ ctrl' = [r_tog |-> 0, t_tog |-> 0, r_res |-> "ACK", t_res |-> "NAK", auto |-> FALSE]
    /\ host' = [host EXCEPT !.up = TRUE, !.in = 0, !.out = 0]
    /\ calm' = FALSE /\ revived' = FALSE
    /\ UNCHANGED <<t_len, buf, tpc, copy, sent, report, flag, packet, times>>

\* mutant: the halt is taken back, the toggle is not
ClearHaltIn_KeepsToggle ==
    /\ Window
    /\ Ready
    /\ ctrl' = [ctrl EXCEPT !.t_res = "NAK"]
    /\ host' = [host EXCEPT !.in = 0]
    /\ calm' = FALSE
    /\ UNCHANGED <<t_len, buf, tpc, copy, sent, report, flag, packet, times, revived>>

\* CLEAR_FEATURE(ENDPOINT_HALT) of 0x81, after which both toggles are 0
ClearHaltIn ==
    /\ Window
    /\ Ready
    /\ ctrl' = [ctrl EXCEPT !.t_tog = 0, !.t_res = "NAK"]
    /\ host' = [host EXCEPT !.in = 0]
    /\ calm' = FALSE
    /\ UNCHANGED <<t_len, buf, tpc, copy, sent, report, flag, packet, times, revived>>

\* of 0x01
ClearHaltOut ==
    /\ Window
    /\ Ready
    /\ ctrl' = [ctrl EXCEPT !.r_tog = 0, !.r_res = "ACK"]
    /\ host' = [host EXCEPT !.out = 0]
    /\ calm' = (calm /\ tpc = "idle")
    /\ UNCHANGED <<t_len, buf, tpc, copy, sent, report, flag, packet, times, revived>>

\* SET_FEATURE(ENDPOINT_HALT)
SetHaltIn ==
    /\ Window
    /\ Ready
    /\ ctrl' = [ctrl EXCEPT !.t_tog = 0, !.t_res = "STALL"]
    /\ calm' = FALSE
    /\ UNCHANGED <<t_len, buf, tpc, copy, sent, report, flag, packet, host, times,
                   revived>>

SetHaltOut ==
    /\ Window
    /\ Ready
    /\ ctrl' = [ctrl EXCEPT !.r_tog = 0, !.r_res = "STALL"]
    /\ calm' = (calm /\ tpc = "idle")
    /\ UNCHANGED <<t_len, buf, tpc, copy, sent, report, flag, packet, host, times,
                   revived>>

-----------------------------------------------------------------------------
Next ==
    \/ CopyMods \/ CopyKeys \/ SetLen \/ ReadCtrl \/ WriteCtrl
    \/ BeginIn \/ EndIn \/ EndInUnheard \/ Out
    \/ InterruptIn \/ InterruptOut \/ InterruptRepeatedOut \/ InterruptClear
    \/ BusReset \/ ClearHaltIn \/ ClearHaltOut \/ SetHaltIn \/ SetHaltOut

Spec == Init /\ [][Next]_vars

FairSpec ==
    /\ Spec
    /\ WF_vars(Thread) /\ WF_vars(Interrupt)
    /\ WF_vars(BeginIn) /\ WF_vars(EndIn \/ EndInUnheard)

-----------------------------------------------------------------------------
Registers ==
    [r_tog : {0, 1}, t_tog : {0, 1}, r_res : {"ACK", "STALL"},
     t_res : {"ACK", "NAK", "STALL"}, auto : BOOLEAN]

Lengths == {0, LED_SIZE, REPORT_SIZE}
Reports == (0 .. sent) \cup {Cleared}
Buffers == [mods : Reports \cup {Echo}, keys : Reports]
Packets == {None} \cup [tog : {0, 1}, len : Lengths, mods : Reports \cup {Echo}]
Hosts ==
    [up : BOOLEAN, in : {0, 1}, out : {0, 1},
     got : [mods : Reports \cup {Echo}, keys : Reports \cup {Nothing}]]

TypeOK ==
    /\ ctrl \in Registers /\ copy \in Registers
    /\ t_len \in Lengths
    /\ sent \in 0 .. MaxReports
    /\ buf \in Buffers
    /\ tpc \in {"idle", "copied mods", "copied", "sized", "read"}
    /\ flag \in {"none", "in", "out", "repeated out"}
    /\ packet \in Packets
    /\ host \in Hosts
    /\ report \in Reports
    /\ hit \in BOOLEAN /\ calm \in BOOLEAN /\ times \in 0 .. 2
    /\ revived \in BOOLEAN

(* Whatever was lost, repeated or overwritten, once the endpoint is idle   *)
(* again the controller will send the next packet with the toggle the host *)
(* expects (usbuser1.c:109-111, 331, 346), so that no confusion outlasts   *)
(* one packet; for which the bus reset must have cleared RB_UEP_AUTO_TOG   *)
(* (usbuser1.c:497) and the thread must not have written it back.          *)
TogglesAgree ==
    Idle /\ host.up /\ ~revived => ctrl.t_tog = host.in

(* A report sent to an idle endpoint, by the thread or by clear_keyboard   *)
(* in the interrupt, reaches the host whole and exactly once, also when    *)
(* acknowledgements are lost: the host has taken it once, or it is armed   *)
(* with the toggle the host expects.  Only reports that are sent before    *)
(* the last one was acknowledged, or that a reset, a halt, an output       *)
(* report or the next report of either sender falls upon, can be lost,     *)
(* doubled or torn (usbuser1.c:520-526, CH58x_usbdev.c:62-66).             *)
CalmExactlyOnce ==
    calm /\ tpc = "idle" =>
        \/ times = 1 /\ host.got = Whole(report)
        \/ /\ times = 0
           /\ ctrl.t_res = "ACK" /\ ctrl.t_tog = host.in
           /\ t_len = REPORT_SIZE /\ buf = Whole(report)

(* The host comes to see a report that was sent to an idle endpoint, if    *)
(* neither the thread nor clear_keyboard sends another one before.         *)
CalmSeen ==
    calm /\ tpc = "idle" ~> host.got = Whole(report) \/ ~calm \/ tpc # "idle"
=============================================================================
