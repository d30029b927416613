------------------------------ MODULE UsbControl ------------------------------
(***************************************************************************)
(* Control transfers on endpoint 0: the SETUP, IN and OUT cases of         *)
(* USB_DevTransProcess (DRIVERS/USB/usbuser1.c) and the host they serve.   *)
(*                                                                         *)
(* The interrupt prepares the first packet of an answer when it handles    *)
(* the SETUP and each further one when the host has acknowledged the last, *)
(* from SetupReqCode, SetupReqLen and pDescr.  The host may lose an        *)
(* acknowledgement, drop a transfer for another SETUP, or reset the bus.   *)
(* Only it starts transfers, so a step of it is followed by the interrupt. *)
(*                                                                         *)
(* A byte is <<descriptor, index>> or <<"value", number>>; what is in the  *)
(* buffer beyond the length of the packet is not seen.  Of the other      *)
(* endpoints the halts are modelled here, their transfers in UsbEndpoint:  *)
(* of the thread, which sends, its read and its write of R8_UEP1_CTRL.     *)
(***************************************************************************)
EXTENDS Naturals, Sequences

CONSTANTS
    DevEP0SIZE,     \* 64
    DescLen,        \* the length of each descriptor the host knows
    AskedLengths,   \* bound: the values of wLength
    Recipients,     \* bound: what the host sets and clears features of
    Written,        \* bound: the values the host changes
    Values          \* bound: what it changes them to

ASSUME ControlAssumption ==
    /\ DevEP0SIZE \in Nat \ {0}
    /\ AskedLengths \subseteq Nat \ {0}
    /\ Recipients \subseteq {"device", "in", "out"}
    /\ Values \subseteq Nat /\ 0 \in Values
    /\ Written \subseteq {"SET_ADDRESS", "SET_CONFIGURATION", "SET_IDLE", "SET_PROTOCOL"}
    /\ \A d \in DOMAIN DescLen : DescLen[d] \in Nat \ {0}

VARIABLES
    SetupReqCode, SetupReqLen,
    pDescr,             \* [desc, at]: what is left of the descriptor
    ep0,                \* R8_UEP0_CTRL, R8_UEP0_T_LEN and the data buffer
    address,            \* R8_USB_DEV_AD
    vals,               \* DevConfig, Idle_Value, Report_Value, USB_SleepStatus
    halted,             \* the halts in R8_UEP1_CTRL, by direction
    arming,             \* {h} while the thread has read halts h, to write back, or {}
    undone,             \* history: a write of the thread undid what was last asked of 0x01
    flag,               \* the interrupt that is pending
    host,               \* the transfer of the host, and the address it uses
    known               \* history: the last value the host has set

vars == <<SetupReqCode, SetupReqLen, pDescr, ep0, address, vals, halted, arming,
          undone, flag, host, known>>
thread == <<arming, undone>>
device == <<SetupReqCode, SetupReqLen, pDescr, ep0, address, vals, halted, thread>>

-----------------------------------------------------------------------------
(* The requests.  what is the recipient of a feature or status request,    *)
(* or the descriptor asked for.                                            *)

Get == {"GET_DESCRIPTOR", "GET_CONFIGURATION", "GET_INTERFACE", "GET_STATUS",
        "GET_IDLE", "GET_PROTOCOL"}

Features == [code : {"SET_FEATURE", "CLEAR_FEATURE"}, what : Recipients,
             val : {1}, len : {0}]

Sets == [code : Written, what : {""}, val : Values, len : {0}]

\* what the device sends for each descriptor it can be asked for; strings by index
Descriptor ==
    [device |-> "device", config |-> "config", report |-> "report",
     string0 |-> "serial", string1 |-> "manufacturer", string2 |-> "product"]

Descriptors == [code : {"GET_DESCRIPTOR"},
                what : {d \in DOMAIN Descriptor : Descriptor[d] \in DOMAIN DescLen},
                val : {0}, len : AskedLengths]

Others ==
    [code : {"GET_CONFIGURATION", "GET_INTERFACE", "GET_IDLE", "GET_PROTOCOL", "SET_REPORT"},
     what : {""}, val : {0}, len : {1}]
    \cup [code : {"SET_INTERFACE"}, what : {""}, val : {0}, len : {0}]
    \cup [code : {"GET_STATUS"}, what : {"device", "in", "out"}, val : {1}, len : {2}]

Unsupported ==
    [code : {"GET_DESCRIPTOR"}, what : {"string3"}, val : {0}, len : {2}]
    \cup [code : {"CLEAR_FEATURE"}, what : {"interface"}, val : {1}, len : {0}]
    \cup [code : {"GET_REPORT", "SYNCH_FRAME"}, what : {""}, val : {0}, len : {2}]

Requests == Features \cup Sets \cup Descriptors \cup Others \cup Unsupported

\* bRequest: standard and class requests share their numbers in SetupReqCode
bRequest(code) ==
    CASE code = "GET_STATUS" -> 0
      [] code \in {"CLEAR_FEATURE", "GET_REPORT"} -> 1
      [] code = "GET_IDLE" -> 2
      [] code \in {"SET_FEATURE", "GET_PROTOCOL"} -> 3
      [] code = "SET_ADDRESS" -> 5
      [] code = "GET_DESCRIPTOR" -> 6
      [] code = "GET_CONFIGURATION" -> 8
      [] code \in {"SET_CONFIGURATION", "SET_REPORT"} -> 9
      [] code \in {"GET_INTERFACE", "SET_IDLE"} -> 10
      [] code \in {"SET_INTERFACE", "SET_PROTOCOL"} -> 11
      [] code = "SYNCH_FRAME" -> 12

Least(a, b) == IF a < b THEN a ELSE b
Flip(tog) == 1 - tog

Piece(desc, at, n) == [i \in 1 .. n |-> <<desc, at + i>>]
Value(v) == <<"value", v>>

Nothing == [desc |-> "", at |-> 0]

\* a slot of the history
NoValue == [item |-> "", val |-> 0]

NoRequest == [code |-> "", what |-> "", val |-> 0, len |-> 0]

NoTransfer == [stage |-> "idle", req |-> NoRequest, rx |-> <<>>,
               tog |-> 1, result |-> ""]

Init ==
    /\ SetupReqCode = 0 /\ SetupReqLen = 0
    /\ pDescr = Nothing
    /\ ep0 = [t_res |-> "NAK", r_res |-> "ACK", tog |-> 0, len |-> 0, data |-> <<>>]
    /\ address = 0
    /\ vals = [config |-> 0, idle |-> 0, protocol |-> 0, sleep |-> 0]
    /\ halted = {} /\ arming = {} /\ undone = FALSE
    /\ flag = "none"
    /\ host = [at |-> 0, transfer |-> NoTransfer]
    /\ known = NoValue

-----------------------------------------------------------------------------
(* The interrupt: SETUP                                                    *)

req == host.transfer.req

\* the end of the handler: STALL, or ACK with the first packet of n bytes
Stall(n) ==
    /\ SetupReqLen' = n
    /\ ep0' = [ep0 EXCEPT !.t_res = "STALL", !.r_res = "STALL", !.tog = 1, !.data = <<>>]

Answer(n, data) ==
    LET len == IF req.code \in Get THEN Least(n, DevEP0SIZE) ELSE 0
    IN  /\ SetupReqLen' = n - len
        /\ ep0' = [t_res |-> "ACK", r_res |-> "ACK", tog |-> 1, len |-> len, data |-> data]

SetupStart == flag = "setup" /\ flag' = "none" /\ SetupReqCode' = bRequest(req.code)

SetupDescriptor ==
    /\ SetupStart
    /\ req.code = "GET_DESCRIPTOR" /\ req.what \in DOMAIN Descriptor
    /\ LET desc == Descriptor[req.what]
           all == Least(req.len, DescLen[desc])
           len == Least(all, DevEP0SIZE)
       IN  /\ pDescr' = [desc |-> desc, at |-> len]
           /\ Answer(all, Piece(desc, 0, len))
    /\ UNCHANGED <<address, vals, halted, thread, host, known>>

SetupUnsupported ==
    /\ SetupStart
    /\ req \in Unsupported
    /\ Stall(IF req.code = "GET_DESCRIPTOR" THEN 0 ELSE req.len)
    /\ UNCHANGED <<pDescr, address, vals, halted, thread, host, known>>

\* mutant: the address is taken before the status stage
SetupAddress_AtOnce ==
    /\ SetupStart
    /\ req.code = "SET_ADDRESS"
    /\ Answer(req.val, <<>>)
    /\ address' = req.val
    /\ UNCHANGED <<pDescr, vals, halted, thread, host, known>>

\* the address waits in SetupReqLen for the status stage
SetupAddress ==
    /\ SetupStart
    /\ req.code = "SET_ADDRESS"
    /\ Answer(req.val, <<>>)
    /\ UNCHANGED <<pDescr, address, vals, halted, thread, host, known>>

\* mutant: SET_PROTOCOL stores what it is given as the idle rate
SetupSet_Mixed ==
    /\ SetupStart
    /\ req.code \in {"SET_CONFIGURATION", "SET_IDLE", "SET_PROTOCOL",
                     "SET_INTERFACE", "SET_REPORT"}
    /\ Answer(req.len, <<>>)
    /\ vals' = CASE req.code = "SET_CONFIGURATION" -> [vals EXCEPT !.config = req.val]
                 [] req.code \in {"SET_IDLE", "SET_PROTOCOL"} ->
                       [vals EXCEPT !.idle = req.val]
                 [] OTHER                          -> vals
    /\ UNCHANGED <<pDescr, address, halted, thread, host, known>>

SetupSet ==
    /\ SetupStart
    /\ req.code \in {"SET_CONFIGURATION", "SET_IDLE", "SET_PROTOCOL",
                     "SET_INTERFACE", "SET_REPORT"}
    /\ Answer(req.len, <<>>)
    /\ vals' = CASE req.code = "SET_CONFIGURATION" -> [vals EXCEPT !.config = req.val]
                 [] req.code = "SET_IDLE"          -> [vals EXCEPT !.idle = req.val]
                 [] req.code = "SET_PROTOCOL"      -> [vals EXCEPT !.protocol = req.val]
                 [] OTHER                          -> vals
    /\ UNCHANGED <<pDescr, address, halted, thread, host, known>>

\* mutant: the output endpoint falls through to the error
SetupFeature_InputOnly ==
    /\ SetupStart
    /\ req \in Features
    /\ IF req.what = "out" THEN Stall(req.len) ELSE Answer(req.len, <<>>)
    /\ vals' = IF req.what # "device" THEN vals
               ELSE [vals EXCEPT !.sleep = IF req.code = "SET_FEATURE" THEN 1 ELSE 0]
    /\ halted' = IF req.code = "SET_FEATURE" THEN halted \cup ({req.what} \cap {"in"})
                 ELSE halted \ ({req.what} \cap {"in"})
    /\ undone' = (undone /\ req.what # "out")
    /\ UNCHANGED <<pDescr, address, arming, host, known>>

SetupFeature ==
    /\ SetupStart
    /\ req \in Features
    /\ Answer(req.len, <<>>)
    /\ vals' = IF req.what # "device" THEN vals
               ELSE [vals EXCEPT !.sleep = IF req.code = "SET_FEATURE" THEN 1 ELSE 0]
    /\ halted' = IF req.code = "SET_FEATURE" THEN halted \cup ({req.what} \ {"device"})
                 ELSE halted \ {req.what}
    /\ undone' = (undone /\ req.what # "out")
    /\ UNCHANGED <<pDescr, address, arming, host, known>>

SetupGet ==
    /\ SetupStart
    /\ req.code \in Get \ {"GET_DESCRIPTOR"}
    /\ LET value == CASE req.code = "GET_CONFIGURATION" -> vals.config
                      [] req.code = "GET_IDLE"          -> vals.idle
                      [] req.code = "GET_PROTOCOL"      -> vals.protocol
                      [] req.code = "GET_INTERFACE"     -> 0
                      [] req.code = "GET_STATUS"        ->
                            IF req.what = "device" THEN 2 * vals.sleep
                            ELSE IF req.what \in halted THEN 1 ELSE 0
       IN  Answer(req.len, SubSeq(<<Value(value), Value(0)>>, 1, req.len))
    /\ UNCHANGED <<pDescr, address, vals, halted, thread, host, known>>

-----------------------------------------------------------------------------
(* The interrupt: the host has acknowledged an input packet, or sent one   *)

InStart == flag = "in" /\ flag' = "none"

\* mutant: pDescr is not moved on
InDescriptor_Again ==
    /\ InStart /\ SetupReqCode = bRequest("GET_DESCRIPTOR")
    /\ LET len == Least(SetupReqLen, DevEP0SIZE)
       IN  /\ ep0' = [ep0 EXCEPT !.data = Piece(pDescr.desc, pDescr.at, len),
                                 !.len = len, !.tog = Flip(@)]
           /\ SetupReqLen' = SetupReqLen - len
    /\ UNCHANGED <<SetupReqCode, pDescr, address, vals, halted, thread, host, known>>

\* mutant: the toggle is left alone
InDescriptor_NoToggle ==
    /\ InStart /\ SetupReqCode = bRequest("GET_DESCRIPTOR")
    /\ LET len == Least(SetupReqLen, DevEP0SIZE)
       IN  /\ ep0' = [ep0 EXCEPT !.data = Piece(pDescr.desc, pDescr.at, len), !.len = len]
           /\ SetupReqLen' = SetupReqLen - len
           /\ pDescr' = [pDescr EXCEPT !.at = @ + len]
    /\ UNCHANGED <<SetupReqCode, address, vals, halted, thread, host, known>>

InDescriptor ==
    /\ InStart /\ SetupReqCode = bRequest("GET_DESCRIPTOR")
    /\ LET len == Least(SetupReqLen, DevEP0SIZE)
       IN  /\ ep0' = [ep0 EXCEPT !.data = Piece(pDescr.desc, pDescr.at, len),
                                 !.len = len, !.tog = Flip(@)]
           /\ SetupReqLen' = SetupReqLen - len
           /\ pDescr' = [pDescr EXCEPT !.at = @ + len]
    /\ UNCHANGED <<SetupReqCode, address, vals, halted, thread, host, known>>

InAddress ==
    /\ InStart /\ SetupReqCode = bRequest("SET_ADDRESS")
    /\ address' = SetupReqLen
    /\ ep0' = [ep0 EXCEPT !.t_res = "NAK", !.r_res = "ACK", !.tog = 0]
    /\ UNCHANGED <<SetupReqCode, SetupReqLen, pDescr, vals, halted, thread, host, known>>

InFeature ==
    /\ InStart /\ SetupReqCode = bRequest("SET_FEATURE")
    /\ UNCHANGED <<device, host, known>>

InOther ==
    /\ InStart
    /\ SetupReqCode \notin {bRequest("GET_DESCRIPTOR"), bRequest("SET_ADDRESS"),
                            bRequest("SET_FEATURE")}
    /\ ep0' = [ep0 EXCEPT !.t_res = "NAK", !.r_res = "ACK", !.tog = 0,
                        !.len = 0, !.data = <<>>]
    /\ UNCHANGED <<SetupReqCode, SetupReqLen, pDescr, address, vals, halted, thread, host, known>>

InterruptOut ==
    /\ flag = "out" /\ flag' = "none"
    /\ UNCHANGED <<device, host, known>>

Interrupt ==
    \/ SetupDescriptor \/ SetupUnsupported \/ SetupAddress \/ SetupSet
    \/ SetupFeature \/ SetupGet
    \/ InDescriptor \/ InAddress \/ InFeature \/ InOther \/ InterruptOut

-----------------------------------------------------------------------------
(* The host                                                                *)

Ready == flag = "none" /\ address = host.at

Stage == host.transfer.stage

\* what a request sets, and what a request asks for.  The halt of the input
\* endpoint is no such value: every write of the thread ends it.
SetItem(r) ==
    CASE r.code = "SET_CONFIGURATION" -> [item |-> "config", val |-> r.val]
      [] r.code = "SET_IDLE"          -> [item |-> "idle", val |-> r.val]
      [] r.code = "SET_PROTOCOL"      -> [item |-> "protocol", val |-> r.val]
      [] r.code = "CLEAR_FEATURE" /\ r \in Features -> [item |-> r.what, val |-> 0]
      [] r.code = "SET_FEATURE" /\ r.what = "device" -> [item |-> r.what, val |-> 2]
      [] r.code = "SET_FEATURE" /\ r.what = "out"    -> [item |-> r.what, val |-> 1]
      [] OTHER -> NoValue

AskedItem(r) ==
    CASE r.code = "GET_CONFIGURATION" -> "config"
      [] r.code = "GET_IDLE"          -> "idle"
      [] r.code = "GET_PROTOCOL"      -> "protocol"
      [] r.code = "GET_STATUS"        -> r.what
      [] OTHER                        -> "?"

FirstStage(r) ==
    CASE r.code \in Get \cup {"GET_REPORT", "SYNCH_FRAME"} -> "data"
      [] r.code = "SET_REPORT"                             -> "out"
      [] OTHER                                             -> "status in"

\* a SETUP, which may also end the transfer before it
Setup(r) ==
    /\ Ready
    /\ host' = [host EXCEPT !.transfer =
                   [NoTransfer EXCEPT !.stage = FirstStage(r), !.req = r]]
    /\ flag' = "setup"
    /\ known' = IF \/ SetItem(r).item = known.item
                   \/ r \in Features /\ r.what = known.item
                THEN NoValue ELSE known
    /\ UNCHANGED device


\* a packet of the data stage; one with the other toggle is a repetition
AfterPacket ==
    IF ep0.tog # host.transfer.tog THEN host
    ELSE LET rx == host.transfer.rx \o SubSeq(ep0.data, 1, ep0.len)
         IN  [host EXCEPT !.transfer.rx = rx, !.transfer.tog = Flip(@),
                          !.transfer.stage = IF ep0.len < DevEP0SIZE \/ Len(rx) >= req.len
                                             THEN "status out" ELSE "data"]

DataIn ==
    /\ Ready /\ Stage = "data" /\ ep0.t_res = "ACK"
    /\ host' = AfterPacket
    /\ flag' = "in"
    /\ UNCHANGED <<device, known>>

\* the acknowledgement is lost
DataInUnheard ==
    /\ Ready /\ Stage = "data" /\ ep0.t_res = "ACK"
    /\ host' = AfterPacket
    /\ UNCHANGED <<device, flag, known>>

Finish(result) ==
    host' = [host EXCEPT !.transfer = [NoTransfer EXCEPT !.req = req, !.result = result],
                         !.at = IF result = "ok" /\ req.code = "SET_ADDRESS"
                                THEN req.val ELSE @]

StatusOut ==
    /\ Ready /\ Stage = "status out" /\ ep0.r_res = "ACK"
    /\ Finish("ok")
    /\ flag' = "out"
    /\ UNCHANGED <<device, known>>

DataOut ==
    /\ Ready /\ Stage = "out" /\ ep0.r_res = "ACK"
    /\ host' = [host EXCEPT !.transfer.stage = "status in"]
    /\ flag' = "out"
    /\ UNCHANGED <<device, known>>

StatusIn ==
    /\ Ready /\ Stage = "status in" /\ ep0.t_res = "ACK" /\ ep0.len = 0 /\ ep0.tog = 1
    /\ Finish("ok")
    /\ flag' = "in"
    /\ known' = IF SetItem(req) = NoValue THEN known ELSE SetItem(req)
    /\ UNCHANGED device

StatusInUnheard ==
    /\ Ready /\ Stage = "status in" /\ ep0.t_res = "ACK" /\ ep0.len = 0 /\ ep0.tog = 1
    /\ req.code # "SET_ADDRESS"
    /\ Finish("ok")
    /\ known' = IF SetItem(req) = NoValue THEN known ELSE SetItem(req)
    /\ UNCHANGED <<device, flag>>

SeesStall ==
    /\ Ready /\ Stage \in {"data", "out", "status in"} /\ ep0.t_res = "STALL"
    /\ Finish("stall")
    /\ UNCHANGED <<device, flag, known>>

(* The keyboard thread arms the endpoint (DevEP1_IN_Deal): it reads the     *)
(* register and writes it back with the response to IN changed.  What the  *)
(* interrupt does to the halts in between is lost.  The thread takes any    *)
(* time; clear_keyboard in the interrupt is a read with the write at once. *)

ThreadReads ==
    /\ arming = {}
    /\ arming' = {halted \ {"in"}}
    /\ UNCHANGED <<SetupReqCode, SetupReqLen, pDescr, ep0, address, vals, halted,
                   undone, flag, host, known>>

ThreadWrites ==
    /\ \E copy \in arming :
          /\ halted' = copy
          /\ undone' = (undone \/ ("out" \in copy) # ("out" \in halted))
    /\ arming' = {}
    /\ UNCHANGED <<SetupReqCode, SetupReqLen, pDescr, ep0, address, vals, flag,
                   host, known>>

BusReset ==
    /\ flag = "none"
    /\ address' = 0
    /\ ep0' = [ep0 EXCEPT !.t_res = "NAK", !.r_res = "ACK", !.tog = 0]
    /\ halted' = {} /\ undone' = FALSE
    /\ host' = [at |-> 0, transfer |-> NoTransfer]
    /\ known' = NoValue
    /\ UNCHANGED <<SetupReqCode, SetupReqLen, pDescr, vals, arming, flag>>

HostGoesOn == DataIn \/ DataInUnheard \/ StatusOut \/ DataOut \/ StatusIn
              \/ StatusInUnheard \/ SeesStall

Next ==
    \/ \E r \in Requests : Setup(r)
    \/ DataIn \/ DataInUnheard \/ StatusOut \/ DataOut \/ StatusIn \/ StatusInUnheard
    \/ SeesStall
    \/ ThreadReads \/ ThreadWrites \/ BusReset
    \/ SetupDescriptor \/ SetupUnsupported \/ SetupAddress \/ SetupSet
    \/ SetupFeature \/ SetupGet
    \/ InDescriptor \/ InAddress \/ InFeature \/ InOther \/ InterruptOut

Spec == Init /\ [][Next]_vars

FairSpec ==
    /\ Spec
    /\ WF_vars(Interrupt) /\ WF_vars(HostGoesOn)
    /\ SF_vars(DataIn)

-----------------------------------------------------------------------------
TypeOK ==
    /\ SetupReqCode \in 0 .. 12 /\ SetupReqLen \in Nat
    /\ pDescr.at \in Nat
    /\ ep0.t_res \in {"NAK", "ACK", "STALL"} /\ ep0.r_res \in {"ACK", "STALL"}
    /\ ep0.tog \in {0, 1} /\ ep0.len \in 0 .. DevEP0SIZE
    /\ address \in Values /\ host.at \in Values
    /\ vals \in [config : Values, idle : Values, protocol : Values, sleep : {0, 1}]
    /\ halted \subseteq {"in", "out"}
    /\ arming \subseteq SUBSET {"out"} /\ undone \in BOOLEAN
    /\ flag \in {"none", "setup", "in", "out"}
    /\ Stage \in {"idle", "data", "out", "status in", "status out"}

Received == Stage = "status out"

(* A host that asks for a descriptor gets that descriptor from its first   *)
(* byte, up to its end or to the length asked for, each byte once, whatever *)
(* transfer it dropped before and whichever packets were repeated.         *)
DescriptorWhole ==
    Received /\ req.code = "GET_DESCRIPTOR" =>
        LET desc == Descriptor[req.what]
        IN  host.transfer.rx = Piece(desc, 0, Least(req.len, DescLen[desc]))

(* The address changes after the status stage and not before: as long as   *)
(* no interrupt is pending, the device has the address the host uses.      *)
AddressAgrees == flag # "in" => address = host.at

(* A value the host has set is the value it gets when it asks for it,      *)
(* though GET_PROTOCOL shares its number with SET_FEATURE, and so on: all  *)
(* but a halt of 0x01 that a write of the thread has undone.               *)
ReadsBack ==
    /\ Received /\ known # NoValue /\ AskedItem(req) = known.item
    /\ ~(known.item = "out" /\ undone)
    => host.transfer.rx[1] = Value(known.val)

(* Only what the device does not support ends with a stall, and the stall  *)
(* of one transfer does not reach the next.                                *)
StallExact == host.transfer.result = "stall" => req \in Unsupported

(* A transfer the host goes on with comes to its end, whatever was left of *)
(* the one before, unless the host drops it for another.                   *)
TransfersEnd == Stage # "idle" ~> Stage = "idle" \/ flag = "setup"

(* "Index 0x00: LANGID Codes" (usbdesc.c:346): what the host gets when it  *)
(* asks for string 0 is the list of languages.                             *)
LanguageAtZero ==
    req.code = "GET_DESCRIPTOR" /\ req.what = "string0" =>
        \A i \in DOMAIN host.transfer.rx : host.transfer.rx[i][1] = "language"
=============================================================================
