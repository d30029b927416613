-------------------------- MODULE UsbEndpoint_proofs --------------------------
(***************************************************************************)
(* What TLC checks of UsbEndpoint for two reports, proved for any number   *)
(* of them: the endpoint never loses its step for longer than a packet,    *)
(* and delivers every report sent in calm exactly once.                    *)
(***************************************************************************)
EXTENDS UsbEndpoint, TLAPS

-----------------------------------------------------------------------------
(* The invariant                                                           *)

(* The registers, the packet on the bus and the host.  Without AUTO_TOG a  *)
(* packet has the toggle of the register; an acknowledged one leaves the   *)
(* register behind the host until the interrupt; and the thread writes     *)
(* back an outdated toggle only while the endpoint is not armed.           *)
InStep ==
    /\ packet # None => flag = "none" /\ ctrl.t_res = "ACK"
    /\ packet # None /\ ~ctrl.auto => ctrl.t_tog = packet.tog
    /\ flag = "in" /\ ~ctrl.auto => ctrl.t_tog # host.in
    /\ tpc = "read" /\ ctrl.auto => copy.auto
    /\ host.up /\ ctrl.auto => revived
    /\ tpc = "read" /\ ~copy.auto =>
          \/ copy.t_tog = ctrl.t_tog
          \/ hit /\ ctrl.t_res # "ACK" /\ flag # "in"
    /\ ctrl.t_res = "NAK" /\ flag # "in" /\ host.up /\ ~ctrl.auto =>
          ctrl.t_tog = host.in

(* A report sent in calm is being put into the buffer, with the endpoint   *)
(* at rest, or waits for the host, or has been taken.                      *)
Copying ==
    /\ times = 0 /\ ctrl.t_res = "NAK" /\ flag # "in"
    /\ report = sent /\ buf.mods = sent
    /\ tpc # "copied mods" => buf.keys = sent
    /\ tpc \in {"sized", "read"} => t_len = REPORT_SIZE
    /\ tpc = "read" => copy.t_tog = ctrl.t_tog /\ ~copy.auto

Offered ==
    /\ times = 0 /\ flag # "in"
    /\ ctrl.t_res = "ACK" /\ ctrl.t_tog = host.in
    /\ t_len = REPORT_SIZE /\ buf = Whole(report)
    /\ packet # None => packet.len = REPORT_SIZE /\ packet.mods = report

Taken ==
    /\ times = 1 /\ host.got = Whole(report)
    /\ ctrl.t_res = "ACK" => ctrl.t_tog # host.in

InCalm ==
    calm => /\ host.up /\ ~ctrl.auto
            /\ IF tpc = "idle" THEN Offered \/ Taken ELSE Copying

IInv == TypeOK /\ InStep /\ InCalm

-----------------------------------------------------------------------------
LEMMA Sizes ==
    /\ MaxReports \in Nat \ {0}
    /\ REPORT_SIZE = 8 /\ LED_SIZE = 1
    /\ Echo = MaxReports + 1 /\ Nothing = MaxReports + 2
    /\ Cleared = MaxReports + 3
    /\ None = [tog |-> 2, len |-> 0, mods |-> Nothing]
BY EndpointAssumption DEF REPORT_SIZE, LED_SIZE, Echo, Nothing, Cleared, None, EndpointAssumption

LEMMA Toggles ==
    ASSUME IInv
    PROVE  /\ ctrl \in Registers /\ copy \in Registers /\ host \in Hosts
           /\ ctrl.t_tog \in {0, 1} /\ ctrl.r_tog \in {0, 1}
           /\ host.in \in {0, 1} /\ host.out \in {0, 1}
<1>1. ctrl \in Registers /\ copy \in Registers /\ host \in Hosts
  BY DEF IInv, TypeOK
<1> QED  BY <1>1, Zenon DEF Registers, Hosts

LEMMA FlipBit == \A b \in {0, 1} : Flip(b) \in {0, 1} /\ Flip(b) # b
BY SMT DEF Flip

Gots == [mods : Reports \cup {Echo}, keys : Reports \cup {Nothing}]

(* The values the buffer gets.                                             *)
LEMMA BufferUpdates ==
    ASSUME NEW b \in Buffers
    PROVE  /\ \A n \in Reports \cup {Echo} :
                 LET c == [b EXCEPT !.mods = n]
                 IN  c \in Buffers /\ c.mods = n /\ c.keys = b.keys
           /\ \A n \in Reports :
                 LET c == [b EXCEPT !.keys = n]
                 IN  c \in Buffers /\ c.mods = b.mods /\ c.keys = n
           /\ b.mods \in Reports \cup {Echo} /\ b.keys \in Reports
           /\ \A n : b.mods = n /\ b.keys = n => b = Whole(n)
<1>1. \A n : b.mods = n /\ b.keys = n => b = Whole(n)
  BY SMT DEF Buffers, Whole
<1> QED  BY <1>1, Zenon DEF Buffers

(* As long as no report is sent, the values stay the same.                 *)
LEMMA SameSent ==
    ASSUME sent' = sent
    PROVE  /\ Reports' = Reports /\ Buffers' = Buffers /\ Packets' = Packets
           /\ Hosts' = Hosts
BY DEF Reports, Buffers, Packets, Hosts, Echo, Nothing, Cleared, None, Lengths,
       LED_SIZE, REPORT_SIZE

LEMMA IInvInit == Init => IInv
<1> SUFFICES ASSUME Init PROVE IInv
  OBVIOUS
<1>1. ctrl \in Registers /\ copy \in Registers /\ ctrl.t_res = "NAK" /\ ctrl.auto
  BY DEF Init, Registers
<1>2. sent = 0 /\ 0 \in Reports /\ report \in Reports /\ sent \in 0 .. MaxReports
  BY Sizes, SMT DEF Init, Reports
<1>3. Whole(0) \in Buffers /\ Whole(0) \in Gots
  BY <1>2, SMT DEF Buffers, Gots, Whole
<1>4. host \in Hosts
  BY <1>3, Zenon DEF Init, Hosts, Gots
<1>5. packet \in Packets /\ t_len \in Lengths
  BY Zenon DEF Init, Packets, Lengths
<1>6. times \in 0 .. 2
  BY SMT DEF Init
<1>7. TypeOK
  BY <1>1, <1>2, <1>3, <1>4, <1>5, <1>6, Zenon DEF Init, TypeOK
<1>8. InStep /\ InCalm
  BY <1>1, Zenon DEF Init, InStep, InCalm
<1> QED  BY <1>7, <1>8 DEF IInv

(* The steps of the thread.                                                *)
LEMMA CopyModsStep ==
    ASSUME IInv, CopyMods
    PROVE  IInv'
<1>1. sent' = sent + 1 /\ sent \in 0 .. MaxReports /\ sent < MaxReports
  BY DEF IInv, TypeOK, CopyMods
<1>2. sent' \in 0 .. MaxReports /\ sent' \in Reports' /\ Reports \subseteq Reports'
  BY <1>1, Sizes, SMT DEF Reports, Cleared
<1>3. Buffers \subseteq Buffers' /\ Packets \subseteq Packets' /\ Hosts \subseteq Hosts'
  BY <1>2, Zenon DEF Buffers, Packets, Hosts, Echo, Nothing, Cleared, None, Lengths, LED_SIZE, REPORT_SIZE
<1>4. buf' \in Buffers' /\ buf'.mods = sent'
  <2>1. buf \in Buffers' /\ buf' = [buf EXCEPT !.mods = sent']
    BY <1>1, <1>3 DEF IInv, TypeOK, CopyMods
  <2> QED  BY <1>2, <2>1, Zenon DEF Buffers
<1>5. packet' \in Packets' /\ host' \in Hosts'
  BY <1>3 DEF IInv, TypeOK, CopyMods
<1>6. calm' \in BOOLEAN
  <2>1. calm' = Calm /\ Calm \in BOOLEAN
    BY Zenon DEF CopyMods, Calm
  <2> QED  BY <2>1
<1>7. TypeOK'
  <2>1. times' \in 0 .. 2
    <3>1. times' = 0
      BY Zenon DEF CopyMods
    <3> QED  BY <3>1, SMT
  <2>2. t_len' \in Lengths' /\ tpc' = "copied mods" /\ flag' = flag /\ hit' = hit
    BY DEF IInv, TypeOK, CopyMods, Lengths, LED_SIZE, REPORT_SIZE
  <2>3. ctrl' \in Registers /\ copy' \in Registers
    BY DEF IInv, TypeOK, CopyMods
  <2>4. report' \in Reports' /\ revived' \in BOOLEAN
    BY <1>2 DEF IInv, TypeOK, CopyMods
  <2> QED  BY <1>2, <1>4, <1>5, <1>6, <2>1, <2>2, <2>3, <2>4, Zenon DEF IInv, TypeOK
<1>8. InStep'
  BY DEF IInv, InStep, CopyMods
<1>9. InCalm'
  BY <1>4 DEF IInv, InStep, InCalm, Copying, CopyMods, Calm, Idle
<1> QED  BY <1>7, <1>8, <1>9 DEF IInv

LEMMA CopyKeysStep ==
    ASSUME IInv, CopyKeys
    PROVE  IInv'
<1>1. sent \in Reports /\ report \in Reports
  <2>1. sent \in 0 .. MaxReports /\ report \in Reports
    BY DEF IInv, TypeOK
  <2> QED  BY <2>1, Sizes, SMT DEF Reports
<1>2. PICK keys \in {sent, report} : buf' = [buf EXCEPT !.keys = keys]
  BY DEF CopyKeys
<1>3. buf' \in Buffers /\ buf'.mods = buf.mods /\ buf'.keys = keys
  <2>1. keys \in Reports /\ buf \in Buffers
    BY <1>1, <1>2 DEF IInv, TypeOK
  <2> QED  BY <1>2, <2>1, BufferUpdates, Zenon
<1>4. TypeOK'
  BY <1>3, SameSent DEF IInv, TypeOK, CopyKeys
<1>5. InStep'
  BY DEF IInv, InStep, CopyKeys
<1>6. InCalm'
  BY <1>2, <1>3 DEF IInv, InCalm, Copying, CopyKeys
<1> QED  BY <1>4, <1>5, <1>6 DEF IInv

LEMMA SetLenStep ==
    ASSUME IInv, SetLen
    PROVE  IInv'
<1>1. TypeOK'
  BY SameSent DEF IInv, TypeOK, SetLen, Lengths
<1>2. InStep'
  BY DEF IInv, InStep, SetLen
<1>3. InCalm'
  BY DEF IInv, InCalm, Copying, SetLen
<1> QED  BY <1>1, <1>2, <1>3 DEF IInv

LEMMA ReadCtrlStep ==
    ASSUME IInv, ReadCtrl
    PROVE  IInv'
<1>1. TypeOK'
  BY SameSent DEF IInv, TypeOK, ReadCtrl
<1>2. InStep'
  BY DEF IInv, InStep, ReadCtrl
<1>3. InCalm'
  BY DEF IInv, InCalm, Copying, ReadCtrl
<1> QED  BY <1>1, <1>2, <1>3 DEF IInv

LEMMA WriteCtrlStep ==
    ASSUME IInv, WriteCtrl
    PROVE  IInv'
<1>1. /\ ctrl' \in Registers /\ ctrl'.t_res = "ACK"
      /\ ctrl'.t_tog = copy.t_tog /\ ctrl'.auto = copy.auto
  <2>1. copy \in Registers /\ ctrl' = [copy EXCEPT !.t_res = "ACK"]
    BY Toggles DEF WriteCtrl
  <2> QED  BY <2>1, Zenon DEF Registers
<1>2. TypeOK'
  BY <1>1, SameSent DEF IInv, TypeOK, WriteCtrl
<1>3. InStep'
  BY <1>1 DEF IInv, InStep, WriteCtrl
<1>4. InCalm'
  <2>1. SUFFICES ASSUME calm' PROVE host'.up /\ ~ctrl'.auto /\ Offered'
    BY DEF InCalm, WriteCtrl
  <2>2. buf = Whole(report)
    <3>1. buf \in Buffers /\ buf.mods = report /\ buf.keys = report
      BY <2>1 DEF IInv, TypeOK, InCalm, Copying, WriteCtrl
    <3> QED  BY <3>1, BufferUpdates, Zenon
  <2>3. packet = None
    BY <2>1 DEF IInv, InStep, InCalm, Copying, WriteCtrl
  <2> QED  BY <1>1, <2>1, <2>2, <2>3
           DEF IInv, InCalm, InStep, Copying, Offered, WriteCtrl, Whole
<1> QED  BY <1>2, <1>3, <1>4 DEF IInv

(* The steps of the bus.                                                   *)
LEMMA BeginInStep ==
    ASSUME IInv, BeginIn
    PROVE  IInv'
<1>1. /\ packet' \in Packets
      /\ packet'.tog = ctrl.t_tog /\ packet'.len = t_len /\ packet'.mods = buf.mods
  <2>1. ctrl.t_tog \in {0, 1} /\ t_len \in Lengths /\ buf.mods \in Reports \cup {Echo}
    BY Toggles, BufferUpdates DEF IInv, TypeOK
  <2> QED  BY <2>1, Zenon DEF BeginIn, Packets
<1>2. TypeOK'
  BY <1>1, SameSent DEF IInv, TypeOK, BeginIn
<1>3. InStep'
  BY <1>1 DEF IInv, InStep, BeginIn, Ready
<1>4. InCalm'
  <2>1. buf = Whole(report) => buf.mods = report
    BY DEF Whole
  <2>2. ~Copying /\ (Offered => Offered') /\ (Taken => Taken')
    BY <1>1, <2>1 DEF Copying, Offered, Taken, BeginIn, Ready, Whole
  <2> QED  BY <2>2 DEF IInv, InCalm, BeginIn
<1> QED  BY <1>2, <1>3, <1>4 DEF IInv

(* What the host takes.                                                    *)
LEMMA TakeValues ==
    ASSUME IInv, packet # None, Take
    PROVE  /\ host' \in Hosts /\ times' \in 0 .. 2
           /\ host'.up = host.up /\ host.in \in {0, 1}
           /\ packet.tog \in {0, 1}
           /\ packet.tog = host.in =>
                /\ host'.in # host.in /\ host'.got = Received
                /\ times' = IF Received = Whole(report) /\ times < 2
                            THEN times + 1 ELSE times
           /\ packet.tog # host.in => host' = host /\ times' = times
<1>1. packet.tog \in {0, 1} /\ packet.mods \in Reports \cup {Echo}
  BY Zenon DEF IInv, TypeOK, Packets
<1>2. Received \in Gots
  <2>1. buf.keys \in Reports
    BY BufferUpdates DEF IInv, TypeOK
  <2>2. (IF packet.len = REPORT_SIZE THEN buf.keys ELSE Nothing) \in Reports \cup {Nothing}
    BY <2>1
  <2> QED  BY <1>1, <2>2, Zenon DEF Received, Gots
<1>3. host \in Hosts /\ host.in \in {0, 1} /\ times \in 0 .. 2
  BY Toggles DEF IInv, TypeOK
<1>4. CASE packet.tog = host.in
  <2>1. Flip(host.in) \in {0, 1} /\ Flip(host.in) # host.in
    BY <1>3, FlipBit
  <2>2. host' = [host EXCEPT !.in = Flip(host.in), !.got = Received]
    BY <1>4, Zenon DEF Take
  <2>3. /\ host' \in Hosts /\ host'.up = host.up
        /\ host'.in = Flip(host.in) /\ host'.got = Received
    BY <1>2, <1>3, <2>1, <2>2, Zenon DEF Hosts, Gots
  <2>4. times' = IF Received = Whole(report) /\ times < 2 THEN times + 1 ELSE times
    BY <1>4, Zenon DEF Take
  <2>5. times' \in 0 .. 2
    BY <1>3, <2>4, SMT
  <2> QED  BY <1>1, <1>3, <1>4, <2>1, <2>3, <2>4, <2>5
<1>5. CASE packet.tog # host.in
  BY <1>1, <1>3, <1>5 DEF Take
<1> QED  BY <1>4, <1>5

(* A report sent in calm is taken when its packet arrives, and only then.  *)
LEMMA TakeCalm ==
    ASSUME IInv, packet # None, Take, calm
    PROVE  /\ tpc = "idle" /\ host'.up /\ ~ctrl.auto
           /\ times' = 1 /\ host'.got = Whole(report) /\ ctrl.t_tog # host'.in
<1>1. tpc = "idle" /\ host.up /\ ~ctrl.auto /\ (Offered \/ Taken) /\ packet.tog = ctrl.t_tog
  BY DEF IInv, InStep, InCalm, Copying
<1>2. CASE Offered
  <2>1. packet.tog = host.in
    BY <1>1, <1>2 DEF Offered
  <2>2. Received = Whole(report)
    BY <1>2 DEF Offered, Received, Whole
  <2>3. times' = 1
    BY <1>2, <2>1, <2>2, TakeValues DEF Offered
  <2> QED  BY <1>1, <2>1, <2>2, <2>3, TakeValues
<1>3. CASE Taken
  <2>1. packet.tog # host.in
    BY <1>1, <1>3 DEF Taken, IInv, InStep
  <2> QED  BY <1>1, <1>3, <2>1, TakeValues DEF Taken
<1> QED  BY <1>1, <1>2, <1>3

LEMMA EndInStep ==
    ASSUME IInv, EndIn
    PROVE  IInv'
<1>1. /\ ctrl' \in Registers /\ ctrl'.t_res = ctrl.t_res /\ ctrl'.auto = ctrl.auto
      /\ ~ctrl.auto => ctrl' = ctrl
  <2>1. Flip(ctrl.t_tog) \in {0, 1}
    BY Toggles, FlipBit
  <2>2. ctrl' = [ctrl EXCEPT !.t_tog = Flip(ctrl.t_tog)] \/ ctrl' = ctrl
    BY Zenon DEF EndIn
  <2>3. ~ctrl.auto => ctrl' = ctrl
    BY Zenon DEF EndIn
  <2>4. ctrl \in Registers
    BY Toggles
  <2> QED  BY <2>1, <2>2, <2>3, <2>4, Zenon DEF Registers
<1>2. TypeOK'
  BY <1>1, TakeValues, SameSent DEF IInv, TypeOK, EndIn, Packets
<1>3. ~ctrl.auto => ctrl.t_tog # host'.in
  BY TakeValues DEF IInv, InStep, EndIn
<1>4. InStep'
  BY <1>1, <1>3, TakeValues DEF IInv, InStep, EndIn
<1>5. InCalm'
  BY <1>1, TakeCalm DEF InCalm, Taken, EndIn, Whole
<1> QED  BY <1>2, <1>4, <1>5 DEF IInv

LEMMA EndInUnheardStep ==
    ASSUME IInv, EndInUnheard
    PROVE  IInv'
<1>1. TypeOK'
  BY TakeValues, SameSent DEF IInv, TypeOK, EndInUnheard, Packets
<1>2. InStep'
  BY TakeValues DEF IInv, InStep, EndInUnheard
<1>3. InCalm'
  BY TakeCalm DEF InCalm, Taken, EndInUnheard, Whole
<1> QED  BY <1>1, <1>2, <1>3 DEF IInv

LEMMA OutStep ==
    ASSUME IInv, Out
    PROVE  IInv'
<1>1. /\ ctrl' \in Registers /\ ctrl'.t_res = ctrl.t_res
      /\ ctrl'.t_tog = ctrl.t_tog /\ ctrl'.auto = ctrl.auto
  <2>1. Flip(ctrl.r_tog) \in {0, 1}
    BY Toggles, FlipBit
  <2>2. ctrl' = [ctrl EXCEPT !.r_tog = Flip(ctrl.r_tog)] \/ ctrl' = ctrl
    BY Zenon DEF Out
  <2>3. ctrl \in Registers
    BY Toggles
  <2> QED  BY <2>1, <2>2, <2>3, Zenon DEF Registers
<1>2. /\ host' \in Hosts
      /\ host'.up = host.up /\ host'.in = host.in /\ host'.got = host.got
  <2>1. Flip(host.out) \in {0, 1} /\ host \in Hosts
    BY Toggles, FlipBit
  <2>2. host' = [host EXCEPT !.out = Flip(host.out)]
    BY Zenon DEF Out
  <2> QED  BY <2>1, <2>2, Zenon DEF Hosts
<1>3. flag' \in {"out", "repeated out"}
  BY DEF Out
<1>4. TypeOK'
  BY <1>1, <1>2, <1>3, SameSent DEF IInv, TypeOK, Out
<1>5. InStep'
  BY <1>1, <1>2, <1>3 DEF IInv, InStep, Out, Ready
<1>6. InCalm'
  BY <1>1, <1>2, <1>3 DEF IInv, InCalm, Copying, Offered, Taken, Out, Ready, Whole
<1> QED  BY <1>4, <1>5, <1>6 DEF IInv

(* The steps of the interrupt.                                             *)
LEMMA InterruptInStep ==
    ASSUME IInv, InterruptIn
    PROVE  IInv'
<1>1. /\ ctrl' \in Registers /\ ctrl'.t_res = "NAK" /\ ctrl'.auto = ctrl.auto
      /\ ctrl'.t_tog \in {0, 1} /\ ctrl.t_tog \in {0, 1} /\ ctrl'.t_tog # ctrl.t_tog
  <2>1. /\ ctrl.t_tog \in {0, 1} /\ ctrl \in Registers
        /\ Flip(ctrl.t_tog) \in {0, 1} /\ Flip(ctrl.t_tog) # ctrl.t_tog
    BY Toggles, FlipBit
  <2>2. ctrl' = [ctrl EXCEPT !.t_tog = Flip(ctrl.t_tog), !.t_res = "NAK"]
    BY Zenon DEF InterruptIn
  <2>3. /\ ctrl' \in Registers /\ ctrl'.t_res = "NAK" /\ ctrl'.auto = ctrl.auto
        /\ ctrl'.t_tog = Flip(ctrl.t_tog)
    BY <2>1, <2>2, Zenon DEF Registers
  <2> QED  BY <2>1, <2>3
<1>2. TypeOK'
  BY <1>1, SameSent DEF IInv, TypeOK, InterruptIn, Window
<1>3. host.in \in {0, 1}
  BY Toggles
<1>4. InStep'
  BY <1>1, <1>3 DEF IInv, InStep, InterruptIn, Window
<1>5. InCalm'
  BY <1>1 DEF IInv, InStep, InCalm, Copying, Offered, Taken, InterruptIn, Window, Whole
<1> QED  BY <1>2, <1>4, <1>5 DEF IInv

LEMMA InterruptOutStep ==
    ASSUME IInv, InterruptOut
    PROVE  IInv'
<1>1. /\ ctrl' \in Registers /\ ctrl'.t_res = "ACK" /\ ctrl'.auto = ctrl.auto
      /\ ctrl'.t_tog = ctrl.t_tog
  <2>1. Flip(ctrl.r_tog) \in {0, 1} /\ ctrl \in Registers
    BY Toggles, FlipBit
  <2>2. ctrl' = [ctrl EXCEPT !.r_tog = Flip(ctrl.r_tog), !.t_res = "ACK"]
    BY Zenon DEF InterruptOut
  <2> QED  BY <2>1, <2>2, Zenon DEF Registers
<1>2. buf' \in Buffers
  BY BufferUpdates, Zenon DEF IInv, TypeOK, InterruptOut
<1>3. TypeOK'
  BY <1>1, <1>2, SameSent DEF IInv, TypeOK, InterruptOut, Window, Lengths
<1>4. InStep'
  BY <1>1 DEF IInv, InStep, InterruptOut, Window
<1>5. InCalm'
  BY DEF InCalm, InterruptOut
<1> QED  BY <1>3, <1>4, <1>5 DEF IInv

(* The empty report of clear_keyboard: it is another report sent in calm,  *)
(* or it falls upon one that is not yet done with.                         *)
LEMMA InterruptClearStep ==
    ASSUME IInv, InterruptClear
    PROVE  IInv'
<1>1. /\ ctrl' \in Registers /\ ctrl'.t_res = "ACK" /\ ctrl'.auto = ctrl.auto
      /\ ctrl'.t_tog = ctrl.t_tog
  <2>1. ctrl \in Registers /\ ctrl' = [ctrl EXCEPT !.t_res = "ACK"]
    BY Toggles DEF InterruptClear
  <2> QED  BY <2>1, Zenon DEF Registers
<1>2. Cleared \in Reports /\ sent \in Reports
  <2>1. sent \in 0 .. MaxReports
    BY DEF IInv, TypeOK
  <2> QED  BY <2>1, Sizes, SMT DEF Reports
<1>3. calm' \in BOOLEAN /\ times' \in 0 .. 2
  <2>1. calm' \in BOOLEAN
    BY Zenon DEF InterruptClear
  <2>2. times' = 0
    BY Zenon DEF InterruptClear
  <2>3. times' \in 0 .. 2
    BY <2>2, SMT
  <2> QED  BY <2>1, <2>3, Zenon
<1>4. PICK mods \in {Cleared} \cup (IF tpc = "copied mods" THEN {sent} ELSE {}) :
          buf' = [mods |-> mods, keys |-> Cleared]
  BY DEF InterruptClear
<1>5. buf' \in Buffers
  <2>1. mods \in Reports
    BY <1>2, <1>4
  <2> QED  BY <1>2, <1>4, <2>1, Zenon DEF Buffers
<1>6. TypeOK'
  <2>1. hit' \in BOOLEAN /\ REPORT_SIZE \in Lengths
    BY DEF InterruptClear, Window, Lengths
  <2>2. report' \in Reports /\ t_len' \in Lengths /\ sent' = sent
    BY <1>2, <2>1 DEF InterruptClear
  <2>3. /\ copy' \in Registers /\ sent' \in 0 .. MaxReports /\ packet' \in Packets
        /\ host' \in Hosts /\ revived' \in BOOLEAN /\ tpc' = tpc /\ flag' = flag
    BY DEF IInv, TypeOK, InterruptClear
  <2>4. /\ tpc' \in {"idle", "copied mods", "copied", "sized", "read"}
        /\ flag' \in {"none", "in", "out", "repeated out"}
    BY <2>3 DEF IInv, TypeOK
  <2>5. Reports' = Reports /\ Buffers' = Buffers /\ Packets' = Packets /\ Hosts' = Hosts
    BY <2>2, SameSent
  <2> QED  BY <1>1, <1>3, <1>5, <2>1, <2>2, <2>3, <2>4, <2>5, Zenon DEF TypeOK
<1>7. InStep'
  BY <1>1 DEF IInv, InStep, InterruptClear, Window, Ready
<1>8. InCalm'
  <2>1. SUFFICES ASSUME calm' PROVE host'.up /\ ~ctrl'.auto /\ tpc' = "idle" /\ Offered'
    BY DEF InCalm
  <2>2. tpc = "idle" /\ Calm
    BY <2>1 DEF InterruptClear
  <2>3. buf' = Whole(report')
    BY <1>4, <2>2 DEF InterruptClear, Whole
  <2> QED  BY <1>1, <2>2, <2>3 DEF IInv, InStep, Offered, Calm, Idle, InterruptClear, Ready
<1> QED  BY <1>6, <1>7, <1>8 DEF IInv

LEMMA InterruptRepeatedOutStep ==
    ASSUME IInv, InterruptRepeatedOut
    PROVE  IInv'
<1>1. TypeOK'
  BY SameSent DEF IInv, TypeOK, InterruptRepeatedOut, Window
<1>2. InStep'
  BY DEF IInv, InStep, InterruptRepeatedOut, Window
<1>3. InCalm'
  BY DEF IInv, InStep, InCalm, Copying, Offered, Taken, InterruptRepeatedOut, Window, Whole
<1> QED  BY <1>1, <1>2, <1>3 DEF IInv

(* The steps of the host on endpoint 0, which the interrupt carries out.   *)
LEMMA BusResetStep ==
    ASSUME IInv, BusReset
    PROVE  IInv'
<1>1. /\ ctrl' \in Registers /\ ctrl'.t_res = "NAK" /\ ~ctrl'.auto /\ ctrl'.t_tog = 0
  BY Zenon DEF BusReset, Registers
<1>2. host' \in Hosts /\ host'.in = 0
  <2>1. host \in Hosts
    BY Toggles
  <2>2. host' = [host EXCEPT !.up = TRUE, !.in = 0, !.out = 0]
    BY Zenon DEF BusReset
  <2> QED  BY <2>1, <2>2, Zenon DEF Hosts
<1>3. TypeOK'
  BY <1>1, <1>2, SameSent DEF IInv, TypeOK, BusReset, Window
<1>4. InStep'
  BY <1>1, <1>2 DEF IInv, InStep, BusReset, Window
<1>5. InCalm'
  BY DEF InCalm, BusReset
<1> QED  BY <1>3, <1>4, <1>5 DEF IInv

LEMMA ClearHaltInStep ==
    ASSUME IInv, ClearHaltIn
    PROVE  IInv'
<1>1. /\ ctrl' \in Registers /\ ctrl'.t_res = "NAK" /\ ctrl'.auto = ctrl.auto
      /\ ctrl'.t_tog = 0
  <2>1. ctrl \in Registers /\ ctrl' = [ctrl EXCEPT !.t_tog = 0, !.t_res = "NAK"]
    BY Toggles DEF ClearHaltIn
  <2> QED  BY <2>1, Zenon DEF Registers
<1>2. host' \in Hosts /\ host'.in = 0 /\ host'.up = host.up
  <2>1. host \in Hosts /\ host' = [host EXCEPT !.in = 0]
    BY Toggles DEF ClearHaltIn
  <2> QED  BY <2>1, Zenon DEF Hosts
<1>3. TypeOK'
  BY <1>1, <1>2, SameSent DEF IInv, TypeOK, ClearHaltIn, Window
<1>4. InStep'
  BY <1>1, <1>2 DEF IInv, InStep, ClearHaltIn, Window, Ready
<1>5. InCalm'
  BY DEF InCalm, ClearHaltIn
<1> QED  BY <1>3, <1>4, <1>5 DEF IInv

LEMMA ClearHaltOutStep ==
    ASSUME IInv, ClearHaltOut
    PROVE  IInv'
<1>1. /\ ctrl' \in Registers /\ ctrl'.t_res = ctrl.t_res /\ ctrl'.auto = ctrl.auto
      /\ ctrl'.t_tog = ctrl.t_tog
  <2>1. ctrl \in Registers /\ ctrl' = [ctrl EXCEPT !.r_tog = 0, !.r_res = "ACK"]
    BY Toggles DEF ClearHaltOut
  <2> QED  BY <2>1, Zenon DEF Registers
<1>2. host' \in Hosts /\ host'.in = host.in /\ host'.up = host.up /\ host'.got = host.got
  <2>1. host \in Hosts /\ host' = [host EXCEPT !.out = 0]
    BY Toggles DEF ClearHaltOut
  <2> QED  BY <2>1, Zenon DEF Hosts
<1>3. TypeOK'
  BY <1>1, <1>2, SameSent DEF IInv, TypeOK, ClearHaltOut, Window
<1>4. InStep'
  BY <1>1, <1>2 DEF IInv, InStep, ClearHaltOut, Window, Ready
<1>5. InCalm'
  BY <1>1, <1>2 DEF IInv, InCalm, Offered, Taken, ClearHaltOut, Ready, Whole
<1> QED  BY <1>3, <1>4, <1>5 DEF IInv

LEMMA SetHaltInStep ==
    ASSUME IInv, SetHaltIn
    PROVE  IInv'
<1>1. ctrl' \in Registers /\ ctrl'.t_res = "STALL" /\ ctrl'.auto = ctrl.auto
  <2>1. ctrl \in Registers /\ ctrl' = [ctrl EXCEPT !.t_tog = 0, !.t_res = "STALL"]
    BY Toggles DEF SetHaltIn
  <2> QED  BY <2>1, Zenon DEF Registers
<1>2. TypeOK'
  BY <1>1, SameSent DEF IInv, TypeOK, SetHaltIn, Window
<1>3. InStep'
  BY <1>1 DEF IInv, InStep, SetHaltIn, Window, Ready
<1>4. InCalm'
  BY DEF InCalm, SetHaltIn
<1> QED  BY <1>2, <1>3, <1>4 DEF IInv

LEMMA SetHaltOutStep ==
    ASSUME IInv, SetHaltOut
    PROVE  IInv'
<1>1. /\ ctrl' \in Registers /\ ctrl'.t_res = ctrl.t_res /\ ctrl'.auto = ctrl.auto
      /\ ctrl'.t_tog = ctrl.t_tog
  <2>1. ctrl \in Registers /\ ctrl' = [ctrl EXCEPT !.r_tog = 0, !.r_res = "STALL"]
    BY Toggles DEF SetHaltOut
  <2> QED  BY <2>1, Zenon DEF Registers
<1>2. TypeOK'
  BY <1>1, SameSent DEF IInv, TypeOK, SetHaltOut, Window
<1>3. InStep'
  BY <1>1 DEF IInv, InStep, SetHaltOut, Window, Ready
<1>4. InCalm'
  BY <1>1 DEF IInv, InCalm, Offered, Taken, SetHaltOut, Ready, Whole
<1> QED  BY <1>2, <1>3, <1>4 DEF IInv

LEMMA IInvStep ==
    ASSUME IInv, [Next]_vars
    PROVE  IInv'
<1>1. CASE UNCHANGED vars
  <2>1. TypeOK'
    BY <1>1, SameSent DEF IInv, TypeOK, vars
  <2>2. InStep'
    BY <1>1 DEF IInv, InStep, vars
  <2>3. InCalm'
    BY <1>1 DEF IInv, InCalm, Copying, Offered, Taken, vars, Whole
  <2> QED  BY <2>1, <2>2, <2>3 DEF IInv
<1> QED
  BY <1>1, CopyModsStep, CopyKeysStep, SetLenStep, ReadCtrlStep, WriteCtrlStep,
     BeginInStep, EndInStep, EndInUnheardStep, OutStep,
     InterruptInStep, InterruptOutStep, InterruptRepeatedOutStep, InterruptClearStep,
     BusResetStep,
     ClearHaltInStep, ClearHaltOutStep, SetHaltInStep, SetHaltOutStep DEF Next

LEMMA IInvAlways == Spec => []IInv
  BY IInvInit, IInvStep, PTL DEF Spec

-----------------------------------------------------------------------------
(* The theorems                                                            *)

(* The registers, the buffer and the host's view keep their types whatever *)
(* the interleaving of thread, interrupt and host.                         *)
THEOREM TypeCorrect == Spec => []TypeOK
  BY IInvAlways, PTL DEF IInv

(* For any number of reports, whatever is lost, repeated, halted or reset: *)
(* an idle endpoint has the toggle that the host expects.                  *)
THEOREM StaysInStep == Spec => []TogglesAgree
<1>1. IInv => TogglesAgree
  BY DEF IInv, InStep, TogglesAgree, Idle
<1> QED  BY <1>1, IInvAlways, PTL

(* For any number of reports: one that is sent to an idle endpoint, by the *)
(* thread or by clear_keyboard in the interrupt, reaches the host whole    *)
(* and once, unless a reset, a halt, an output report or another report    *)
(* falls upon it.                                                          *)
THEOREM ExactlyOnce == Spec => []CalmExactlyOnce
<1>1. IInv => CalmExactlyOnce
  BY DEF IInv, InCalm, Offered, Taken, CalmExactlyOnce
<1> QED  BY <1>1, IInvAlways, PTL
=============================================================================
