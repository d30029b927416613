-------------------------- MODULE UsbControl_proofs --------------------------
(***************************************************************************)
(* What TLC checks of UsbControl for packets of two bytes and descriptors  *)
(* of five and two, proved for every size of both: the address changes     *)
(* with the status stage, only what is not supported stalls, a descriptor  *)
(* arrives whole, and a value the host has set is the value it reads.      *)
(***************************************************************************)
EXTENDS UsbControl, SequenceTheorems, TLAPS

\* a name for two of the variables, expanded wherever a step leaves them alone
USE DEF thread

-----------------------------------------------------------------------------
(* The requests                                                            *)

AddressRequest == bRequest("SET_ADDRESS")
DescriptorRequest == bRequest("GET_DESCRIPTOR")

Codes == Get \cup {"SET_FEATURE", "CLEAR_FEATURE", "SET_ADDRESS", "SET_CONFIGURATION",
                   "SET_IDLE", "SET_PROTOCOL", "SET_INTERFACE", "SET_REPORT",
                   "GET_REPORT", "SYNCH_FRAME"}

LEMMA OtherRequests ==
    ASSUME NEW r \in Others
    PROVE  \/ /\ r.code \in {"GET_CONFIGURATION", "GET_INTERFACE", "GET_IDLE",
                             "GET_PROTOCOL", "SET_REPORT"}
              /\ r.len = 1
           \/ r.code = "SET_INTERFACE" /\ r.len = 0
           \/ r.code = "GET_STATUS" /\ r.len = 2 /\ r.what \in {"device", "in", "out"}
<1> DEFINE A == [code : {"GET_CONFIGURATION", "GET_INTERFACE", "GET_IDLE", "GET_PROTOCOL",
                         "SET_REPORT"},
                 what : {""}, val : {0}, len : {1}]
           B == [code : {"SET_INTERFACE"}, what : {""}, val : {0}, len : {0}]
           C == [code : {"GET_STATUS"}, what : {"device", "in", "out"}, val : {1}, len : {2}]
<1>1. r \in A => /\ r.code \in {"GET_CONFIGURATION", "GET_INTERFACE", "GET_IDLE",
                                "GET_PROTOCOL", "SET_REPORT"}
                 /\ r.len = 1
  OBVIOUS
<1>2. r \in B => r.code = "SET_INTERFACE" /\ r.len = 0
  OBVIOUS
<1>3. r \in C => r.code = "GET_STATUS" /\ r.len = 2 /\ r.what \in {"device", "in", "out"}
  OBVIOUS
<1>4. r \in A \/ r \in B \/ r \in C
  BY DEF Others
<1> HIDE DEF A, B, C
<1> QED  BY <1>1, <1>2, <1>3, <1>4

LEMMA RequestTypes ==
    ASSUME NEW r \in Requests
    PROVE  /\ r.code \in Codes /\ r.len \in Nat
           /\ r.code \in {"SET_ADDRESS", "SET_CONFIGURATION", "SET_IDLE", "SET_PROTOCOL"} =>
                 r.val \in Values
           /\ r.code = "GET_DESCRIPTOR" /\ r \notin Unsupported =>
                 /\ r.what \in DOMAIN Descriptor
                 /\ Descriptor[r.what] \in DOMAIN DescLen
           /\ r \in Unsupported /\ r.code = "GET_DESCRIPTOR" =>
                 r.what \notin DOMAIN Descriptor
           /\ r \in Unsupported =>
                 r.code \in {"GET_DESCRIPTOR", "CLEAR_FEATURE", "GET_REPORT", "SYNCH_FRAME"}
<1> DEFINE P(q) == /\ q.code \in Codes /\ q.len \in Nat
                   /\ q.code \in {"SET_ADDRESS", "SET_CONFIGURATION", "SET_IDLE",
                                  "SET_PROTOCOL"} => q.val \in Values
                   /\ q.code = "GET_DESCRIPTOR" /\ q \notin Unsupported =>
                         /\ q.what \in DOMAIN Descriptor
                         /\ Descriptor[q.what] \in DOMAIN DescLen
                   /\ q \in Unsupported /\ q.code = "GET_DESCRIPTOR" =>
                         q.what \notin DOMAIN Descriptor
                   /\ q \in Unsupported =>
                         q.code \in {"GET_DESCRIPTOR", "CLEAR_FEATURE", "GET_REPORT",
                                    "SYNCH_FRAME"}
<1>1. \A q \in Unsupported : P(q)
  <2>1. \A q \in Unsupported :
            /\ q.len \in Nat
            /\ \/ q.code = "GET_DESCRIPTOR" /\ q.what = "string3"
               \/ q.code \in {"CLEAR_FEATURE", "GET_REPORT", "SYNCH_FRAME"}
    <3> DEFINE A == [code : {"GET_DESCRIPTOR"}, what : {"string3"}, val : {0}, len : {2}]
               B == [code : {"CLEAR_FEATURE"}, what : {"interface"}, val : {1}, len : {0}]
               C == [code : {"GET_REPORT", "SYNCH_FRAME"}, what : {""}, val : {0}, len : {2}]
    <3>1. \A q \in A : q.code = "GET_DESCRIPTOR" /\ q.what = "string3" /\ q.len = 2
      OBVIOUS
    <3>2. \A q \in B : q.code = "CLEAR_FEATURE" /\ q.len = 0
      OBVIOUS
    <3>3. \A q \in C : q.code \in {"GET_REPORT", "SYNCH_FRAME"} /\ q.len = 2
      OBVIOUS
    <3>4. Unsupported = A \cup B \cup C
      BY DEF Unsupported
    <3> HIDE DEF A, B, C
    <3> QED  BY <3>1, <3>2, <3>3, <3>4
  <2>2. "string3" \notin DOMAIN Descriptor
    BY DEF Descriptor
  <2> QED  BY <2>1, <2>2 DEF Codes, Get
<1>2. \A q \in Features : P(q)
  <2>1. \A q \in Features : q.code \in {"SET_FEATURE", "CLEAR_FEATURE"} /\ q.len = 0
    BY DEF Features
  <2> QED  BY <1>1, <2>1 DEF Codes
<1>3. \A q \in Sets : P(q)
  <2>1. \A q \in Sets : q.code \in Written /\ q.len = 0 /\ q.val \in Values
    BY DEF Sets
  <2> QED  BY <1>1, <2>1, ControlAssumption DEF Codes, ControlAssumption
<1>4. \A q \in Descriptors : P(q)
  <2>1. \A q \in Descriptors : /\ q.code = "GET_DESCRIPTOR" /\ q.len \in AskedLengths
                               /\ q.what \in DOMAIN Descriptor
                               /\ Descriptor[q.what] \in DOMAIN DescLen
    BY DEF Descriptors
  <2> QED  BY <1>1, <2>1, ControlAssumption DEF Codes, Get, ControlAssumption
<1>5. \A q \in Others : P(q)
  <2>1. \A q \in Others :
            /\ q.code \in (Get \ {"GET_DESCRIPTOR"}) \cup {"SET_INTERFACE", "SET_REPORT"}
            /\ q.len \in Nat
    BY OtherRequests DEF Get
  <2> QED  BY <1>1, <2>1 DEF Codes, Get
<1> QED  BY <1>1, <1>2, <1>3, <1>4, <1>5 DEF Requests

LEMMA Numbers ==
    /\ \A c \in Codes : bRequest(c) \in 0 .. 12
    /\ \A c \in Codes : bRequest(c) = AddressRequest <=> c = "SET_ADDRESS"
    /\ \A c \in Codes : bRequest(c) = DescriptorRequest <=> c = "GET_DESCRIPTOR"
    /\ AddressRequest = 5 /\ DescriptorRequest = 6
<1>1. /\ bRequest("GET_STATUS") = 0 /\ bRequest("CLEAR_FEATURE") = 1
      /\ bRequest("GET_REPORT") = 1 /\ bRequest("GET_IDLE") = 2
      /\ bRequest("SET_FEATURE") = 3 /\ bRequest("GET_PROTOCOL") = 3
      /\ bRequest("SET_ADDRESS") = 5 /\ bRequest("GET_DESCRIPTOR") = 6
  BY DEF bRequest
<1>2. /\ bRequest("GET_CONFIGURATION") = 8 /\ bRequest("SET_CONFIGURATION") = 9
      /\ bRequest("SET_REPORT") = 9 /\ bRequest("GET_INTERFACE") = 10
      /\ bRequest("SET_IDLE") = 10 /\ bRequest("SET_INTERFACE") = 11
      /\ bRequest("SET_PROTOCOL") = 11 /\ bRequest("SYNCH_FRAME") = 12
  BY DEF bRequest
<1> QED  BY <1>1, <1>2 DEF Codes, Get, AddressRequest, DescriptorRequest

-----------------------------------------------------------------------------
(* The invariant                                                           *)

(* The records have their fields.                                          *)
Shape ==
    /\ pDescr = [desc |-> pDescr.desc, at |-> pDescr.at]
    /\ ep0 = [t_res |-> ep0.t_res, r_res |-> ep0.r_res, tog |-> ep0.tog, len |-> ep0.len,
              data |-> ep0.data]
    /\ host = [at |-> host.at, transfer |-> host.transfer]
    /\ host.transfer =
          [stage |-> host.transfer.stage, req |-> host.transfer.req, rx |-> host.transfer.rx,
           tog |-> host.transfer.tog, result |-> host.transfer.result]

\* the device has seen the SETUP of the transfer
Dispatched == Stage # "idle" /\ flag # "setup"

(* The stages of a transfer belong to its request.                         *)
Staged ==
    /\ req \in Requests \cup {NoRequest}
    /\ Stage # "idle" => req \in Requests
    /\ flag = "setup" => /\ Stage \in {"data", "out", "status in"}
                         /\ host.transfer.rx = <<>> /\ host.transfer.tog = 1
    /\ Stage \in {"data", "status out"} => req.code \in Get \cup {"GET_REPORT", "SYNCH_FRAME"}
    /\ Stage = "out" => req.code = "SET_REPORT"
    /\ Stage = "status in" => req.code \notin Get \cup {"GET_REPORT", "SYNCH_FRAME"}

(* The number of the request is the one of the transfer, and the address   *)
(* waits in SetupReqLen until the host uses it.                            *)
Addressed ==
    /\ Dispatched => /\ SetupReqCode = bRequest(req.code)
                     /\ req.code = "SET_ADDRESS" => SetupReqLen = req.val
    /\ flag = "in" => IF SetupReqCode = AddressRequest THEN SetupReqLen = host.at
                      ELSE address = host.at
    /\ AddressAgrees
    /\ SetupReqCode = AddressRequest => SetupReqLen \in Values

(* A stall of the endpoint is that of the transfer.                        *)
Stalled ==
    /\ Dispatched /\ ep0.t_res = "STALL" /\ Stage # "status out" => req \in Unsupported
    /\ Dispatched /\ req \in Unsupported /\ Stage \in {"data", "status out"} =>
          Stage = "data" /\ flag = "none" /\ ep0.t_res = "STALL"
    /\ StallExact

(* What the host has of a descriptor ends where the packet in the buffer   *)
(* begins, or, when it has that one too, where pDescr stands.              *)
Sending ==
    Dispatched /\ Stage = "data" /\ req.code = "GET_DESCRIPTOR" /\ req \notin Unsupported =>
        LET desc == Descriptor[req.what]
            all == Least(req.len, DescLen[desc])
            start == pDescr.at - ep0.len
        IN  /\ pDescr.desc = desc
            /\ start \in Nat /\ pDescr.at <= all
            /\ SetupReqLen = all - pDescr.at
            /\ ep0.len = Least(all - start, DevEP0SIZE)
            /\ ep0.data = Piece(desc, start, ep0.len)
            /\ host.transfer.rx = Piece(desc, 0, IF ep0.tog = host.transfer.tog THEN start
                                                 ELSE pDescr.at)
            /\ host.transfer.tog \in {0, 1}
            /\ flag = "in" => ep0.tog # host.transfer.tog

IInv == TypeOK /\ Shape /\ Staged /\ Addressed /\ Stalled /\ Sending /\ DescriptorWhole

-----------------------------------------------------------------------------
(* Pieces of a descriptor                                                  *)

LEMMA LeastOf ==
    ASSUME NEW a \in Nat, NEW b \in Nat
    PROVE  Least(a, b) \in Nat /\ Least(a, b) <= a /\ Least(a, b) <= b
           /\ Least(a, b) \in {a, b}
BY DEF Least

LEMMA PieceLength ==
    ASSUME NEW desc, NEW at \in Nat, NEW n \in Nat
    PROVE  /\ Piece(desc, at, n) \in Seq({desc} \X Nat)
           /\ Len(Piece(desc, at, n)) = n
           /\ SubSeq(Piece(desc, at, n), 1, n) = Piece(desc, at, n)
<1>1. Piece(desc, at, n) \in [1 .. n -> {desc} \X Nat]
  BY DEF Piece
<1>2. Piece(desc, at, n) \in Seq({desc} \X Nat) /\ Len(Piece(desc, at, n)) = n
  BY <1>1
<1> QED  BY <1>1, <1>2

LEMMA PiecesJoin ==
    ASSUME NEW desc, NEW at \in Nat, NEW n \in Nat
    PROVE  Piece(desc, 0, at) \o Piece(desc, at, n) = Piece(desc, 0, at + n)
<1> DEFINE p == Piece(desc, 0, at)
           q == Piece(desc, at, n)
           r == Piece(desc, 0, at + n)
<1>1. p \in Seq({desc} \X Nat) /\ q \in Seq({desc} \X Nat) /\ r \in Seq({desc} \X Nat)
      /\ Len(p) = at /\ Len(q) = n /\ Len(r) = at + n
  BY PieceLength
<1>2. p \o q \in Seq({desc} \X Nat) /\ Len(p \o q) = at + n
  BY <1>1
<1>3. ASSUME NEW i \in 1 .. at + n PROVE (p \o q)[i] = r[i]
  <2>1. r[i] = <<desc, i>>
    BY DEF Piece
  <2>2. CASE i <= at
    <3>1. (p \o q)[i] = p[i] /\ p[i] = <<desc, i>>
      BY <1>1, <2>2 DEF Piece
    <3> QED  BY <2>1, <3>1
  <2>3. CASE i > at
    <3>1. (p \o q)[i] = q[i - at]
      BY <1>1, <2>3
    <3>2. q[i - at] = <<desc, i>>
      BY <2>3 DEF Piece
    <3> QED  BY <2>1, <3>1, <3>2
  <2>4. i <= at \/ i > at
    BY <1>3
  <2> QED  BY <2>2, <2>3, <2>4, Zenon
<1> HIDE DEF p, q, r
<1>4. p \o q = r
  BY <1>1, <1>2, <1>3, SeqEqual
<1> QED  BY <1>4 DEF p, q, r

-----------------------------------------------------------------------------
(* The interrupt handles a SETUP                                           *)

\* what every branch does
Handled ==
    /\ flag = "setup" /\ flag' = "none" /\ SetupReqCode' = bRequest(req.code)
    /\ UNCHANGED <<address, host>>
    /\ SetupReqLen' \in Nat
    /\ pDescr' = [desc |-> pDescr'.desc, at |-> pDescr'.at] /\ pDescr'.at \in Nat
    /\ ep0' = [t_res |-> ep0'.t_res, r_res |-> ep0'.r_res, tog |-> ep0'.tog, len |-> ep0'.len,
               data |-> ep0'.data]
    /\ ep0'.r_res \in {"ACK", "STALL"} /\ ep0'.tog = 1 /\ ep0'.len \in 0 .. DevEP0SIZE
    /\ vals' \in [config : Values, idle : Values, protocol : Values, sleep : {0, 1}]
    /\ halted' \subseteq {"in", "out"} /\ arming' = arming /\ undone' \in BOOLEAN
    /\ IF req \in Unsupported THEN ep0'.t_res \in {"STALL", "ACK"} ELSE ep0'.t_res = "ACK"
    /\ req \in Unsupported /\ Stage = "data" => ep0'.t_res = "STALL"
    /\ req.code = "SET_ADDRESS" => SetupReqLen' = req.val

Begun ==
    req.code = "GET_DESCRIPTOR" /\ req \notin Unsupported =>
        LET desc == Descriptor[req.what]
            all == Least(req.len, DescLen[desc])
            len == Least(all, DevEP0SIZE)
        IN  /\ pDescr'.desc = desc /\ pDescr'.at = len
            /\ SetupReqLen' = all - len
            /\ ep0'.len = len /\ ep0'.data = Piece(desc, 0, len)

LEMMA Asked ==
    ASSUME IInv, flag = "setup"
    PROVE  /\ req \in Requests /\ req.code \in Codes /\ req.len \in Nat
           /\ DevEP0SIZE \in Nat
BY RequestTypes, ControlAssumption DEF IInv, Staged, ControlAssumption

LEMMA AnswerEffect ==
    ASSUME IInv, flag = "setup", NEW n \in Nat, NEW data, Answer(n, data)
    PROVE  LET len == IF req.code \in Get THEN Least(n, DevEP0SIZE) ELSE 0
           IN  /\ SetupReqLen' = n - len /\ SetupReqLen' \in Nat
               /\ ep0' = [t_res |-> "ACK", r_res |-> "ACK", tog |-> 1, len |-> len,
                          data |-> data]
               /\ len \in 0 .. DevEP0SIZE
<1>1. Least(n, DevEP0SIZE) \in Nat /\ Least(n, DevEP0SIZE) <= n
      /\ Least(n, DevEP0SIZE) <= DevEP0SIZE /\ DevEP0SIZE \in Nat
  BY LeastOf, Asked
<1> QED  BY <1>1 DEF Answer

LEMMA DescriptorHandled ==
    ASSUME IInv, SetupDescriptor
    PROVE  Handled /\ Begun
<1> DEFINE desc == Descriptor[req.what]
           all == Least(req.len, DescLen[desc])
           len == Least(all, DevEP0SIZE)
<1>1. /\ flag = "setup" /\ flag' = "none" /\ SetupReqCode' = bRequest(req.code)
      /\ req.code = "GET_DESCRIPTOR" /\ req.what \in DOMAIN Descriptor
      /\ pDescr' = [desc |-> desc, at |-> len]
      /\ Answer(all, Piece(desc, 0, len))
      /\ UNCHANGED <<address, vals, halted, thread, host, known>>
  BY DEF SetupDescriptor, SetupStart
<1>2. req \notin Unsupported /\ desc \in DOMAIN DescLen
  BY <1>1, Asked, RequestTypes
<1>3. DescLen[desc] \in Nat /\ req.len \in Nat /\ DevEP0SIZE \in Nat
  BY <1>1, <1>2, Asked, ControlAssumption DEF ControlAssumption
<1>4. all \in Nat /\ len \in Nat
  BY <1>3, LeastOf
<1> HIDE DEF desc, all, len
<1>5. /\ SetupReqLen' = all - len /\ SetupReqLen' \in Nat
      /\ ep0' = [t_res |-> "ACK", r_res |-> "ACK", tog |-> 1, len |-> len,
                 data |-> Piece(desc, 0, len)]
      /\ len \in 0 .. DevEP0SIZE
  BY <1>1, <1>4, AnswerEffect DEF Get, len
<1>6. Handled
  BY <1>1, <1>2, <1>4, <1>5 DEF Handled, IInv, TypeOK
<1>7. Begun
  BY <1>1, <1>2, <1>4, <1>5 DEF Begun, desc, all, len
<1> QED  BY <1>6, <1>7

LEMMA OthersHandled ==
    ASSUME IInv,
           SetupUnsupported \/ SetupAddress \/ SetupSet \/ SetupFeature \/ SetupGet
    PROVE  Handled /\ Begun
<1>1. /\ flag = "setup" /\ flag' = "none" /\ SetupReqCode' = bRequest(req.code)
      /\ UNCHANGED <<pDescr, address, host>>
  BY DEF SetupUnsupported, SetupAddress, SetupSet, SetupFeature, SetupGet, SetupStart
<1>2. /\ req \in Requests /\ req.len \in Nat /\ 0 \in 0 .. DevEP0SIZE
      /\ DevEP0SIZE \in Nat
  BY <1>1, Asked
<1>3. CASE SetupUnsupported
  <2>1. /\ req \in Unsupported /\ SetupReqLen' \in Nat
        /\ ep0' = [ep0 EXCEPT !.t_res = "STALL", !.r_res = "STALL", !.tog = 1, !.data = <<>>]
        /\ UNCHANGED <<vals, halted, thread>>
    BY <1>2, <1>3 DEF SetupUnsupported, Stall
  <2>2. req.code # "SET_ADDRESS"
    BY <1>2, <2>1, RequestTypes
  <2>3. Handled
    BY <1>1, <2>1, <2>2 DEF Handled, IInv, TypeOK, Shape
  <2>4. Begun
    BY <2>1 DEF Begun
  <2> QED  BY <2>3, <2>4
<1>4. CASE SetupAddress
  <2>1. /\ req.code = "SET_ADDRESS" /\ Answer(req.val, <<>>)
        /\ UNCHANGED <<vals, halted, thread>>
    BY <1>4 DEF SetupAddress
  <2>2. req.val \in Nat /\ req \notin Unsupported
    BY <1>2, <2>1, RequestTypes, ControlAssumption DEF ControlAssumption
  <2>3. req.code \notin Get
    BY <2>1 DEF Get
  <2>4. /\ SetupReqLen' = req.val
        /\ ep0' = [t_res |-> "ACK", r_res |-> "ACK", tog |-> 1, len |-> 0, data |-> <<>>]
    BY <1>1, <2>1, <2>2, <2>3, AnswerEffect
  <2>5. Handled
    BY <1>1, <1>2, <2>1, <2>2, <2>4 DEF Handled, IInv, TypeOK, Shape
  <2>6. Begun
    BY <2>1 DEF Begun
  <2> QED  BY <2>5, <2>6
<1>5. CASE SetupSet
  <2>1. /\ req.code \in {"SET_CONFIGURATION", "SET_IDLE", "SET_PROTOCOL", "SET_INTERFACE",
                          "SET_REPORT"}
        /\ Answer(req.len, <<>>) /\ UNCHANGED <<halted, thread>>
    BY <1>5 DEF SetupSet
  <2>2. vals' \in [config : Values, idle : Values, protocol : Values, sleep : {0, 1}]
    <3>1. vals \in [config : Values, idle : Values, protocol : Values, sleep : {0, 1}]
      BY DEF IInv, TypeOK
    <3>2. req.code \in {"SET_CONFIGURATION", "SET_IDLE", "SET_PROTOCOL"} => req.val \in Values
      BY <1>2, RequestTypes
    <3> QED  BY <1>5, <3>1, <3>2 DEF SetupSet
  <2>3. req \notin Unsupported
    BY <1>2, <2>1, RequestTypes
  <2>4. req.code \notin Get
    BY <2>1 DEF Get
  <2>5. /\ SetupReqLen' \in Nat
        /\ ep0' = [t_res |-> "ACK", r_res |-> "ACK", tog |-> 1, len |-> 0, data |-> <<>>]
    BY <1>1, <1>2, <2>1, <2>4, AnswerEffect
  <2>6. Handled
    BY <1>1, <1>2, <2>1, <2>2, <2>3, <2>5 DEF Handled, IInv, TypeOK, Shape
  <2>7. Begun
    BY <2>1 DEF Begun
  <2> QED  BY <2>6, <2>7
<1>6. CASE SetupFeature
  <2>1. req \in Features /\ Answer(req.len, <<>>)
    BY <1>6 DEF SetupFeature
  <2>2. req.code \in {"SET_FEATURE", "CLEAR_FEATURE"} /\ req.what \in {"device", "in", "out"}
    BY <2>1, ControlAssumption DEF Features, ControlAssumption
  <2>3. vals' \in [config : Values, idle : Values, protocol : Values, sleep : {0, 1}]
    <3>1. vals \in [config : Values, idle : Values, protocol : Values, sleep : {0, 1}]
      BY DEF IInv, TypeOK
    <3> QED  BY <1>6, <3>1 DEF SetupFeature
  <2>4. halted' \subseteq {"in", "out"}
    <3>1. halted \subseteq {"in", "out"}
      BY DEF IInv, TypeOK
    <3>2. halted' \in {halted \cup ({req.what} \ {"device"}), halted \ {req.what}}
      BY <1>6 DEF SetupFeature
    <3> QED  BY <2>2, <3>1, <3>2
  <2>5. req.code \notin Get
    BY <2>2 DEF Get
  <2>6. /\ SetupReqLen' \in Nat
        /\ ep0' = [t_res |-> "ACK", r_res |-> "ACK", tog |-> 1, len |-> 0, data |-> <<>>]
    BY <1>1, <1>2, <2>1, <2>5, AnswerEffect
  <2>7. Stage # "data"
    BY <2>2 DEF IInv, Staged, Get
  <2>8. arming' = arming /\ undone' \in BOOLEAN
    BY <1>6 DEF SetupFeature, IInv, TypeOK
  <2>9. Handled
    BY <1>1, <1>2, <2>2, <2>3, <2>4, <2>6, <2>7, <2>8 DEF Handled, IInv, TypeOK, Shape
  <2>10. Begun
    BY <2>2 DEF Begun
  <2> QED  BY <2>9, <2>10
<1>7. CASE SetupGet
  <2>1. req.code \in Get \ {"GET_DESCRIPTOR"} /\ UNCHANGED <<vals, halted, thread>>
    BY <1>7 DEF SetupGet
  <2>2. PICK data : Answer(req.len, data)
    BY <1>7, Zenon DEF SetupGet
  <2>3. req \notin Unsupported /\ req.code # "SET_ADDRESS"
    BY <1>2, <2>1, RequestTypes DEF Get
  <2>4. /\ SetupReqLen' \in Nat
        /\ ep0' = [t_res |-> "ACK", r_res |-> "ACK", tog |-> 1,
                   len |-> Least(req.len, DevEP0SIZE), data |-> data]
        /\ Least(req.len, DevEP0SIZE) \in 0 .. DevEP0SIZE
    BY <1>1, <1>2, <2>1, <2>2, AnswerEffect
  <2>5. Handled
    BY <1>1, <1>2, <2>1, <2>3, <2>4 DEF Handled, IInv, TypeOK, Shape
  <2>6. Begun
    BY <2>1 DEF Begun
  <2> QED  BY <2>5, <2>6
<1> QED  BY <1>3, <1>4, <1>5, <1>6, <1>7

LEMMA SetupKeeps ==
    ASSUME IInv, Handled, Begun
    PROVE  IInv'
<1>1. /\ flag = "setup" /\ flag' = "none" /\ SetupReqCode' = bRequest(req.code)
      /\ address' = address /\ host' = host /\ Stage' = Stage /\ req' = req
  BY DEF Handled, Stage, req
<1>2. req \in Requests /\ req.code \in Codes /\ req.len \in Nat /\ DevEP0SIZE \in Nat
  BY <1>1, Asked
<1>3. bRequest(req.code) \in 0 .. 12 /\ (bRequest(req.code) = AddressRequest
                                         => req.code = "SET_ADDRESS")
  BY <1>2, Numbers
<1>4. Stage \in {"data", "out", "status in"} /\ host.transfer.rx = <<>> /\ host.transfer.tog = 1
  BY <1>1 DEF IInv, Staged
<1>5. TypeOK'
  <2>1. /\ address \in Values /\ host.at \in Values
        /\ Stage \in {"idle", "data", "out", "status in", "status out"}
    BY DEF IInv, TypeOK
  <2>2. /\ SetupReqLen' \in Nat /\ pDescr'.at \in Nat
        /\ ep0'.t_res \in {"NAK", "ACK", "STALL"} /\ ep0'.r_res \in {"ACK", "STALL"}
        /\ ep0'.tog \in {0, 1} /\ ep0'.len \in 0 .. DevEP0SIZE
        /\ vals' \in [config : Values, idle : Values, protocol : Values, sleep : {0, 1}]
        /\ halted' \subseteq {"in", "out"}
        /\ arming' \subseteq SUBSET {"out"} /\ undone' \in BOOLEAN
    BY DEF Handled, IInv, TypeOK
  <2> QED  BY <1>1, <1>3, <2>1, <2>2 DEF TypeOK
<1>6. Shape'
  BY <1>1 DEF IInv, Shape, Handled
<1>7. Staged'
  BY <1>1 DEF IInv, Staged
<1>8. Addressed'
  <2>1. req.code = "SET_ADDRESS" => SetupReqLen' = req.val /\ req.val \in Values
    BY <1>2, RequestTypes DEF Handled
  <2>2. address = host.at
    BY <1>1 DEF IInv, Addressed, AddressAgrees
  <2> QED  BY <1>1, <1>3, <2>1, <2>2 DEF Addressed, AddressAgrees, Dispatched
<1>9. Stalled'
  <2>1. StallExact
    BY DEF IInv, Stalled
  <2>2. /\ ep0'.t_res = "STALL" => req \in Unsupported
        /\ req \in Unsupported /\ Stage = "data" => ep0'.t_res = "STALL"
    BY DEF Handled
  <2> QED  BY <1>1, <1>4, <2>1, <2>2 DEF Stalled, StallExact, Dispatched
<1>10. Sending'
  <2> SUFFICES ASSUME req.code = "GET_DESCRIPTOR", req \notin Unsupported
               PROVE  Sending'
    BY <1>1 DEF Sending
  <2> DEFINE desc == Descriptor[req.what]
             all == Least(req.len, DescLen[desc])
             len == Least(all, DevEP0SIZE)
  <2>1. desc \in DOMAIN DescLen
    BY <1>2, RequestTypes
  <2>2. DescLen[desc] \in Nat
    BY <2>1, ControlAssumption DEF ControlAssumption
  <2>3. all \in Nat /\ len \in Nat /\ len <= all
    BY <1>2, <2>2, LeastOf
  <2>4. /\ pDescr'.desc = desc /\ pDescr'.at = len
        /\ SetupReqLen' = all - len
        /\ ep0'.len = len /\ ep0'.data = Piece(desc, 0, len)
    BY DEF Begun
  <2>5. ep0'.tog = 1
    BY DEF Handled
  <2>6. Piece(desc, 0, 0) = <<>>
    BY DEF Piece
  <2> HIDE DEF len
  <2>7. pDescr'.at - ep0'.len = 0 /\ all - 0 = all
    BY <2>3, <2>4
  <2> QED  BY <1>1, <1>4, <2>3, <2>4, <2>5, <2>6, <2>7 DEF Sending, len
<1>11. DescriptorWhole'
  BY <1>1, <1>4 DEF DescriptorWhole, Received
<1> QED  BY <1>5, <1>6, <1>7, <1>8, <1>9, <1>10, <1>11 DEF IInv

-----------------------------------------------------------------------------
(* The interrupt after an input packet                                     *)

LEMMA InDescriptorKeeps ==
    ASSUME IInv, InDescriptor
    PROVE  IInv'
<1> DEFINE len == Least(SetupReqLen, DevEP0SIZE)
<1>1. /\ flag = "in" /\ flag' = "none" /\ SetupReqCode = DescriptorRequest
      /\ ep0' = [ep0 EXCEPT !.data = Piece(pDescr.desc, pDescr.at, len), !.len = len,
                            !.tog = Flip(@)]
      /\ SetupReqLen' = SetupReqLen - len
      /\ pDescr' = [pDescr EXCEPT !.at = @ + len]
      /\ UNCHANGED <<SetupReqCode, address, vals, halted, thread, host, known>>
      /\ Stage' = Stage /\ req' = req
  BY DEF InDescriptor, InStart, DescriptorRequest, Stage, req
<1>2. SetupReqLen \in Nat /\ pDescr.at \in Nat /\ ep0.tog \in {0, 1} /\ DevEP0SIZE \in Nat
  BY ControlAssumption DEF IInv, TypeOK, ControlAssumption
<1>3. len \in Nat /\ len <= SetupReqLen /\ len <= DevEP0SIZE
  BY <1>2, LeastOf
<1> HIDE DEF len
<1>4. /\ ep0' = [t_res |-> ep0.t_res, r_res |-> ep0.r_res, tog |-> Flip(ep0.tog),
                 len |-> len, data |-> Piece(pDescr.desc, pDescr.at, len)]
      /\ pDescr' = [desc |-> pDescr.desc, at |-> pDescr.at + len]
  BY <1>1 DEF IInv, Shape
<1>5. Flip(ep0.tog) \in {0, 1} /\ Flip(ep0.tog) # ep0.tog
  BY <1>2 DEF Flip
<1>6. Stage # "idle" => req.code = "GET_DESCRIPTOR" /\ SetupReqCode = bRequest(req.code)
  <2>1. SUFFICES ASSUME Stage # "idle"
                 PROVE  req.code = "GET_DESCRIPTOR" /\ SetupReqCode = bRequest(req.code)
    OBVIOUS
  <2>2. req.code \in Codes /\ SetupReqCode = bRequest(req.code)
    BY <1>1, <2>1, RequestTypes DEF IInv, Staged, Addressed, Dispatched
  <2> QED  BY <1>1, <2>2, Numbers
<1>7. TypeOK'
  <2>1. SetupReqLen - len \in Nat /\ pDescr.at + len \in Nat /\ len \in 0 .. DevEP0SIZE
    BY <1>2, <1>3
  <2>2. /\ SetupReqLen' \in Nat /\ pDescr'.at \in Nat /\ ep0'.t_res = ep0.t_res
        /\ ep0'.r_res = ep0.r_res /\ ep0'.tog \in {0, 1} /\ ep0'.len \in 0 .. DevEP0SIZE
    BY <1>1, <1>4, <1>5, <2>1
  <2> QED  BY <1>1, <2>2 DEF IInv, TypeOK
<1>8. Shape'
  BY <1>1, <1>4 DEF IInv, Shape
<1>9. Staged'
  BY <1>1 DEF IInv, Staged
<1>10. Addressed'
  <2>1. SetupReqCode # AddressRequest
    BY <1>1, Numbers
  <2>2. address = host.at
    BY <1>1, <2>1 DEF IInv, Addressed
  <2> QED  BY <1>1, <1>6, <2>1, <2>2 DEF Addressed, AddressAgrees, Dispatched
<1>11. Stalled'
  BY <1>1, <1>4 DEF IInv, Stalled, StallExact, Dispatched
<1>12. Sending'
  <2> SUFFICES ASSUME Stage = "data", req.code = "GET_DESCRIPTOR", req \notin Unsupported
               PROVE  Sending'
    BY <1>1 DEF Sending
  <2> DEFINE desc == Descriptor[req.what]
             all == Least(req.len, DescLen[desc])
             start == pDescr.at - ep0.len
  <2>1. /\ pDescr.desc = desc /\ start \in Nat /\ pDescr.at <= all
        /\ SetupReqLen = all - pDescr.at
        /\ host.transfer.rx = Piece(desc, 0, IF ep0.tog = host.transfer.tog THEN start
                                             ELSE pDescr.at)
        /\ host.transfer.tog \in {0, 1}
        /\ ep0.tog # host.transfer.tog
    BY <1>1 DEF IInv, Sending, Dispatched
  <2>2. host.transfer.rx = Piece(desc, 0, pDescr.at) /\ Flip(ep0.tog) = host.transfer.tog
    BY <1>2, <2>1 DEF Flip
  <2>3. req \in Requests
    BY DEF IInv, Staged
  <2>4. all \in Nat
    <3>1. desc \in DOMAIN DescLen /\ req.len \in Nat
      BY <2>3, RequestTypes
    <3>2. DescLen[desc] \in Nat
      BY <3>1, ControlAssumption DEF ControlAssumption
    <3> QED  BY <3>1, <3>2, LeastOf
  <2> HIDE DEF all, desc
  <2>5. pDescr'.at - ep0'.len = pDescr.at
    BY <1>2, <1>3, <1>4
  <2>6. /\ pDescr'.at <= all /\ SetupReqLen' = all - pDescr'.at
    BY <1>1, <1>2, <1>3, <1>4, <2>1, <2>4
  <2>7. ep0'.len = Least(all - pDescr.at, DevEP0SIZE)
    BY <1>4, <2>1 DEF len
  <2>8. /\ pDescr'.desc = desc /\ ep0'.data = Piece(desc, pDescr.at, ep0'.len)
        /\ ep0'.tog = host.transfer.tog
    BY <1>4, <2>1, <2>2
  <2> QED  BY <1>1, <1>2, <2>1, <2>2, <2>5, <2>6, <2>7, <2>8 DEF Sending, all, desc
<1>13. DescriptorWhole'
  BY <1>1 DEF IInv, DescriptorWhole, Received
<1> QED  BY <1>7, <1>8, <1>9, <1>10, <1>11, <1>12, <1>13 DEF IInv

LEMMA InOthersKeep ==
    ASSUME IInv, InAddress \/ InFeature \/ InOther \/ InterruptOut
    PROVE  IInv'
<1>1. /\ flag \in {"in", "out"} /\ flag' = "none"
      /\ UNCHANGED <<SetupReqCode, SetupReqLen, pDescr, vals, halted, thread, host, known>>
      /\ Stage' = Stage /\ req' = req
  BY DEF InAddress, InFeature, InOther, InterruptOut, InStart, device, Stage, req
<1>2. /\ ep0' = [t_res |-> ep0'.t_res, r_res |-> ep0'.r_res, tog |-> ep0'.tog,
                 len |-> ep0'.len, data |-> ep0'.data]
      /\ ep0'.t_res \in {"NAK", "ACK", "STALL"} /\ ep0'.r_res \in {"ACK", "STALL"}
      /\ ep0'.tog \in {0, 1} /\ ep0'.len \in 0 .. DevEP0SIZE
      /\ ep0'.t_res = "STALL" => ep0.t_res = "STALL"
  <2>1. /\ ep0.t_res \in {"NAK", "ACK", "STALL"} /\ ep0.r_res \in {"ACK", "STALL"}
        /\ ep0.tog \in {0, 1} /\ ep0.len \in 0 .. DevEP0SIZE
    BY DEF IInv, TypeOK
  <2>2. 0 \in 0 .. DevEP0SIZE
    BY ControlAssumption DEF ControlAssumption
  <2> QED  BY <2>1, <2>2 DEF InAddress, InFeature, InOther, InterruptOut, device, IInv, Shape
<1>3. address' = host.at
  <2>1. CASE InAddress
    BY <1>1, <2>1 DEF InAddress, InStart, IInv, Addressed, AddressRequest
  <2>2. CASE InFeature
    BY <1>1, <2>2, Numbers DEF InFeature, InStart, IInv, Addressed, device, bRequest
  <2>3. CASE InOther
    BY <1>1, <2>3 DEF InOther, InStart, IInv, Addressed, AddressRequest
  <2>4. CASE InterruptOut
    BY <1>1, <2>4 DEF InterruptOut, IInv, Addressed, AddressAgrees, device
  <2> QED  BY <2>1, <2>2, <2>3, <2>4
\* only InDescriptor answers in the data stage of a descriptor
<1>4. Stage = "data" /\ req.code = "GET_DESCRIPTOR" /\ req \notin Unsupported => ep0' = ep0
                                                                              /\ flag = "out"
  <2> SUFFICES ASSUME Stage = "data", req.code = "GET_DESCRIPTOR", req \notin Unsupported
               PROVE  ep0' = ep0 /\ flag = "out"
    OBVIOUS
  <2>1. SetupReqCode = bRequest("GET_DESCRIPTOR")
    BY <1>1 DEF IInv, Addressed, Dispatched
  <2>2. bRequest("GET_DESCRIPTOR") \notin {bRequest("SET_ADDRESS"), bRequest("SET_FEATURE")}
    BY DEF bRequest
  <2>3. ~InAddress /\ ~InFeature /\ ~InOther
    BY <2>1, <2>2 DEF InAddress, InFeature, InOther
  <2> QED  BY <2>3 DEF InterruptOut, device
<1>5. TypeOK'
  BY <1>1, <1>2, <1>3 DEF IInv, TypeOK
<1>6. Shape'
  BY <1>1, <1>2 DEF IInv, Shape
<1>7. Staged'
  BY <1>1 DEF IInv, Staged
<1>8. Addressed'
  BY <1>1, <1>3 DEF IInv, Addressed, AddressAgrees, Dispatched
<1>9. Stalled'
  BY <1>1, <1>2 DEF IInv, Stalled, StallExact, Dispatched
<1>10. Sending'
  BY <1>1, <1>4 DEF IInv, Sending, Dispatched
<1>11. DescriptorWhole'
  BY <1>1 DEF IInv, DescriptorWhole, Received
<1> QED  BY <1>5, <1>6, <1>7, <1>8, <1>9, <1>10, <1>11 DEF IInv

-----------------------------------------------------------------------------
(* The host                                                                *)

LEMMA SetupArrives ==
    ASSUME IInv, NEW r \in Requests, Setup(r)
    PROVE  IInv'
<1>1. /\ flag = "none" /\ address = host.at /\ flag' = "setup"
      /\ UNCHANGED <<SetupReqCode, SetupReqLen, pDescr, ep0, address, vals, halted, thread>>
      /\ host' = [host EXCEPT !.transfer =
                      [NoTransfer EXCEPT !.stage = FirstStage(r), !.req = r]]
  BY DEF Setup, Ready, device
<1>2. PICK s : /\ s = FirstStage(r)
               /\ host' = [at |-> host.at,
                           transfer |-> [stage |-> s, req |-> r, rx |-> <<>>, tog |-> 1,
                                         result |-> ""]]
  BY <1>1 DEF IInv, Shape, NoTransfer
<1>3. /\ req' = r /\ Stage' = FirstStage(r) /\ host'.at = host.at
      /\ host'.transfer.rx = <<>> /\ host'.transfer.tog = 1 /\ host'.transfer.result = ""
  BY <1>2 DEF req, Stage
<1>4. /\ FirstStage(r) \in {"data", "out", "status in"}
      /\ FirstStage(r) = "data" => r.code \in Get \cup {"GET_REPORT", "SYNCH_FRAME"}
      /\ FirstStage(r) = "out" => r.code = "SET_REPORT"
      /\ FirstStage(r) = "status in" => r.code \notin Get \cup {"GET_REPORT", "SYNCH_FRAME"}
  BY DEF FirstStage, Get
<1>5. TypeOK'
  BY <1>1, <1>3, <1>4 DEF IInv, TypeOK
<1>6. Shape'
  <2>1. pDescr' = pDescr /\ ep0' = ep0
    BY <1>1
  <2> QED  BY <1>2, <2>1 DEF IInv, Shape
<1>7. Staged'
  BY <1>1, <1>3, <1>4 DEF Staged
<1>8. Addressed'
  BY <1>1, <1>3 DEF IInv, Addressed, AddressAgrees, Dispatched
<1>9. Stalled' /\ Sending' /\ DescriptorWhole'
  BY <1>1, <1>3, <1>4 DEF Stalled, StallExact, Sending, Dispatched, DescriptorWhole, Received
<1> QED  BY <1>5, <1>6, <1>7, <1>8, <1>9 DEF IInv

\* a transfer ends
LEMMA Finished ==
    ASSUME IInv, NEW result \in {"ok", "stall"}, Finish(result), Ready,
           UNCHANGED device, flag' \in {"none", "in", "out"},
           req.code = "SET_ADDRESS" /\ result = "ok" => Stage # "idle" /\ flag' = "in",
           flag' = "in" => Stage # "idle",
           result = "stall" => req \in Unsupported
    PROVE  IInv'
<1>1. /\ flag = "none" /\ address = host.at
      /\ UNCHANGED <<SetupReqCode, SetupReqLen, pDescr, ep0, address, vals, halted, thread>>
  BY DEF Ready, device
<1>2. PICK at : /\ at = IF result = "ok" /\ req.code = "SET_ADDRESS" THEN req.val ELSE host.at
                /\ host' = [at |-> at,
                            transfer |-> [stage |-> "idle", req |-> req, rx |-> <<>>,
                                          tog |-> 1, result |-> result]]
  BY DEF Finish, IInv, Shape, NoTransfer
<1>3. /\ req' = req /\ Stage' = "idle" /\ host'.at = at /\ host'.transfer.result = result
  BY <1>2 DEF req, Stage
<1>4. at \in Values
  <2>1. host.at \in Values
    BY DEF IInv, TypeOK
  <2>2. CASE result = "ok" /\ req.code = "SET_ADDRESS"
    <3>1. req \in Requests
      BY <2>2 DEF IInv, Staged
    <3> QED  BY <1>2, <2>2, <3>1, RequestTypes
  <2>3. CASE ~(result = "ok" /\ req.code = "SET_ADDRESS")
    BY <1>2, <2>1, <2>3
  <2> QED  BY <2>2, <2>3
<1>5. TypeOK'
  BY <1>1, <1>3, <1>4 DEF IInv, TypeOK
<1>6. Shape'
  BY <1>1, <1>2 DEF IInv, Shape
<1>7. Staged'
  BY <1>3 DEF IInv, Staged
<1>8. Addressed'
  <2>1. flag' = "in" => IF SetupReqCode = AddressRequest THEN SetupReqLen = at
                        ELSE address = at
    <3> SUFFICES ASSUME flag' = "in"
                 PROVE  IF SetupReqCode = AddressRequest THEN SetupReqLen = at ELSE address = at
      OBVIOUS
    <3>1. Stage # "idle" /\ req \in Requests
      BY DEF IInv, Staged
    <3>2. /\ req.code \in Codes /\ SetupReqCode = bRequest(req.code)
          /\ req.code = "SET_ADDRESS" => SetupReqLen = req.val
      BY <1>1, <3>1, RequestTypes DEF IInv, Addressed, Dispatched
    <3>3. SetupReqCode = AddressRequest <=> req.code = "SET_ADDRESS"
      BY <3>2, Numbers
    <3>4. CASE req.code # "SET_ADDRESS"
      BY <1>1, <1>2, <3>3, <3>4
    <3>5. CASE req.code = "SET_ADDRESS" /\ result = "ok"
      BY <1>2, <3>2, <3>3, <3>5
    <3>6. CASE req.code = "SET_ADDRESS" /\ result = "stall"
      BY <3>1, <3>6, RequestTypes
    <3> QED  BY <3>4, <3>5, <3>6
  <2>2. flag' # "in" => address = at
    BY <1>1, <1>2
  <2> QED  BY <1>1, <1>3, <2>1, <2>2 DEF IInv, Addressed, AddressAgrees, Dispatched
<1>9. Stalled' /\ Sending' /\ DescriptorWhole'
  BY <1>3 DEF Stalled, StallExact, Sending, Dispatched, DescriptorWhole, Received
<1> QED  BY <1>5, <1>6, <1>7, <1>8, <1>9 DEF IInv

\* either nothing has changed at the host, or the packet has been appended
LEMMA PacketEffect ==
    ASSUME Shape, Stage = "data", host' = AfterPacket
    PROVE  LET rx == host.transfer.rx \o SubSeq(ep0.data, 1, ep0.len)
               last == ep0.len < DevEP0SIZE \/ Len(rx) >= req.len
               next == IF last THEN "status out" ELSE "data"
           IN  \E stage, bytes, tog :
                  /\ host' = [at |-> host.at,
                              transfer |-> [stage |-> stage, req |-> req, rx |-> bytes,
                                            tog |-> tog, result |-> host.transfer.result]]
                  /\ \/ /\ ep0.tog # host.transfer.tog
                        /\ stage = "data" /\ bytes = host.transfer.rx
                        /\ tog = host.transfer.tog
                     \/ /\ ep0.tog = host.transfer.tog
                        /\ stage = next /\ bytes = rx /\ tog = Flip(host.transfer.tog)
<1> DEFINE rx == host.transfer.rx \o SubSeq(ep0.data, 1, ep0.len)
           last == ep0.len < DevEP0SIZE \/ Len(rx) >= req.len
           next == IF last THEN "status out" ELSE "data"
<1> SUFFICES \E stage, bytes, tog :
         /\ host' = [at |-> host.at,
                     transfer |-> [stage |-> stage, req |-> req, rx |-> bytes, tog |-> tog,
                                   result |-> host.transfer.result]]
         /\ \/ /\ ep0.tog # host.transfer.tog
               /\ stage = "data" /\ bytes = host.transfer.rx /\ tog = host.transfer.tog
            \/ /\ ep0.tog = host.transfer.tog
               /\ stage = next /\ bytes = rx /\ tog = Flip(host.transfer.tog)
  BY Zenon
<1>1. /\ host = [at |-> host.at, transfer |-> host.transfer]
      /\ host.transfer = [stage |-> "data", req |-> req, rx |-> host.transfer.rx,
                          tog |-> host.transfer.tog, result |-> host.transfer.result]
  BY DEF Shape, Stage, req
<1>2. CASE ep0.tog # host.transfer.tog
  <2>1. host' = host
    BY <1>2 DEF AfterPacket
  <2> QED  BY <1>1, <1>2, <2>1
<1>3. CASE ep0.tog = host.transfer.tog
  <2> DEFINE h1 == [host EXCEPT !.transfer.rx = rx]
             h2 == [h1 EXCEPT !.transfer.tog = Flip(@)]
             h3 == [h2 EXCEPT !.transfer.stage = next]
  <2>1. host' = h3
    BY <1>3 DEF AfterPacket
  <2> HIDE DEF rx, next
  <2>2. h1 = [at |-> host.at,
              transfer |-> [stage |-> "data", req |-> req, rx |-> rx,
                            tog |-> host.transfer.tog, result |-> host.transfer.result]]
    BY <1>1
  <2> HIDE DEF h1
  <2>3. h2 = [at |-> host.at,
              transfer |-> [stage |-> "data", req |-> req, rx |-> rx,
                            tog |-> Flip(host.transfer.tog), result |-> host.transfer.result]]
    BY <2>2
  <2> HIDE DEF h2
  <2>4. h3 = [at |-> host.at,
              transfer |-> [stage |-> next, req |-> req, rx |-> rx,
                            tog |-> Flip(host.transfer.tog), result |-> host.transfer.result]]
    BY <2>3
  <2> HIDE DEF h3
  <2>5. host' = [at |-> host.at,
                 transfer |-> [stage |-> next, req |-> req, rx |-> rx,
                               tog |-> Flip(host.transfer.tog),
                               result |-> host.transfer.result]]
    BY <2>1, <2>4
  <2> QED  BY <1>3, <2>5
<1> QED  BY <1>2, <1>3

\* the host has a packet of the data stage, new or for the second time
LEMMA PacketTaken ==
    ASSUME IInv, Ready, Stage = "data", ep0.t_res = "ACK", host' = AfterPacket,
           UNCHANGED device, flag' \in {"none", "in"}
    PROVE  IInv'
<1>1. /\ flag = "none" /\ address = host.at
      /\ UNCHANGED <<SetupReqCode, SetupReqLen, pDescr, ep0, address, vals, halted, thread>>
  BY DEF Ready, device
<1>2. /\ req \in Requests /\ req.code \in Codes /\ req.len \in Nat /\ DevEP0SIZE \in Nat
      /\ SetupReqCode = bRequest(req.code)
      /\ req.code \in Get \cup {"GET_REPORT", "SYNCH_FRAME"}
  BY <1>1, RequestTypes, ControlAssumption
     DEF IInv, Staged, Addressed, Dispatched, ControlAssumption
<1>3. req \notin Unsupported
  BY <1>1 DEF IInv, Stalled, Dispatched
<1> DEFINE rx == host.transfer.rx \o SubSeq(ep0.data, 1, ep0.len)
           last == ep0.len < DevEP0SIZE \/ Len(rx) >= req.len
           next == IF last THEN "status out" ELSE "data"
<1>4. PICK stage, bytes, tog :
         /\ host' = [at |-> host.at,
                     transfer |-> [stage |-> stage, req |-> req, rx |-> bytes, tog |-> tog,
                                   result |-> host.transfer.result]]
         /\ \/ /\ ep0.tog # host.transfer.tog
               /\ stage = "data" /\ bytes = host.transfer.rx /\ tog = host.transfer.tog
            \/ /\ ep0.tog = host.transfer.tog
               /\ stage = next /\ bytes = rx /\ tog = Flip(host.transfer.tog)
  <2>1. Shape
    BY DEF IInv
  <2> QED  BY <2>1, PacketEffect
<1>4a. next \in {"data", "status out"}
  OBVIOUS
<1> HIDE DEF rx, last, next
<1>5. /\ req' = req /\ Stage' = stage /\ host'.at = host.at /\ host'.transfer.rx = bytes
      /\ host'.transfer.tog = tog /\ host'.transfer.result = host.transfer.result
      /\ stage \in {"data", "status out"}
  <2>1. stage \in {"data", "status out"}
    BY <1>4, <1>4a
  <2>2. host'.transfer = [stage |-> stage, req |-> req, rx |-> bytes, tog |-> tog,
                          result |-> host.transfer.result] /\ host'.at = host.at
    BY <1>4
  <2>3. /\ host'.transfer.stage = stage /\ host'.transfer.req = req
        /\ host'.transfer.rx = bytes /\ host'.transfer.tog = tog
        /\ host'.transfer.result = host.transfer.result
    BY <2>2
  <2>4. Stage' = stage
    BY <2>3 DEF Stage
  <2>5. req' = req
    BY <2>3 DEF req
  <2> QED  BY <2>1, <2>2, <2>3, <2>4, <2>5
<1>6. TypeOK'
  BY <1>1, <1>5 DEF IInv, TypeOK
<1>7. Shape'
  BY <1>1, <1>4 DEF IInv, Shape
<1>8. Staged'
  BY <1>1, <1>2, <1>5 DEF IInv, Staged
<1>9. Addressed'
  <2>1. SetupReqCode # AddressRequest /\ req.code # "SET_ADDRESS"
    BY <1>2, Numbers DEF Get
  <2> QED  BY <1>1, <1>2, <1>5, <2>1 DEF IInv, Addressed, AddressAgrees, Dispatched
<1>10. Stalled'
  BY <1>1, <1>3, <1>5 DEF IInv, Stalled, StallExact, Dispatched
<1>11. req.code = "GET_DESCRIPTOR" => Sending' /\ DescriptorWhole'
  <2> SUFFICES ASSUME req.code = "GET_DESCRIPTOR"
               PROVE  Sending' /\ DescriptorWhole'
    OBVIOUS
  <2> DEFINE desc == Descriptor[req.what]
             all == Least(req.len, DescLen[desc])
             start == pDescr.at - ep0.len
  <2>1. /\ pDescr.desc = desc /\ start \in Nat /\ pDescr.at <= all
        /\ SetupReqLen = all - pDescr.at
        /\ ep0.len = Least(all - start, DevEP0SIZE)
        /\ ep0.data = Piece(desc, start, ep0.len)
        /\ host.transfer.rx = Piece(desc, 0, IF ep0.tog = host.transfer.tog THEN start
                                             ELSE pDescr.at)
        /\ host.transfer.tog \in {0, 1}
    BY <1>1, <1>3 DEF IInv, Sending, Dispatched
  <2>2. /\ all \in Nat /\ all <= req.len
    <3>1. desc \in DOMAIN DescLen
      BY <1>2, <1>3, RequestTypes
    <3>2. DescLen[desc] \in Nat
      BY <3>1, ControlAssumption DEF ControlAssumption
    <3> QED  BY <1>2, <3>2, LeastOf
  <2>3. pDescr.at \in Nat /\ ep0.len \in Nat /\ ep0.tog \in {0, 1}
    BY <1>2 DEF IInv, TypeOK
  <2> HIDE DEF all, desc
  <2>4. CASE ep0.tog # host.transfer.tog
    BY <1>1, <1>4, <1>5, <2>1, <2>4
       DEF Sending, Dispatched, DescriptorWhole, Received, all, desc
  <2>5. CASE ep0.tog = host.transfer.tog
    <3>1. rx = Piece(desc, 0, pDescr.at) /\ Len(rx) = pDescr.at
      <4>1. SubSeq(ep0.data, 1, ep0.len) = Piece(desc, start, ep0.len)
        BY <2>1, <2>3, PieceLength
      <4>2. rx = Piece(desc, 0, start) \o Piece(desc, start, ep0.len)
        BY <2>1, <2>5, <4>1 DEF rx
      <4>3. start + ep0.len = pDescr.at
        BY <2>1, <2>3
      <4>4. rx = Piece(desc, 0, pDescr.at)
        BY <2>1, <2>3, <4>2, <4>3, PiecesJoin
      <4> QED  BY <2>3, <4>4, PieceLength
    <3>2. bytes = rx /\ tog # ep0.tog /\ tog \in {0, 1}
      BY <1>4, <2>3, <2>5 DEF Flip
    <3>3. Sending'
      BY <1>1, <1>5, <2>1, <3>1, <3>2 DEF Sending, all, desc
    <3>4. stage = "status out" => pDescr.at = all
      <4> SUFFICES ASSUME ep0.len < DevEP0SIZE \/ Len(rx) >= req.len
                   PROVE  pDescr.at = all
        BY <1>4, <2>5 DEF next, last
      <4>1. CASE ep0.len < DevEP0SIZE
        <5>1. ep0.len = all - start
          BY <1>2, <2>1, <2>2, <2>3, <4>1 DEF Least
        <5> QED  BY <2>1, <2>2, <2>3, <5>1
      <4>2. CASE Len(rx) >= req.len
        BY <1>2, <2>1, <2>2, <2>3, <3>1, <4>2
      <4> QED  BY <4>1, <4>2
    <3>5. DescriptorWhole'
      BY <1>5, <3>1, <3>2, <3>4 DEF DescriptorWhole, Received, all, desc
    <3> QED  BY <3>3, <3>5
  <2> QED  BY <2>4, <2>5
<1>12. req.code # "GET_DESCRIPTOR" => Sending' /\ DescriptorWhole'
  BY <1>5 DEF Sending, DescriptorWhole
<1> QED  BY <1>6, <1>7, <1>8, <1>9, <1>10, <1>11, <1>12 DEF IInv

LEMMA DataOutKeeps ==
    ASSUME IInv, DataOut
    PROVE  IInv'
<1>1. /\ flag = "none" /\ address = host.at /\ Stage = "out" /\ flag' = "out"
      /\ UNCHANGED <<SetupReqCode, SetupReqLen, pDescr, ep0, address, vals, halted, thread>>
      /\ host' = [host EXCEPT !.transfer.stage = "status in"]
  BY DEF DataOut, Ready, device
<1>2. req.code = "SET_REPORT" /\ req \in Requests
  BY <1>1 DEF IInv, Staged
<1>3. host' = [at |-> host.at,
               transfer |-> [stage |-> "status in", req |-> req, rx |-> host.transfer.rx,
                             tog |-> host.transfer.tog, result |-> host.transfer.result]]
  BY <1>1 DEF IInv, Shape, req
<1>4. /\ Stage' = "status in" /\ host'.at = host.at
      /\ host'.transfer.result = host.transfer.result
  <2>1. host'.transfer.stage = "status in" /\ host'.at = host.at
        /\ host'.transfer.result = host.transfer.result
    BY <1>3
  <2> QED  BY <2>1 DEF Stage
<1>5. req' = req
  <2>1. host'.transfer.req = req
    BY <1>3
  <2> QED  BY <2>1 DEF req
<1>6. TypeOK'
  BY <1>1, <1>4 DEF IInv, TypeOK
<1>7. Shape'
  <2>1. pDescr' = pDescr /\ ep0' = ep0
    BY <1>1
  <2> QED  BY <1>3, <2>1 DEF IInv, Shape
<1>8. Staged'
  BY <1>1, <1>2, <1>4, <1>5 DEF Staged, Get
<1>9. Addressed'
  BY <1>1, <1>2, <1>4, <1>5 DEF IInv, Addressed, AddressAgrees, Dispatched
<1>10. Stalled' /\ Sending' /\ DescriptorWhole'
  BY <1>1, <1>4, <1>5
     DEF IInv, Stalled, StallExact, Sending, Dispatched, DescriptorWhole, Received
<1> QED  BY <1>6, <1>7, <1>8, <1>9, <1>10 DEF IInv

LEMMA StatusKeeps ==
    ASSUME IInv, StatusOut \/ StatusIn \/ StatusInUnheard \/ SeesStall
    PROVE  IInv'
<1>1. CASE StatusOut
  <2>1. req.code # "SET_ADDRESS"
    BY <1>1 DEF StatusOut, IInv, Staged, Get
  <2> QED  BY <1>1, <2>1, Finished DEF StatusOut
<1>2. CASE StatusIn
  <2>1. Stage # "idle" /\ flag' = "in" /\ Finish("ok") /\ Ready /\ UNCHANGED device
    BY <1>2 DEF StatusIn
  <2> QED  BY <2>1, Finished
<1>3. CASE StatusInUnheard
  <2>1. /\ req.code # "SET_ADDRESS" /\ Finish("ok") /\ Ready /\ UNCHANGED device
        /\ flag' = "none"
    BY <1>3 DEF StatusInUnheard, Ready
  <2> QED  BY <2>1, Finished
<1>4. CASE SeesStall
  <2>1. /\ Stage \in {"data", "out", "status in"} /\ ep0.t_res = "STALL" /\ Finish("stall")
        /\ Ready /\ UNCHANGED device /\ flag = "none" /\ flag' = "none"
    BY <1>4 DEF SeesStall, Ready
  <2>2. req \in Unsupported
    BY <2>1 DEF IInv, Stalled, Dispatched
  <2> QED  BY <2>1, <2>2, Finished
<1> QED  BY <1>1, <1>2, <1>3, <1>4

LEMMA ThreadKeeps ==
    ASSUME IInv, ThreadReads \/ ThreadWrites
    PROVE  IInv'
<1>1. /\ UNCHANGED <<SetupReqCode, SetupReqLen, pDescr, ep0, address, vals, flag, host, known>>
      /\ Stage' = Stage /\ req' = req
  BY DEF ThreadReads, ThreadWrites, Stage, req
<1>2. /\ halted' \subseteq {"in", "out"} /\ arming' \subseteq SUBSET {"out"}
      /\ undone' \in BOOLEAN
  BY DEF ThreadReads, ThreadWrites, IInv, TypeOK
<1>3. TypeOK'
  BY <1>1, <1>2 DEF IInv, TypeOK
<1>4. Shape' /\ Staged' /\ Addressed' /\ Stalled'
  BY <1>1 DEF IInv, Shape, Staged, Addressed, AddressAgrees, Stalled, StallExact, Dispatched
<1>5. Sending' /\ DescriptorWhole'
  BY <1>1 DEF IInv, Sending, Dispatched, DescriptorWhole, Received
<1> QED  BY <1>3, <1>4, <1>5 DEF IInv

\* after a reset, and at the start, no transfer is under way
LEMMA NoTransferYet ==
    /\ NoTransfer.stage = "idle" /\ NoTransfer.req = NoRequest /\ NoTransfer.result = ""
    /\ NoTransfer = [stage |-> NoTransfer.stage, req |-> NoTransfer.req, rx |-> NoTransfer.rx,
                     tog |-> NoTransfer.tog, result |-> NoTransfer.result]
BY DEF NoTransfer

LEMMA BusResetKeeps ==
    ASSUME IInv, BusReset
    PROVE  IInv'
<1>1. /\ flag = "none" /\ flag' = "none" /\ address' = 0 /\ halted' = {} /\ undone' = FALSE
      /\ host' = [at |-> 0, transfer |-> NoTransfer]
      /\ UNCHANGED <<SetupReqCode, SetupReqLen, pDescr, vals, arming>>
  BY DEF BusReset
<1>2. /\ ep0' = [t_res |-> "NAK", r_res |-> "ACK", tog |-> 0, len |-> ep0.len,
                 data |-> ep0.data]
  BY DEF BusReset, IInv, Shape
<1>3. Stage' = "idle"
  BY <1>1, NoTransferYet DEF Stage
<1>4. req' = NoRequest
  BY <1>1, NoTransferYet DEF req
<1>5. TypeOK'
  <2>1. 0 \in Values
    BY ControlAssumption DEF ControlAssumption
  <2>2. /\ ep0'.t_res = "NAK" /\ ep0'.r_res = "ACK" /\ ep0'.tog = 0 /\ ep0'.len = ep0.len
        /\ host'.at = 0
    BY <1>1, <1>2
  <2> QED  BY <1>1, <1>3, <2>1, <2>2 DEF IInv, TypeOK
<1>6. Shape'
  BY <1>1, <1>2, NoTransferYet DEF IInv, Shape
<1>7. Staged' /\ Addressed' /\ Stalled' /\ Sending' /\ DescriptorWhole'
  BY <1>1, <1>3, <1>4, NoTransferYet
     DEF IInv, Staged, Addressed, AddressAgrees, Stalled, StallExact, Sending, Dispatched,
         DescriptorWhole, Received
<1> QED  BY <1>5, <1>6, <1>7 DEF IInv

-----------------------------------------------------------------------------
LEMMA InitEstablishes ==
    ASSUME Init
    PROVE  IInv
<1>1. Stage = "idle" /\ req = NoRequest
  BY NoTransferYet DEF Init, Stage, req
<1>2. TypeOK
  <2>1. DevEP0SIZE \in Nat /\ 0 \in 0 .. DevEP0SIZE /\ 0 \in Values
    BY ControlAssumption DEF ControlAssumption
  <2>2. host.at = 0 /\ pDescr.at = 0
    BY DEF Init, Nothing
  <2>3. /\ ep0.t_res = "NAK" /\ ep0.r_res = "ACK" /\ ep0.tog = 0 /\ ep0.len = 0
        /\ vals \in [config : Values, idle : Values, protocol : Values, sleep : {0, 1}]
    BY <2>1 DEF Init
  <2>4. SetupReqCode = 0 /\ SetupReqLen = 0 /\ address = 0 /\ flag = "none"
    BY DEF Init
  <2>5. /\ halted \subseteq {"in", "out"} /\ arming \subseteq SUBSET {"out"}
        /\ undone \in BOOLEAN
    BY DEF Init
  <2> QED  BY <1>1, <2>1, <2>2, <2>3, <2>4, <2>5 DEF TypeOK
<1>3. Shape
  BY NoTransferYet DEF Init, Shape, Nothing
<1>4. /\ SetupReqCode # AddressRequest /\ flag = "none" /\ address = host.at
      /\ host.transfer.result = ""
  <2>1. SetupReqCode = 0 /\ AddressRequest = 5
    BY Numbers DEF Init
  <2>2. flag = "none" /\ address = 0 /\ host = [at |-> 0, transfer |-> NoTransfer]
    BY DEF Init
  <2>3. host.at = 0 /\ host.transfer = NoTransfer
    BY <2>2
  <2>4. host.transfer.result = ""
    BY <2>3, NoTransferYet, Zenon
  <2>5. SetupReqCode # AddressRequest
    BY <2>1
  <2> QED  BY <2>2, <2>3, <2>4, <2>5
<1>5. Staged /\ Addressed /\ Stalled /\ Sending /\ DescriptorWhole
  BY <1>1, <1>4
     DEF Staged, Addressed, AddressAgrees, Stalled, StallExact, Sending, Dispatched,
         DescriptorWhole, Received
<1> QED  BY <1>2, <1>3, <1>5 DEF IInv

LEMMA StepKeeps ==
    ASSUME IInv, [Next]_vars
    PROVE  IInv'
<1>1. ASSUME NEW r \in Requests, Setup(r) PROVE IInv'
  BY <1>1, SetupArrives
<1>2. CASE DataIn
  BY <1>2, PacketTaken DEF DataIn
<1>3. CASE DataInUnheard
  <2>1. flag' = "none"
    BY <1>3 DEF DataInUnheard, Ready
  <2> QED  BY <1>3, <2>1, PacketTaken DEF DataInUnheard
<1>4. CASE StatusOut \/ StatusIn \/ StatusInUnheard \/ SeesStall
  BY <1>4, StatusKeeps
<1>5. CASE DataOut
  BY <1>5, DataOutKeeps
<1>6. CASE ThreadReads \/ ThreadWrites
  BY <1>6, ThreadKeeps
<1>7. CASE BusReset
  BY <1>7, BusResetKeeps
<1>8. CASE SetupDescriptor
  BY <1>8, DescriptorHandled, SetupKeeps
<1>9. CASE SetupUnsupported \/ SetupAddress \/ SetupSet \/ SetupFeature \/ SetupGet
  BY <1>9, OthersHandled, SetupKeeps
<1>10. CASE InDescriptor
  BY <1>10, InDescriptorKeeps
<1>11. CASE InAddress \/ InFeature \/ InOther \/ InterruptOut
  BY <1>11, InOthersKeep
<1>12. CASE UNCHANGED vars
  <2>1. /\ UNCHANGED <<SetupReqCode, SetupReqLen, pDescr, ep0, address, vals, halted, thread, flag,
                     host>>
        /\ Stage' = Stage /\ req' = req
    BY <1>12 DEF vars, Stage, req
  <2>2. TypeOK' /\ Shape'
    BY <2>1 DEF IInv, TypeOK, Shape
  <2>3. Staged' /\ Addressed' /\ Stalled' /\ Sending' /\ DescriptorWhole'
    BY <2>1 DEF IInv, Staged, Addressed, AddressAgrees, Stalled, StallExact, Sending,
                Dispatched, DescriptorWhole, Received
  <2> QED  BY <2>2, <2>3 DEF IInv
<1> QED  BY <1>1, <1>2, <1>3, <1>4, <1>5, <1>6, <1>7, <1>8, <1>9, <1>10, <1>11, <1>12 DEF Next

LEMMA Invariant == Spec => []IInv
<1>1. Init => IInv
  BY InitEstablishes
<1>2. IInv /\ [Next]_vars => IInv'
  BY StepKeeps
<1> QED  BY <1>1, <1>2, PTL DEF Spec

(* Registers and values keep their types: no packet is longer than the     *)
(* buffer, and the address is one the host has given.                      *)
THEOREM TypeCorrect == Spec => []TypeOK
<1>1. IInv => TypeOK
  BY DEF IInv
<1> QED  BY <1>1, Invariant, PTL

(* InAddress takes the address exactly when the host does.                 *)
THEOREM AddressWithStatus == Spec => []AddressAgrees
<1>1. IInv => AddressAgrees
  BY DEF IInv, Addressed
<1> QED  BY <1>1, Invariant, PTL

(* Only a request USB_DevTransProcess has no answer for ends with a stall. *)
THEOREM StallsOnlyUnsupported == Spec => []StallExact
<1>1. IInv => StallExact
  BY DEF IInv, Stalled
<1> QED  BY <1>1, Invariant, PTL

(* A descriptor of any length arrives whole in packets of any size,        *)
(* whatever is repeated, dropped or reset.                                 *)
THEOREM DescriptorsWhole == Spec => []DescriptorWhole
<1>1. IInv => DescriptorWhole
  BY DEF IInv
<1> QED  BY <1>1, Invariant, PTL

-----------------------------------------------------------------------------
(* Values read back.  What the device holds for each item the host can set *)
(* and ask for:                                                            *)
Items == {"config", "idle", "protocol", "device", "in", "out"}

ValueOf(item) ==
    CASE item = "config"   -> vals.config
      [] item = "idle"     -> vals.idle
      [] item = "protocol" -> vals.protocol
      [] item = "device"   -> 2 * vals.sleep
      [] item = "in"       -> IF "in" \in halted THEN 1 ELSE 0
      [] item = "out"      -> IF "out" \in halted THEN 1 ELSE 0

\* no write of the thread has undone what was asked of the item
Kept(item) == ~(item = "out" /\ undone)

\* a value the device has taken for the host, and holds unless the thread undid it
Holds(set) == /\ set.item \in Items /\ (Kept(set.item) => ValueOf(set.item) = set.val)
              /\ set.item = "in" => set.val = 0

Changes(r, item) == SetItem(r).item = item \/ (r \in Features /\ r.what = item)

\* the packet in the buffer, as the host takes it
Sent == SubSeq(ep0.data, 1, ep0.len)

Bytes == {Value(v) : v \in Nat}

(* The device holds what the host knows, unless a request that is to       *)
(* change it is under way, and what the host is about to know; the answer  *)
(* to a question is in the buffer or with the host.  What is said of 0x01  *)
(* is void as long as a write of the thread has undone the last change.    *)
Known == known # NoValue => Holds(known) /\ (flag = "setup" => ~Changes(req, known.item))

Taken ==
    Dispatched /\ Stage = "status in" /\ SetItem(req) # NoValue => Holds(SetItem(req))

Asking == Dispatched /\ Stage \in {"data", "status out"} /\ AskedItem(req) \in Items

Answered ==
    Asking /\ known # NoValue /\ AskedItem(req) = known.item /\ Kept(known.item) =>
        IF host.transfer.rx = <<>>
        THEN /\ Stage = "data" /\ flag = "none"
             /\ ep0.t_res = "ACK" /\ ep0.tog = host.transfer.tog
             /\ Sent \in Seq(Bytes) /\ Sent # <<>> /\ Sent[1] = Value(known.val)
        ELSE /\ host.transfer.rx[1] = Value(known.val)
             /\ Stage = "data" => ep0.t_res = "NAK" \/ ep0.tog # host.transfer.tog

RInv == Known /\ Taken /\ Answered

(* What a request sets is one of the items, by its code and recipient.     *)
LEMMA WhatIsSet ==
    ASSUME NEW r \in Requests
    PROVE  /\ SetItem(r) = NoValue \/ r \in Sets \cup Features
           /\ SetItem(r) # NoValue => SetItem(r).item \in Items
           /\ SetItem(r).item = "in" => SetItem(r).val = 0
           /\ r.code = "SET_CONFIGURATION" => SetItem(r) = [item |-> "config", val |-> r.val]
           /\ r.code = "SET_IDLE" => SetItem(r) = [item |-> "idle", val |-> r.val]
           /\ r.code = "SET_PROTOCOL" => SetItem(r) = [item |-> "protocol", val |-> r.val]
           /\ r.code \notin {"SET_CONFIGURATION", "SET_IDLE", "SET_PROTOCOL",
                             "SET_FEATURE", "CLEAR_FEATURE"} => SetItem(r) = NoValue
<1>1. r.code \in {"SET_CONFIGURATION", "SET_IDLE", "SET_PROTOCOL"} => r \in Sets
  <2>1. r \in Features => r.code \in {"SET_FEATURE", "CLEAR_FEATURE"}
    BY DEF Features
  <2>2. r \in Descriptors => r.code = "GET_DESCRIPTOR"
    BY DEF Descriptors
  <2>3. r \in Others => r.code \notin {"SET_CONFIGURATION", "SET_IDLE", "SET_PROTOCOL"}
    BY OtherRequests
  <2>4. r \in Unsupported => r.code \notin {"SET_CONFIGURATION", "SET_IDLE", "SET_PROTOCOL"}
    BY RequestTypes
  <2> QED  BY <2>1, <2>2, <2>3, <2>4 DEF Requests
<1>2. r.code = "SET_FEATURE" => r \in Features
  <2>1. r \in Sets => r.code # "SET_FEATURE"
    BY ControlAssumption DEF Sets, ControlAssumption
  <2>2. r \in Descriptors => r.code # "SET_FEATURE"
    BY DEF Descriptors
  <2>3. r \in Others => r.code # "SET_FEATURE"
    BY OtherRequests
  <2>4. r \in Unsupported => r.code # "SET_FEATURE"
    BY RequestTypes
  <2> QED  BY <2>1, <2>2, <2>3, <2>4 DEF Requests
<1>3. r \in Features => /\ r.code \in {"SET_FEATURE", "CLEAR_FEATURE"}
                        /\ r.what \in {"device", "in", "out"}
  BY ControlAssumption DEF Features, ControlAssumption
<1>4. CASE r.code \in {"SET_CONFIGURATION", "SET_IDLE", "SET_PROTOCOL"}
  BY <1>1, <1>4 DEF SetItem, Items, NoValue
<1>5. CASE r.code = "CLEAR_FEATURE"
  BY <1>3, <1>5 DEF SetItem, Items, NoValue
<1>6. CASE r.code = "SET_FEATURE"
  BY <1>2, <1>3, <1>6 DEF SetItem, Items, NoValue
<1>7. CASE r.code \notin {"SET_CONFIGURATION", "SET_IDLE", "SET_PROTOCOL",
                          "SET_FEATURE", "CLEAR_FEATURE"}
  BY <1>7 DEF SetItem, Items, NoValue
<1> QED  BY <1>4, <1>5, <1>6, <1>7

LEMMA UnsupportedFeature ==
    ASSUME NEW r \in Unsupported, r.code = "CLEAR_FEATURE" PROVE r.what = "interface"
<1> DEFINE A == [code : {"GET_DESCRIPTOR"}, what : {"string3"}, val : {0}, len : {2}]
           B == [code : {"CLEAR_FEATURE"}, what : {"interface"}, val : {1}, len : {0}]
           C == [code : {"GET_REPORT", "SYNCH_FRAME"}, what : {""}, val : {0}, len : {2}]
<1>1. r \in A => r.code = "GET_DESCRIPTOR"
  OBVIOUS
<1>2. r \in B => r.what = "interface"
  OBVIOUS
<1>3. r \in C => r.code \in {"GET_REPORT", "SYNCH_FRAME"}
  OBVIOUS
<1>4. r \in A \/ r \in B \/ r \in C
  BY DEF Unsupported
<1> HIDE DEF A, B, C
<1> QED  BY <1>1, <1>2, <1>3, <1>4

(* A feature request sets the value of its recipient, but for the halt of  *)
(* the input endpoint, which it can only take back.                        *)
LEMMA FeatureItem ==
    ASSUME NEW r \in Features
    PROVE  /\ r.code \in {"SET_FEATURE", "CLEAR_FEATURE"} /\ r.what \in {"device", "in", "out"}
           /\ r.code = "CLEAR_FEATURE" => SetItem(r) = [item |-> r.what, val |-> 0]
           /\ r.code = "SET_FEATURE" /\ r.what = "device" =>
                 SetItem(r) = [item |-> "device", val |-> 2]
           /\ r.code = "SET_FEATURE" /\ r.what = "out" =>
                 SetItem(r) = [item |-> "out", val |-> 1]
           /\ r.code = "SET_FEATURE" /\ r.what = "in" => SetItem(r) = NoValue
<1>1. r.code \in {"SET_FEATURE", "CLEAR_FEATURE"} /\ r.what \in {"device", "in", "out"}
  BY ControlAssumption DEF Features, ControlAssumption
<1>2. CASE r.code = "CLEAR_FEATURE"
  BY <1>1, <1>2 DEF SetItem
<1>3. CASE r.code = "SET_FEATURE"
  BY <1>1, <1>3 DEF SetItem
<1> QED  BY <1>1, <1>2, <1>3

(* A question is answered with one byte or two.                            *)
LEMMA WhatIsAsked ==
    ASSUME NEW r \in Requests, AskedItem(r) \in Items
    PROVE  /\ r.code \in {"GET_CONFIGURATION", "GET_IDLE", "GET_PROTOCOL", "GET_STATUS"}
           /\ r.len \in {1, 2}
           /\ r.code = "GET_STATUS" => r.what \in {"device", "in", "out"}
<1>1. r.code \in {"GET_CONFIGURATION", "GET_IDLE", "GET_PROTOCOL", "GET_STATUS"}
  BY DEF AskedItem, Items
<1>2. r \notin Features \cup Sets \cup Descriptors
  BY <1>1, ControlAssumption DEF Features, Sets, Descriptors, ControlAssumption
<1>3. r \notin Unsupported
  BY <1>1, RequestTypes
<1>4. r \in Others
  BY <1>2, <1>3 DEF Requests
<1> QED  BY <1>1, <1>4, OtherRequests

-----------------------------------------------------------------------------
(* The values through the steps                                            *)

\* the host has taken nothing and given nothing, and the device changes no value
LEMMA ValuesStay ==
    ASSUME RInv, UNCHANGED <<vals, halted, thread, host, known>>,
           flag' # "setup", flag = "setup" => SetItem(req) = NoValue,
           AskedItem(req) \in Items =>
              flag \in {"in", "out"} /\ (ep0' = ep0 \/ ep0'.t_res = "NAK")
    PROVE  RInv'
<1>1. req' = req /\ Stage' = Stage
  BY DEF req, Stage
<1>2. ASSUME NEW set PROVE Holds(set)' <=> Holds(set)
  BY DEF Holds, Kept, ValueOf
<1>3. Known'
  BY <1>2 DEF RInv, Known
<1>4. Taken'
  BY <1>1, <1>2 DEF RInv, Taken, Dispatched
<1>5. Answered'
  <2> SUFFICES ASSUME Asking', known # NoValue, AskedItem(req) = known.item, Kept(known.item)
               PROVE  Answered'
    BY <1>1 DEF Answered, Kept
  <2>1. flag \in {"in", "out"} /\ (ep0' = ep0 \/ ep0'.t_res = "NAK")
    BY <1>1 DEF Asking
  <2>2. Asking
    BY <1>1, <2>1 DEF Asking, Dispatched
  <2>3. /\ host.transfer.rx # <<>> /\ host.transfer.rx[1] = Value(known.val)
        /\ Stage = "data" => ep0.t_res = "NAK" \/ ep0.tog # host.transfer.tog
    BY <2>1, <2>2 DEF RInv, Answered
  <2> QED  BY <1>1, <2>1, <2>3 DEF Answered
<1> QED  BY <1>3, <1>4, <1>5 DEF RInv

\* a SETUP that sets nothing and asks for none of the items
LEMMA SetupOthersRead ==
    ASSUME IInv, RInv, SetupDescriptor \/ SetupUnsupported \/ SetupAddress
    PROVE  RInv'
<1>1. /\ flag = "setup" /\ flag' = "none"
      /\ UNCHANGED <<vals, halted, thread, host, known>>
  BY DEF SetupDescriptor, SetupUnsupported, SetupAddress, SetupStart
<1>2. req \in Requests
  BY <1>1, Asked
<1>3. \/ req \in Unsupported
      \/ req.code \in {"GET_DESCRIPTOR", "SET_ADDRESS"}
  BY DEF SetupDescriptor, SetupUnsupported, SetupAddress
<1>4. SetItem(req) = NoValue
  <2>1. req \in Unsupported => req \notin Features
    <3>1. req \in Features => /\ req.code \in {"SET_FEATURE", "CLEAR_FEATURE"}
                             /\ req.what \in {"device", "in", "out"}
      BY ControlAssumption DEF Features, ControlAssumption
    <3>2. req \in Unsupported /\ req.code = "CLEAR_FEATURE" => req.what = "interface"
      BY UnsupportedFeature
    <3>3. req \in Unsupported => req.code # "SET_FEATURE"
      BY <1>2, RequestTypes
    <3> QED  BY <3>1, <3>2, <3>3
  <2>2. req \in Unsupported =>
           req.code \in {"GET_DESCRIPTOR", "CLEAR_FEATURE", "GET_REPORT", "SYNCH_FRAME"}
    BY <1>2, RequestTypes
  <2>3. req \in Unsupported \cup Sets \cup Features
           => req.code # "CLEAR_FEATURE" \/ SetItem(req) = NoValue \/ req \in Features
    BY DEF SetItem
  <2> QED  BY <1>2, <1>3, <2>1, <2>2, <2>3, WhatIsSet
<1>5. AskedItem(req) \notin Items
  <2>1. req \in Unsupported =>
           req.code \in {"GET_DESCRIPTOR", "CLEAR_FEATURE", "GET_REPORT", "SYNCH_FRAME"}
    BY <1>2, RequestTypes
  <2> QED  BY <1>2, <1>3, <2>1, WhatIsAsked
<1> QED  BY <1>1, <1>4, <1>5, ValuesStay

\* an interrupt after a packet
LEMMA InterruptsRead ==
    ASSUME IInv, RInv, InDescriptor \/ InAddress \/ InFeature \/ InOther \/ InterruptOut
    PROVE  RInv'
<1>1. /\ flag \in {"in", "out"} /\ flag' = "none"
      /\ UNCHANGED <<vals, halted, thread, host, known>>
  BY DEF InDescriptor, InAddress, InFeature, InOther, InterruptOut, InStart, device
<1>2. CASE AskedItem(req) \notin Items
  BY <1>1, <1>2, ValuesStay
<1>3. CASE InAddress \/ InFeature \/ InOther \/ InterruptOut
  <2>1. ep0' = ep0 \/ ep0'.t_res = "NAK"
    BY <1>3 DEF InAddress, InFeature, InOther, InterruptOut, device, IInv, Shape
  <2> QED  BY <1>1, <2>1, ValuesStay
<1>4. CASE InDescriptor /\ AskedItem(req) \in Items
  <2>1. Stage # "idle" => req.code = "GET_DESCRIPTOR"
    <3> SUFFICES ASSUME Stage # "idle" PROVE req.code = "GET_DESCRIPTOR"
      OBVIOUS
    <3>1. req.code \in Codes /\ SetupReqCode = bRequest(req.code)
      BY <1>1, RequestTypes DEF IInv, Staged, Addressed, Dispatched
    <3>2. SetupReqCode = DescriptorRequest
      BY <1>4 DEF InDescriptor, DescriptorRequest
    <3> QED  BY <3>1, <3>2, Numbers
  <2>2. Stage = "idle"
    BY <1>4, <2>1 DEF AskedItem, Items
  <2>3. Stage' = "idle" /\ req' = req
    BY <1>1, <2>2 DEF Stage, req
  <2>4. ASSUME NEW set PROVE Holds(set)' <=> Holds(set)
    BY <1>1 DEF Holds, Kept, ValueOf
  <2> QED  BY <1>1, <2>3, <2>4 DEF RInv, Known, Taken, Answered, Asking, Dispatched
<1> QED  BY <1>2, <1>3, <1>4

\* a SETUP that sets a value
LEMMA SetupSetsRead ==
    ASSUME IInv, RInv, SetupSet \/ SetupFeature
    PROVE  RInv'
<1>1. /\ flag = "setup" /\ flag' = "none" /\ UNCHANGED <<host, known>>
      /\ req' = req /\ Stage' = Stage
  BY DEF SetupSet, SetupFeature, SetupStart, req, Stage
<1>2. /\ req \in Requests
      /\ vals \in [config : Values, idle : Values, protocol : Values, sleep : {0, 1}]
  BY <1>1, Asked DEF IInv, TypeOK
\* what the request does not set keeps its value
<1>3. ASSUME NEW item \in Items, ~Changes(req, item)
      PROVE  ValueOf(item)' = ValueOf(item) /\ (Kept(item)' <=> Kept(item))
  <2>1. CASE SetupSet
    <3>1. halted' = halted /\ undone' = undone
          /\ req.code \in {"SET_CONFIGURATION", "SET_IDLE", "SET_PROTOCOL",
                                           "SET_INTERFACE", "SET_REPORT"}
      BY <2>1 DEF SetupSet
    <3>2. /\ vals'.sleep = vals.sleep
          /\ req.code # "SET_CONFIGURATION" => vals'.config = vals.config
          /\ req.code # "SET_IDLE" => vals'.idle = vals.idle
          /\ req.code # "SET_PROTOCOL" => vals'.protocol = vals.protocol
      BY <1>2, <2>1, <3>1 DEF SetupSet
    <3>3. /\ req.code = "SET_CONFIGURATION" => item # "config"
          /\ req.code = "SET_IDLE" => item # "idle"
          /\ req.code = "SET_PROTOCOL" => item # "protocol"
      BY <1>2, <1>3, WhatIsSet DEF Changes
    <3> QED  BY <1>3, <3>1, <3>2, <3>3 DEF ValueOf, Kept, Items
  <2>2. CASE SetupFeature
    <3>1. req \in Features /\ req.what # item
      BY <1>3, <2>2 DEF SetupFeature, Changes
    <3>2. /\ vals'.config = vals.config /\ vals'.idle = vals.idle
          /\ vals'.protocol = vals.protocol
          /\ req.what # "device" => vals' = vals
      BY <1>2, <2>2 DEF SetupFeature
    <3>3. /\ item = "in" => ("in" \in halted' <=> "in" \in halted)
          /\ item = "out" => ("out" \in halted' <=> "out" \in halted)
          /\ item = "out" => (undone' <=> undone)
      BY <2>2, <3>1 DEF SetupFeature
    <3> QED  BY <1>3, <3>1, <3>2, <3>3 DEF ValueOf, Kept, Items
  <2> QED  BY <2>1, <2>2
<1>4. ASSUME NEW set, set = SetItem(req), set # NoValue PROVE Holds(set)'
  <2>1. set.item \in Items /\ (set.item = "in" => set.val = 0)
    BY <1>2, <1>4, WhatIsSet
  <2>2. ValueOf(set.item)' = set.val
    <3>1. CASE SetupSet
      <4>1. req.code \in {"SET_CONFIGURATION", "SET_IDLE", "SET_PROTOCOL"}
        BY <1>2, <1>4, <3>1, WhatIsSet DEF SetupSet
      <4>2. /\ req.code = "SET_CONFIGURATION" => vals'.config = req.val
            /\ req.code = "SET_IDLE" => vals'.idle = req.val
            /\ req.code = "SET_PROTOCOL" => vals'.protocol = req.val
        BY <1>2, <3>1 DEF SetupSet
      <4>3. \/ req.code = "SET_CONFIGURATION" /\ set = [item |-> "config", val |-> req.val]
            \/ req.code = "SET_IDLE" /\ set = [item |-> "idle", val |-> req.val]
            \/ req.code = "SET_PROTOCOL" /\ set = [item |-> "protocol", val |-> req.val]
        BY <1>2, <1>4, <4>1, WhatIsSet
      <4>4. \/ req.code = "SET_CONFIGURATION" /\ set.item = "config" /\ set.val = req.val
            \/ req.code = "SET_IDLE" /\ set.item = "idle" /\ set.val = req.val
            \/ req.code = "SET_PROTOCOL" /\ set.item = "protocol" /\ set.val = req.val
        BY <4>3
      <4> QED  BY <4>2, <4>4 DEF ValueOf
    <3>2. CASE SetupFeature
      <4>1. req \in Features
        BY <3>2 DEF SetupFeature
      <4>2. \/ req.code = "CLEAR_FEATURE" /\ req.what = "device"
               /\ set = [item |-> "device", val |-> 0]
            \/ req.code = "CLEAR_FEATURE" /\ req.what = "in" /\ set = [item |-> "in", val |-> 0]
            \/ req.code = "CLEAR_FEATURE" /\ req.what = "out"
               /\ set = [item |-> "out", val |-> 0]
            \/ req.code = "SET_FEATURE" /\ req.what = "device"
               /\ set = [item |-> "device", val |-> 2]
            \/ req.code = "SET_FEATURE" /\ req.what = "out" /\ set = [item |-> "out", val |-> 1]
        BY <1>4, <4>1, FeatureItem
      <4>3. /\ req.what = "device" => vals'.sleep = IF req.code = "SET_FEATURE" THEN 1 ELSE 0
            /\ req.code = "CLEAR_FEATURE" => req.what \notin halted'
            /\ req.code = "SET_FEATURE" /\ req.what = "out" => "out" \in halted'
        BY <1>2, <3>2 DEF SetupFeature
      <4>4. CASE req.what = "device"
        <5>1. set.item = "device" /\ set.val = IF req.code = "SET_FEATURE" THEN 2 ELSE 0
          BY <4>2, <4>4
        <5> QED  BY <4>3, <4>4, <5>1 DEF ValueOf
      <4>5. CASE req.what \in {"in", "out"} /\ req.code = "CLEAR_FEATURE"
        <5>1. set.item = req.what /\ set.val = 0
          BY <4>2, <4>5
        <5> QED  BY <4>3, <4>5, <5>1 DEF ValueOf
      <4>6. CASE req.what = "out" /\ req.code = "SET_FEATURE"
        <5>1. set.item = "out" /\ set.val = 1
          BY <4>2, <4>6
        <5> QED  BY <4>3, <4>6, <5>1 DEF ValueOf
      <4> QED  BY <4>2, <4>4, <4>5, <4>6
    <3> QED  BY <3>1, <3>2
  <2> QED  BY <2>1, <2>2 DEF Holds
<1>5. Known'
  BY <1>1, <1>3 DEF RInv, Known, Holds
<1>6. Taken'
  BY <1>1, <1>4 DEF Taken
<1>7. Answered'
  <2>1. req.code \notin {"GET_CONFIGURATION", "GET_IDLE", "GET_PROTOCOL", "GET_STATUS"}
    BY FeatureItem DEF SetupSet, SetupFeature
  <2> QED  BY <1>1, <1>2, <2>1, WhatIsAsked DEF Answered, Asking
<1> QED  BY <1>5, <1>6, <1>7 DEF RInv

(* The first n elements of a sequence.                                     *)
LEMMA Front ==
    ASSUME NEW S, NEW s \in Seq(S), NEW n \in 1 .. Len(s)
    PROVE  /\ SubSeq(s, 1, n) \in Seq(S) /\ Len(SubSeq(s, 1, n)) = n
           /\ SubSeq(s, 1, n)[1] = s[1] /\ SubSeq(s, 1, n) # <<>>
<1>1. SubSeq(s, 1, n) \in Seq(S) /\ Len(SubSeq(s, 1, n)) = n /\ SubSeq(s, 1, n)[1] = s[1]
  BY SubSeqProperties
<1> QED  BY <1>1

\* a SETUP that asks for a value
LEMMA SetupGetRead ==
    ASSUME IInv, RInv, SetupGet
    PROVE  RInv'
<1>1. /\ flag = "setup" /\ flag' = "none" /\ UNCHANGED <<vals, halted, thread, host, known>>
      /\ req.code \in Get \ {"GET_DESCRIPTOR"}
      /\ req' = req /\ Stage' = Stage
  BY DEF SetupGet, SetupStart, req, Stage
<1>2. /\ req \in Requests /\ DevEP0SIZE \in Nat \ {0}
      /\ vals \in [config : Values, idle : Values, protocol : Values, sleep : {0, 1}]
      /\ Values \subseteq Nat
  BY <1>1, Asked, ControlAssumption DEF IInv, TypeOK, ControlAssumption
<1>3. ASSUME NEW set PROVE Holds(set)' <=> Holds(set)
  BY <1>1 DEF Holds, Kept, ValueOf
<1>4. Known' /\ Taken'
  <2>1. SetItem(req) = NoValue
    BY <1>1, <1>2, WhatIsSet DEF Get
  <2> QED  BY <1>1, <1>3, <2>1 DEF RInv, Known, Taken
<1>5. Answered'
  <2> SUFFICES ASSUME Asking', known # NoValue, AskedItem(req) = known.item, Kept(known.item)
               PROVE  Answered'
    BY <1>1 DEF Answered, Kept
  <2>1. /\ AskedItem(req) \in Items
        /\ Stage \in {"data", "status out"}
    BY <1>1 DEF Asking
  <2>2. /\ req.code \in {"GET_CONFIGURATION", "GET_IDLE", "GET_PROTOCOL", "GET_STATUS"}
        /\ req.len \in {1, 2}
        /\ req.code = "GET_STATUS" => req.what \in {"device", "in", "out"}
    BY <1>2, <2>1, WhatIsAsked
  <2> DEFINE value == ValueOf(AskedItem(req))
             data == SubSeq(<<Value(value), Value(0)>>, 1, req.len)
             len == Least(req.len, DevEP0SIZE)
  <2>3. value \in Nat /\ value = known.val
    <3>1. value = known.val
      BY <2>1 DEF RInv, Known, Holds
    <3>2. /\ vals.config \in Nat /\ vals.idle \in Nat /\ vals.protocol \in Nat
          /\ 2 * vals.sleep \in Nat
      <4>1. /\ vals.config \in Values /\ vals.idle \in Values /\ vals.protocol \in Values
            /\ vals.sleep \in {0, 1}
        BY <1>2
      <4>2. vals.sleep = 0 \/ vals.sleep = 1
        BY <4>1
      <4>3. 2 * vals.sleep \in Nat
        BY <4>2
      <4>4. Values \subseteq Nat
        BY <1>2
      <4> QED  BY <4>1, <4>3, <4>4
    <3>3. value \in Nat
      BY <2>1, <3>2 DEF ValueOf, Items
    <3> QED  BY <3>1, <3>3
  <2>4. Answer(req.len, data)
    <3>1. CASE req.code \in {"GET_CONFIGURATION", "GET_IDLE", "GET_PROTOCOL"}
      BY <3>1 DEF SetupGet, ValueOf, AskedItem
    <3>2. CASE req.code = "GET_STATUS"
      BY <2>2, <3>2 DEF SetupGet, ValueOf, AskedItem
    <3> QED  BY <2>2, <3>1, <3>2
  <2> HIDE DEF value
  <2>5. /\ <<Value(value), Value(0)>> \in Seq(Bytes) /\ Len(<<Value(value), Value(0)>>) = 2
        /\ <<Value(value), Value(0)>>[1] = Value(value)
    BY <2>3 DEF Bytes
  <2>6. /\ data \in Seq(Bytes) /\ Len(data) = req.len /\ data[1] = Value(value)
    BY <2>2, <2>5, Front
  <2>7. len \in 1 .. req.len
    BY <1>2, <2>2 DEF Least
  <2> HIDE DEF data, len
  <2>8. ep0' = [t_res |-> "ACK", r_res |-> "ACK", tog |-> 1, len |-> len, data |-> data]
    BY <1>1, <2>4 DEF Answer, len, Get
  <2>9. Sent' = SubSeq(data, 1, len)
    BY <2>8 DEF Sent
  <2>10. Sent' \in Seq(Bytes) /\ Sent' # <<>> /\ Sent'[1] = Value(known.val)
    BY <2>3, <2>6, <2>7, <2>9, Front
  <2>11. Stage = "data" /\ host.transfer.rx = <<>> /\ host.transfer.tog = 1
    BY <1>1, <2>1 DEF IInv, Staged
  <2>12. ep0'.t_res = "ACK" /\ ep0'.tog = 1
    BY <2>8
  <2> QED  BY <1>1, <2>10, <2>11, <2>12 DEF Answered
<1> QED  BY <1>4, <1>5 DEF RInv

\* a value is held as long as nothing changes it; that of the input halt survives its
\* end, and a change of the other by the thread is taken down
LEMMA HeldOn ==
    ASSUME NEW set, Holds(set), vals' = vals,
           \/ halted' = halted /\ undone' = undone
           \/ /\ "in" \notin halted'
              /\ undone' = (undone \/ ("out" \in halted') # ("out" \in halted))
    PROVE  Holds(set)'
<1>1. /\ set.item \in Items /\ (Kept(set.item) => ValueOf(set.item) = set.val)
      /\ (set.item = "in" => set.val = 0)
  BY DEF Holds
<1>2. CASE set.item = "in"
  <2>1. ValueOf("in") = 0 => ValueOf("in")' = 0
    BY DEF ValueOf
  <2> QED  BY <1>1, <1>2, <2>1 DEF Holds, Kept
<1>3. CASE set.item = "out"
  <2>1. ~undone' => ~undone /\ ("out" \in halted' <=> "out" \in halted)
    OBVIOUS
  <2>2. Kept("out")' => Kept("out") /\ ValueOf("out")' = ValueOf("out")
    BY <2>1 DEF Kept, ValueOf
  <2> QED  BY <1>1, <1>3, <2>2 DEF Holds
<1>4. CASE set.item \notin {"in", "out"}
  <2>1. ASSUME NEW item \in Items \ {"in", "out"} PROVE ValueOf(item)' = ValueOf(item)
    BY DEF ValueOf, Items
  <2> QED  BY <1>1, <1>4, <2>1 DEF Holds, Kept
<1> QED  BY <1>2, <1>3, <1>4

\* a SETUP arrives: what it is to change is known no more
LEMMA SetupReads ==
    ASSUME IInv, RInv, NEW r \in Requests, Setup(r)
    PROVE  RInv'
<1>1. /\ flag' = "setup" /\ UNCHANGED <<vals, halted, thread>>
      /\ known' = IF Changes(r, known.item) THEN NoValue ELSE known
      /\ host' = [host EXCEPT !.transfer =
                      [NoTransfer EXCEPT !.stage = FirstStage(r), !.req = r]]
  BY DEF Setup, device, Changes
<1>2. PICK s : host' = [at |-> host.at,
                        transfer |-> [stage |-> s, req |-> r, rx |-> <<>>, tog |-> 1,
                                      result |-> ""]]
  BY <1>1 DEF IInv, Shape, NoTransfer
<1>3. req' = r
  BY <1>2 DEF req
<1>4. Known'
  <2> SUFFICES ASSUME known' # NoValue
               PROVE  Holds(known)' /\ ~Changes(req, known.item)'
    BY DEF Known
  <2>1. known' = known /\ ~Changes(r, known.item)
    BY <1>1
  <2>2. Holds(known)
    BY <2>1 DEF RInv, Known
  <2>3. ASSUME NEW set, set = known PROVE Holds(set)'
    BY <1>1, <2>2, <2>3, HeldOn
  <2>4. Holds(known)'
    BY <2>1, <2>3 DEF Holds
  <2>5. ~Changes(req, known.item)'
    BY <1>3, <2>1 DEF Changes
  <2> QED  BY <2>4, <2>5
<1>5. Taken' /\ Answered'
  BY <1>1 DEF Taken, Answered, Asking, Dispatched
<1> QED  BY <1>4, <1>5 DEF RInv

\* a packet of the data stage: the first has the value, and no other is appended to it
LEMMA PacketReads ==
    ASSUME IInv, RInv, DataIn \/ DataInUnheard
    PROVE  RInv'
<1>1. /\ flag = "none" /\ flag' # "setup" /\ Stage = "data" /\ ep0.t_res = "ACK"
      /\ UNCHANGED <<ep0, vals, halted, thread, known>>
      /\ host' = AfterPacket
  BY DEF DataIn, DataInUnheard, Ready, device
<1> DEFINE rx == host.transfer.rx \o SubSeq(ep0.data, 1, ep0.len)
           last == ep0.len < DevEP0SIZE \/ Len(rx) >= req.len
           next == IF last THEN "status out" ELSE "data"
<1>2. PICK stage, bytes, tog :
         /\ host' = [at |-> host.at,
                     transfer |-> [stage |-> stage, req |-> req, rx |-> bytes, tog |-> tog,
                                   result |-> host.transfer.result]]
         /\ \/ /\ ep0.tog # host.transfer.tog
               /\ stage = "data" /\ bytes = host.transfer.rx /\ tog = host.transfer.tog
            \/ /\ ep0.tog = host.transfer.tog
               /\ stage = next /\ bytes = rx /\ tog = Flip(host.transfer.tog)
  BY <1>1, PacketEffect DEF IInv
<1>3. /\ req' = req /\ Stage' = stage /\ stage \in {"data", "status out"}
      /\ host'.transfer.rx = bytes /\ host'.transfer.tog = tog
  BY <1>2 DEF req, Stage
<1>4. Known'
  <2>1. ASSUME NEW set, Holds(set) PROVE Holds(set)'
    BY <1>1, <2>1, HeldOn
  <2> QED  BY <1>1, <2>1 DEF RInv, Known, Holds
<1>5. Taken'
  BY <1>3 DEF Taken
<1>6. Answered'
  <2> SUFFICES ASSUME AskedItem(req) \in Items, known # NoValue, AskedItem(req) = known.item,
                      Kept(known.item)
               PROVE  Answered'
    BY <1>1, <1>3 DEF Answered, Asking, Kept
  <2>1. Asking
    BY <1>1 DEF Asking, Dispatched
  <2>2. bytes # <<>> /\ bytes[1] = Value(known.val)
        /\ (stage = "data" => ep0.t_res = "NAK" \/ ep0.tog # tog)
    <3>1. CASE host.transfer.rx = <<>>
      <4>1. /\ ep0.tog = host.transfer.tog
            /\ Sent \in Seq(Bytes) /\ Sent # <<>> /\ Sent[1] = Value(known.val)
        BY <2>1, <3>1 DEF RInv, Answered
      <4>2. bytes = <<>> \o Sent /\ tog = Flip(ep0.tog)
        BY <1>2, <3>1, <4>1 DEF Sent
      <4>3. bytes = Sent
        BY <4>1, <4>2
      <4>4. tog # ep0.tog
        <5>1. ep0.tog \in {0, 1}
          BY DEF IInv, TypeOK
        <5> QED  BY <4>2, <5>1 DEF Flip
      <4> QED  BY <4>1, <4>3, <4>4
    <3>2. CASE host.transfer.rx # <<>>
      <4>1. /\ host.transfer.rx[1] = Value(known.val)
            /\ ep0.tog # host.transfer.tog
        BY <1>1, <2>1, <3>2 DEF RInv, Answered
      <4> QED  BY <1>2, <3>2, <4>1
    <3> QED  BY <3>1, <3>2
  <2> QED  BY <1>1, <1>3, <2>2 DEF Answered
<1> QED  BY <1>4, <1>5, <1>6 DEF RInv

\* the data stage of SET_REPORT
LEMMA DataOutReads ==
    ASSUME IInv, RInv, DataOut
    PROVE  RInv'
<1>1. /\ flag = "none" /\ flag' = "out" /\ Stage = "out"
      /\ UNCHANGED <<vals, halted, thread, known>>
      /\ host' = [host EXCEPT !.transfer.stage = "status in"]
  BY DEF DataOut, Ready, device
<1>2. req.code = "SET_REPORT" /\ req \in Requests
  BY <1>1 DEF IInv, Staged
<1>3. host' = [at |-> host.at,
               transfer |-> [stage |-> "status in", req |-> req, rx |-> host.transfer.rx,
                             tog |-> host.transfer.tog, result |-> host.transfer.result]]
  BY <1>1 DEF IInv, Shape, req
<1>4. Stage' = "status in" /\ req' = req
  BY <1>3 DEF Stage, req
<1>5. SetItem(req) = NoValue
  BY <1>2, WhatIsSet
<1>6. Known'
  <2>1. ASSUME NEW set, Holds(set) PROVE Holds(set)'
    BY <1>1, <2>1, HeldOn
  <2> QED  BY <1>1, <2>1 DEF RInv, Known, Holds
<1>7. Taken' /\ Answered'
  BY <1>4, <1>5 DEF Taken, Answered, Asking
<1> QED  BY <1>6, <1>7 DEF RInv

\* the end of a transfer, with which the host knows what it has set
LEMMA StatusReads ==
    ASSUME IInv, RInv, StatusOut \/ StatusIn \/ StatusInUnheard \/ SeesStall
    PROVE  RInv'
<1>1. /\ flag = "none" /\ flag' # "setup" /\ UNCHANGED <<vals, halted, thread>>
      /\ \E result : Finish(result)
  BY DEF StatusOut, StatusIn, StatusInUnheard, SeesStall, Ready, device
<1>2. Stage' = "idle"
  <2>1. PICK result : Finish(result)
    BY <1>1
  <2>2. host'.transfer = [NoTransfer EXCEPT !.req = req, !.result = result]
    BY <2>1 DEF Finish, IInv, Shape
  <2> QED  BY <2>2 DEF Stage, NoTransfer
<1>3. \/ known' = known
      \/ Stage = "status in" /\ SetItem(req) # NoValue /\ known' = SetItem(req)
  BY DEF StatusOut, StatusIn, StatusInUnheard, SeesStall
<1>4. Known'
  <2>1. known' # NoValue => Holds(known')
    <3>1. CASE known' = known
      BY <3>1 DEF RInv, Known
    <3>2. CASE Stage = "status in" /\ SetItem(req) # NoValue /\ known' = SetItem(req)
      BY <1>1, <3>2 DEF RInv, Taken, Dispatched
    <3> QED  BY <1>3, <3>1, <3>2
  <2>2. ASSUME NEW set, Holds(set) PROVE Holds(set)'
    BY <1>1, <2>2, HeldOn
  <2> QED  BY <1>1, <2>1, <2>2 DEF Known, Holds
<1>5. Taken' /\ Answered'
  BY <1>2 DEF Taken, Answered, Asking, Dispatched
<1> QED  BY <1>4, <1>5 DEF RInv

\* the keyboard thread arms its endpoint; it takes down what it undoes
LEMMA ThreadSteps ==
    ASSUME IInv, RInv, ThreadReads \/ ThreadWrites
    PROVE  RInv'
<1>1. /\ UNCHANGED <<ep0, vals, flag, host, known>>
      /\ req' = req /\ Stage' = Stage
  BY DEF ThreadReads, ThreadWrites, req, Stage
<1>2. \/ halted' = halted /\ undone' = undone
      \/ /\ "in" \notin halted'
         /\ undone' = (undone \/ ("out" \in halted') # ("out" \in halted))
  <2>1. CASE ThreadReads
    BY <2>1 DEF ThreadReads
  <2>2. CASE ThreadWrites
    <3>1. PICK copy \in arming :
             /\ halted' = copy
             /\ undone' = (undone \/ ("out" \in copy) # ("out" \in halted))
      BY <2>2 DEF ThreadWrites
    <3>2. "in" \notin copy
      BY <3>1 DEF IInv, TypeOK
    <3> QED  BY <3>1, <3>2
  <2> QED  BY <2>1, <2>2
<1>3. ASSUME NEW set, Holds(set) PROVE Holds(set)'
  BY <1>1, <1>2, <1>3, HeldOn
<1>4. Known'
  BY <1>1, <1>3 DEF RInv, Known, Holds, Changes
<1>5. Taken'
  BY <1>1, <1>3 DEF RInv, Taken, Dispatched, Holds
<1>6. Answered'
  <2>1. ASSUME NEW item, Kept(item)' PROVE Kept(item)
    BY <1>2, <2>1 DEF Kept
  <2> QED  BY <1>1, <2>1 DEF RInv, Answered, Asking, Dispatched, Sent
<1> QED  BY <1>4, <1>5, <1>6 DEF RInv

LEMMA StepReads ==
    ASSUME IInv, RInv, [Next]_vars
    PROVE  RInv'
<1>1. ASSUME NEW r \in Requests, Setup(r) PROVE RInv'
  BY <1>1, SetupReads
<1>2. CASE BusReset
  <2>1. known' = NoValue /\ Stage' = "idle"
    BY <1>2, NoTransferYet DEF BusReset, Stage
  <2> QED  BY <2>1 DEF RInv, Known, Taken, Answered, Asking, Dispatched
<1>3. CASE UNCHANGED vars
  <2>1. /\ UNCHANGED <<ep0, vals, halted, thread, flag, host, known>>
        /\ req' = req /\ Stage' = Stage
    BY <1>3 DEF vars, req, Stage
  <2> QED  BY <2>1
           DEF RInv, Known, Taken, Answered, Asking, Dispatched, Sent, Holds, Kept, ValueOf,
               Changes
<1> QED  BY <1>1, <1>2, <1>3, PacketReads, DataOutReads, StatusReads, ThreadSteps,
            SetupOthersRead, SetupSetsRead, SetupGetRead, InterruptsRead DEF Next

LEMMA ReadInvariant == Spec => []RInv
<1>1. Init => RInv
  <2> SUFFICES ASSUME Init PROVE RInv
    OBVIOUS
  <2>1. known = NoValue /\ Stage = "idle"
    BY NoTransferYet DEF Init, Stage
  <2> QED  BY <2>1 DEF RInv, Known, Taken, Answered, Asking, Dispatched
<1>2. IInv /\ RInv /\ [Next]_vars => RInv'
  BY StepReads
<1> QED  BY <1>1, <1>2, Invariant, PTL DEF Spec

(* Whatever the host last set, in a transfer that came to its end, is what *)
(* it reads with a later one: no request between them, dropped, repeated   *)
(* or of the same number changes it, nor does the thread, but for a halt   *)
(* of 0x01 whose change falls between its read of R8_UEP1_CTRL and its     *)
(* write.                                                                  *)
THEOREM SettingsReadBack == Spec => []ReadsBack
<1>1. IInv /\ RInv => ReadsBack
  <2> SUFFICES ASSUME IInv, RInv, Received, known # NoValue, AskedItem(req) = known.item,
                      Kept(known.item)
               PROVE  host.transfer.rx[1] = Value(known.val)
    BY DEF ReadsBack, Kept
  <2>1. known.item \in Items
    BY DEF RInv, Known, Holds
  <2>2. Asking
    BY <2>1 DEF Received, Asking, Dispatched, IInv, Staged
  <2> QED  BY <2>2 DEF RInv, Answered, Received
<1> QED  BY <1>1, Invariant, ReadInvariant, PTL
=============================================================================
