------------------------- MODULE FrameCapture_proofs ------------------------
(* For every set of frames: the program never reads behind a frame, and    *)
(* the records it submits are complete.                                    *)
EXTENDS FrameCapture, TLAPS

(* What the local variables and the slot hold, depending on how far the    *)
(* program has come; the slot has nothing of this frame until it is        *)
(* copied, and then its count says how much.                               *)
HeadersKnown ==
  /\ at \in {"ip", "ports", "reserve", "fill", "payload", "submitted"} =>
       Load(frame.ether_type) = SwapOnLittle(ETH_P_IP)
  /\ at \in {"ethernet", "ip", "ports"} => ports = NoPorts
  /\ at \in {"reserve", "fill", "payload", "submitted"} =>
       ports = IF HasPorts
               THEN [source |-> frame.source, destination |-> frame.dest] ELSE NoPorts

RecordFilled ==
  /\ at # "submitted" => record.bytes = OldBytes
  /\ at \in {"payload", "submitted"} =>
       /\ record.ether_type = frame.ether_type
       /\ record.ip_protocol = frame.protocol
       /\ record.ports = ports
  /\ at = "submitted" =>
       /\ record.payload_byte_count = payload_bytes_to_copy
       /\ record.bytes = IF payload_bytes_to_copy > 0
                         THEN [offset |-> payload_start, count |-> payload_bytes_to_copy]
                         ELSE OldBytes

IInv == TypeOK /\ ReadsInBounds /\ HeadersKnown /\ RecordFilled

(* The fields of a frame that the program computes with.                   *)
LEMMA FrameFields ==
  ASSUME TypeOK
  PROVE  /\ frame.length \in Nat
         /\ frame.ihl \in 0..15
         /\ frame.protocol \in Byte
         /\ frame.ether_type \in Word /\ frame.source \in Word /\ frame.dest \in Word
         /\ transport_header \in Nat
         /\ payload_start \in Nat
         /\ payload_start >= transport_header
         /\ HasPorts => payload_start >= transport_header + 8
         /\ frame.ihl >= 5 => payload_start >= ETH_HLEN + IPHDR
<1>1. /\ frame.length \in Nat
      /\ frame.ihl \in 0..15
      /\ frame.protocol \in Byte
      /\ frame.ether_type \in Word /\ frame.source \in Word /\ frame.dest \in Word
  BY FrameAssumption DEF TypeOK
<1>2. transport_header \in Nat /\ (frame.ihl >= 5 => transport_header >= 34)
  BY <1>1 DEF transport_header, ETH_HLEN
<1>3. \E n \in {0, 8, 20} : payload_start = transport_header + n /\ (HasPorts => n >= 8)
  BY <1>1 DEF payload_start, HasPorts, IPPROTO_TCP, IPPROTO_UDP
<1> QED
  BY <1>1, <1>2, <1>3 DEF ETH_HLEN, IPHDR

(* The region that is copied: it lies within the frame, it fits the array, *)
(* and what it leaves out is left out because the array is full.           *)
LEMMA CopyRegion ==
  ASSUME TypeOK
  PROVE  /\ payload_bytes_to_copy \in 0..XDP_PACKET_MAX_PAYLOAD_BYTES
         /\ payload_bytes_to_copy > 0 => payload_start + payload_bytes_to_copy <= frame.length
         /\ payload_start + payload_bytes_to_copy < frame.length
              => payload_bytes_to_copy = XDP_PACKET_MAX_PAYLOAD_BYTES
  BY FrameFields DEF payload_bytes_to_copy, payload_available_bytes,
                     XDP_PACKET_MAX_PAYLOAD_BYTES

LEMMA InitIInv == Init => IInv
<1> SUFFICES ASSUME Init PROVE IInv
  OBVIOUS
<1>1. TypeOK
  BY DEF Init, TypeOK, NoPorts, Zero, OldBytes, Records, Word, Byte,
         XDP_PACKET_MAX_PAYLOAD_BYTES
<1>2. ReadsInBounds
  BY <1>1, FrameFields DEF Init, ReadsInBounds
<1>3. HeadersKnown /\ RecordFilled
  BY DEF Init, HeadersKnown, RecordFilled
<1> QED
  BY <1>1, <1>2, <1>3 DEF IInv

(* The steps before the payload is copied leave the count and the bytes.   *)
LEMMA NextIInv == IInv /\ [Next]_vars => IInv'
<1> SUFFICES ASSUME IInv, [Next]_vars PROVE IInv'
  OBVIOUS
<1> USE DEF IInv, Goto, Pass
<1>1. CASE CheckEthernetHeader
  BY <1>1 DEF CheckEthernetHeader, Fits, TypeOK, ReadsInBounds, HeadersKnown,
              RecordFilled, Load, SwapOnLittle, ETH_HLEN
<1>2. CASE CheckIpHeader
  BY <1>2 DEF CheckIpHeader, Fits, TypeOK, ReadsInBounds, HeadersKnown,
              RecordFilled, Load, SwapOnLittle, ETH_HLEN, IPHDR
<1>3. CASE ReadPorts
  <2>1. TypeOK' /\ ReadsInBounds'
    <3>1. touched' \in Nat /\ touched' <= frame.length
      BY <1>3, FrameFields DEF ReadPorts, Fits, Furthest, TypeOK, ReadsInBounds
    <3>2. ports' \in [source : Word, destination : Word]
      BY <1>3, FrameFields DEF ReadPorts, TypeOK
    <3> QED
      BY <1>3, <3>1, <3>2 DEF ReadPorts, TypeOK, ReadsInBounds
  <2>2. HeadersKnown' /\ RecordFilled'
    BY <1>3 DEF ReadPorts, HeadersKnown, RecordFilled, HasPorts, Load, SwapOnLittle
  <2> QED
    BY <2>1, <2>2
<1>4. CASE ReserveRecord
  BY <1>4 DEF ReserveRecord, TypeOK, ReadsInBounds, HeadersKnown, RecordFilled,
              HasPorts, Load, SwapOnLittle
<1>5. CASE FillRecord
  <2>1. record' \in Records /\ record'.bytes = record.bytes
        /\ record'.ether_type = frame.ether_type
        /\ record'.ip_protocol = frame.protocol /\ record'.ports = ports
    BY <1>5, FrameFields DEF FillRecord, TypeOK, Records
  <2> QED
    BY <1>5, <2>1 DEF FillRecord, TypeOK, ReadsInBounds, HeadersKnown, RecordFilled,
              HasPorts, Load, SwapOnLittle
<1>6. CASE CopyPayload
  <2>1. payload_bytes_to_copy > 0 => Fits(payload_start + payload_bytes_to_copy)
    BY CopyRegion DEF Fits
  <2>2. UNCHANGED <<payload_start, payload_bytes_to_copy>>
    BY <1>6 DEF CopyPayload, payload_start, payload_bytes_to_copy,
                payload_available_bytes, transport_header
  <2>3. /\ record' \in Records
        /\ record'.payload_byte_count = payload_bytes_to_copy
        /\ record'.bytes = IF payload_bytes_to_copy > 0
             THEN [offset |-> payload_start, count |-> payload_bytes_to_copy]
             ELSE OldBytes
        /\ record'.ether_type = record.ether_type
        /\ record'.ip_protocol = record.ip_protocol
        /\ record'.ports = record.ports
    <3> DEFINE n == payload_bytes_to_copy
               copied == IF n > 0 THEN [offset |-> payload_start, count |-> n] ELSE OldBytes
    <3>1. n \in 0..XDP_PACKET_MAX_PAYLOAD_BYTES /\ n \in Nat
      BY CopyRegion DEF XDP_PACKET_MAX_PAYLOAD_BYTES
    <3>2. copied \in [offset : Nat, count : Nat]
      BY <3>1, FrameFields DEF OldBytes
    <3>3. copied = IF n > 0 /\ Fits(payload_start + n)
                   THEN [offset |-> payload_start, count |-> n] ELSE OldBytes
      BY <2>1
    <3>4. record' = [[record EXCEPT !.payload_byte_count = n] EXCEPT !.bytes = copied]
      BY <1>6, <3>3 DEF CopyPayload, Count
    <3> HIDE DEF n, copied
    <3>5. record \in Records
      BY DEF TypeOK
    <3>6. /\ record' \in Records
          /\ record'.payload_byte_count = n
          /\ record'.bytes = copied
          /\ record'.ether_type = record.ether_type
          /\ record'.ip_protocol = record.ip_protocol
          /\ record'.ports = record.ports
      BY <3>1, <3>2, <3>4, <3>5 DEF Records
    <3> QED
      BY <3>6 DEF n, copied
  <2>4. touched' \in Nat /\ touched' <= frame.length
    BY <1>6, <2>1, FrameFields, CopyRegion
    DEF CopyPayload, Furthest, Fits, TypeOK, ReadsInBounds
  <2>5. TypeOK' /\ ReadsInBounds'
    BY <1>6, <2>3, <2>4 DEF CopyPayload, TypeOK, ReadsInBounds
  <2>6. HeadersKnown' /\ RecordFilled'
    BY <1>6, <2>2, <2>3
    DEF CopyPayload, HeadersKnown, RecordFilled, HasPorts, Load, SwapOnLittle
  <2> QED
    BY <2>5, <2>6
<1>7. CASE NextFrame
  <2>1. TypeOK'
    <3>1. record' \in Records /\ record'.bytes = OldBytes
      BY <1>7 DEF NextFrame, TypeOK, Records, OldBytes
    <3> QED
      BY <1>7, <3>1 DEF NextFrame, TypeOK, NoPorts, Zero, Word, Byte
  <2>2. touched' <= frame'.length
    BY <1>7, FrameAssumption DEF NextFrame
  <2>3. record'.bytes = OldBytes
    BY <1>7 DEF NextFrame, TypeOK, Records
  <2> QED
    BY <1>7, <2>1, <2>2, <2>3 DEF NextFrame, ReadsInBounds, HeadersKnown, RecordFilled
<1>8. CASE UNCHANGED vars
  BY <1>8 DEF vars, TypeOK, ReadsInBounds, HeadersKnown, RecordFilled, HasPorts, Load,
      SwapOnLittle, payload_bytes_to_copy, payload_available_bytes, payload_start,
      transport_header
<1> QED
  BY <1>1, <1>2, <1>3, <1>4, <1>5, <1>6, <1>7, <1>8 DEF Next, Walk

(* A filled record is a complete one.                                      *)
LEMMA FilledIsComplete == IInv => RecordIsComplete
<1> SUFFICES ASSUME IInv, at = "submitted" PROVE RecordIsComplete
  BY DEF RecordIsComplete
<1>1. TypeOK
  BY DEF IInv
<1> QED
  BY <1>1, FrameFields, CopyRegion
  DEF IInv, RecordFilled, HeadersKnown, RecordIsComplete, HasPorts, OldBytes

THEOREM Invariance == Spec => []IInv
  BY InitIInv, NextIInv, PTL DEF Spec

(* The variables keep their types, and payload_byte_count never exceeds    *)
(* the capacity of payload_bytes.                                          *)
THEOREM TypeCorrect == Spec => []TypeOK
  BY Invariance, PTL DEF IInv

(* No frame makes the XDP program read a byte behind data_end.             *)
THEOREM NeverReadsBehindFrame == Spec => []ReadsInBounds
  BY Invariance, PTL DEF IInv

(* Every submitted record is of its own frame alone, whatever the slot     *)
(* held, and ends with the frame or is full.                               *)
THEOREM RecordsAreComplete == Spec => []RecordIsComplete
  BY Invariance, FilledIsComplete, PTL
=============================================================================
