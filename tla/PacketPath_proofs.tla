-------------------------- MODULE PacketPath_proofs -------------------------
(* For every set of frames, either byte order and any number of frames:    *)
(* the handlers see what was on the wire, and the application counts each  *)
(* record once.                                                            *)
EXTENDS PacketPath, FrameCapture_proofs, FiniteSetTheorems

-----------------------------------------------------------------------------
LEMMA StepOfCapture == [PathNext]_path => [Next]_vars
  BY DEF PathNext, path, FrameWalks, PacketArrives, NextFrameArrives, Next

(* The path adds the user's side and changes nothing on the kernel's, so   *)
(* that the safety of FrameCapture holds on it.                            *)
THEOREM PathImplementsCapture == PathSpec => Spec
<1>1. PathInit => Init
  BY DEF PathInit
<1> QED
  BY <1>1, StepOfCapture, PTL DEF PathSpec, Spec

-----------------------------------------------------------------------------
LEMMA TwoBytes ==
  ASSUME NEW low \in 0..255, NEW high \in 0..255
  PROVE  /\ (low + 256 * high) % 256 = low
         /\ (low + 256 * high) \div 256 = high
  OBVIOUS

(* ntohs() of a word that was copied from the frame is its number.         *)
LEMMA HostOrder ==
  ASSUME host \in {"little", "big"}, NEW word \in Word
  PROVE  ntohs(word) = OnTheWire(word)
<1>1. word.first \in 0..255 /\ word.second \in 0..255
  BY DEF Word, Byte
<1>2. CASE host = "big"
  BY <1>2 DEF ntohs, Load, SwapOnLittle, OnTheWire
<1>3. CASE host = "little"
  <2>1. Load(word) = word.first + 256 * word.second
    BY <1>3 DEF Load
  <2>2. (word.first + 256 * word.second) % 256 = word.first
        /\ (word.first + 256 * word.second) \div 256 = word.second
    BY <1>1, TwoBytes
  <2> QED
    BY <1>1, <1>3, <2>1, <2>2 DEF ntohs, SwapOnLittle, OnTheWire
<1> QED
  BY <1>2, <1>3

(* What was delivered was made of the record that still lies in the slot.  *)
Handed ==
  /\ delivered \in BOOLEAN
  /\ delivered => /\ at = "submitted"
                  /\ data = XdpData(record)
                  /\ view = AppPacketView(data)

LEMMA WalkOrder ==
  ASSUME Walk
  PROVE  /\ at # "submitted"
         /\ at = "payload" => CopyPayload
         /\ at # "payload" => at' # "submitted"
  BY DEF Walk, CheckEthernetHeader, CheckIpHeader, ReadPorts, ReserveRecord,
         FillRecord, CopyPayload, Pass, Goto

LEMMA KeepsHanded == Handed /\ [PathNext]_path => Handed'
<1> SUFFICES ASSUME Handed, [PathNext]_path PROVE Handed'
  OBVIOUS
<1>1. CASE FrameWalks
  BY <1>1, WalkOrder DEF FrameWalks, user, Handed
<1>a. host' = host /\ record' = record => XdpData(record)' = XdpData(record)
  BY DEF XdpData, ntohs, Load, SwapOnLittle, payload_bytes_of, bytes_to_copy
<1>2. CASE PacketArrives
  <2>3. host' = host /\ record' = record /\ at' = "submitted"
    BY <1>2 DEF PacketArrives, vars
  <2>1. at' = "submitted" /\ delivered' = TRUE /\ data' = XdpData(record)'
    BY <1>2, <1>a, <2>3, Zenon DEF PacketArrives
  <2>2. view' = AppPacketView(data)'
    BY <1>2, Zenon DEF PacketArrives, AppPacketView
  <2> QED
    BY <2>1, <2>2 DEF Handed
<1>3. CASE NextFrameArrives
  BY <1>3 DEF NextFrameArrives, Handed
<1>4. CASE UNCHANGED path
  <2>1. host' = host /\ record' = record /\ at' = at
    BY <1>4 DEF path, vars
  <2>3. delivered' = delivered /\ data' = data /\ view' = view
    BY <1>4 DEF path, user
  <2>2. AppPacketView(data)' = AppPacketView(data)
    BY <2>3, Zenon DEF AppPacketView
  <2> QED
    BY <1>a, <2>1, <2>2, <2>3, Zenon DEF Handed
<1> QED
  BY <1>1, <1>2, <1>3, <1>4 DEF PathNext

(* The payload that was handed over: consecutive bytes of the frame.       *)
LEMMA PayloadHanded ==
  ASSUME IInv, Handed, delivered
  PROVE  /\ DOMAIN data.payload_bytes = 0..(payload_bytes_to_copy - 1)
         /\ \A i \in DOMAIN data.payload_bytes : data.payload_bytes[i] = payload_start + i
<1>1. /\ record.payload_byte_count = payload_bytes_to_copy
      /\ record.bytes = IF payload_bytes_to_copy > 0
           THEN [offset |-> payload_start, count |-> payload_bytes_to_copy]
           ELSE OldBytes
  BY DEF IInv, Handed, RecordFilled
<1>2. payload_bytes_to_copy \in 0..128
  BY CopyRegion DEF IInv, XDP_PACKET_MAX_PAYLOAD_BYTES
<1>3. data.payload_bytes = payload_bytes_of(record)
  BY DEF Handed, XdpData
<1>a. bytes_to_copy(record) = payload_bytes_to_copy
  BY <1>1, <1>2 DEF bytes_to_copy, XDP_PACKET_MAX_PAYLOAD_BYTES
<1>4. DOMAIN data.payload_bytes = 0..(payload_bytes_to_copy - 1)
  BY <1>3, <1>a DEF payload_bytes_of
<1>5. ASSUME NEW i \in 0..(payload_bytes_to_copy - 1)
      PROVE  data.payload_bytes[i] = payload_start + i
  <2>1. record.bytes = [offset |-> payload_start, count |-> payload_bytes_to_copy]
        /\ i < payload_bytes_to_copy
    BY <1>1, <1>2
  <2> QED
    BY <1>3, <1>a, <2>1 DEF payload_bytes_of
<1> QED
  BY <1>4, <1>5

LEMMA HandedIsTheFrame == IInv /\ Handed => HandlerSeesTheFrame
<1> SUFFICES ASSUME IInv, Handed, delivered PROVE HandlerSeesTheFrame
  BY DEF HandlerSeesTheFrame
<1>1. TypeOK /\ at = "submitted" /\ data = XdpData(record) /\ view = AppPacketView(data)
  BY DEF IInv, Handed
<1>2. /\ record.ether_type = frame.ether_type
      /\ record.ports = ports
      /\ Load(frame.ether_type) = SwapOnLittle(ETH_P_IP)
      /\ ports = IF HasPorts
                 THEN [source |-> frame.source, destination |-> frame.dest] ELSE NoPorts
  BY <1>1 DEF IInv, HeadersKnown, RecordFilled
<1>3. data.ether_type = ETH_P_IP
  <2>1. data.ether_type = SwapOnLittle(SwapOnLittle(ETH_P_IP))
    BY <1>1, <1>2 DEF XdpData, ntohs
  <2> QED
    BY <2>1 DEF SwapOnLittle, ETH_P_IP
<1>4. data.source_port = ntohs(ports.source)
      /\ data.destination_port = ntohs(ports.destination)
  BY <1>1, <1>2 DEF XdpData
<1>5. /\ data.source_port = IF HasPorts THEN OnTheWire(frame.source) ELSE 0
      /\ data.destination_port = IF HasPorts THEN OnTheWire(frame.dest) ELSE 0
  <2>1. host \in {"little", "big"} /\ frame.source \in Word /\ frame.dest \in Word
        /\ Zero \in Word /\ OnTheWire(Zero) = 0
    BY <1>1, FrameFields DEF TypeOK, Zero, Word, Byte, OnTheWire
  <2>2. ntohs(frame.source) = OnTheWire(frame.source)
        /\ ntohs(frame.dest) = OnTheWire(frame.dest) /\ ntohs(Zero) = 0
    BY <2>1, HostOrder
  <2> QED
    BY <1>2, <1>4, <2>2 DEF NoPorts
<1>6. /\ DOMAIN data.payload_bytes = 0..(payload_bytes_to_copy - 1)
      /\ \A i \in DOMAIN data.payload_bytes : data.payload_bytes[i] = payload_start + i
  BY PayloadHanded
<1>7. \A i \in 0..(XDP_PACKET_MAX_PAYLOAD_BYTES - 1) :
        i \in DOMAIN data.payload_bytes <=> payload_start + i < frame.length
  <2>1. /\ frame.length \in Nat /\ payload_start \in Nat
        /\ DOMAIN data.payload_bytes = 0..(payload_bytes_to_copy - 1)
    BY <1>1, <1>6, FrameFields
  <2>2. ASSUME NEW i \in 0..127
        PROVE  i <= payload_bytes_to_copy - 1 <=> payload_start + i < frame.length
    BY <2>1 DEF payload_bytes_to_copy, payload_available_bytes,
                XDP_PACKET_MAX_PAYLOAD_BYTES
  <2>3. payload_bytes_to_copy \in 0..128
    BY <1>1, CopyRegion DEF XDP_PACKET_MAX_PAYLOAD_BYTES
  <2>4. ASSUME NEW i \in 0..127
        PROVE  i \in DOMAIN data.payload_bytes <=> i <= payload_bytes_to_copy - 1
    <3>1. i \in 0..(payload_bytes_to_copy - 1) <=> i <= payload_bytes_to_copy - 1
      BY <2>3
    <3> QED
      BY <2>1, <3>1, Zenon
  <2>5. XDP_PACKET_MAX_PAYLOAD_BYTES - 1 = 127
    BY DEF XDP_PACKET_MAX_PAYLOAD_BYTES
  <2> QED
    BY <2>2, <2>4, <2>5
<1>8. /\ view.source_port = data.source_port
      /\ view.destination_port = data.destination_port
      /\ view.payload_bytes = data.payload_bytes
  BY <1>1 DEF AppPacketView
<1> QED
  BY <1>3, <1>5, <1>6, <1>7, <1>8 DEF HandlerSeesTheFrame

(* On a machine of either byte order the handlers get the numbers that     *)
(* were on the wire and the payload bytes of that very frame, whichever    *)
(* frames came before.                                                     *)
THEOREM HandlersSeeTheWire == PathSpec => []HandlerSeesTheFrame
<1>1. PathInit => Handed
  BY DEF PathInit, Handed
<1>2. PathSpec => []IInv
  BY PathImplementsCapture, Invariance, PTL
<1> QED
  BY <1>1, <1>2, KeepsHanded, HandedIsTheFrame, PTL DEF PathSpec

-----------------------------------------------------------------------------
(* No two protocol numbers share a name.                                   *)
LEMMA NamesDiffer ==
  ASSUME NEW m \in Byte, NEW n \in Byte, ip_protocol_name(m) = ip_protocol_name(n)
  PROVE  m = n
  BY DEF ip_protocol_name, IPPROTO_TCP, IPPROTO_UDP, Byte

Protocols == { f.protocol : f \in FrameSet }

CountersInv ==
  /\ captured \in [Protocols -> Nat]
  /\ protocol_packet_counters \in [DOMAIN protocol_packet_counters -> Nat]
  /\ EachRecordCountedOnce

(* What ingest_packet does to the counters: one of them grows by one.      *)
LEMMA OneCounterGrows ==
  ASSUME CountersInv, PacketArrives, IInv
  PROVE  LET own == ip_protocol_name(frame.protocol) IN
         /\ protocol_packet_counters' \in [DOMAIN protocol_packet_counters' -> Nat]
         /\ \A name : Counter(name)' = Counter(name) + IF name = own THEN 1 ELSE 0
<1> DEFINE own   == ip_protocol_name(frame.protocol)
           names == DOMAIN protocol_packet_counters
<1>1. view'.protocol_name = own
  <2>1. record.ip_protocol = frame.protocol
    BY DEF PacketArrives, IInv, RecordFilled
  <2> QED
    BY <2>1 DEF PacketArrives, AppPacketView, XdpData
<1>2. protocol_packet_counters' =
        [name \in names \cup {own} |-> Counter(name) + IF name = own THEN 1 ELSE 0]
  BY <1>1 DEF PacketArrives, ingest_packet
<1>3. \A name : Counter(name) \in Nat
  BY DEF CountersInv, Counter
<1> HIDE DEF own
<1>4. protocol_packet_counters' \in [DOMAIN protocol_packet_counters' -> Nat]
  BY <1>2, <1>3
<1>5. ASSUME NEW name
      PROVE  Counter(name)' = Counter(name) + IF name = own THEN 1 ELSE 0
  <2>1. CASE name \in names \cup {own}
    BY <1>2, <2>1 DEF Counter
  <2>2. CASE name \notin names \cup {own}
    BY <1>2, <2>2 DEF Counter
  <2> QED
    BY <2>1, <2>2
<1> QED
  BY <1>4, <1>5 DEF own

LEMMA KeepsCounters ==
  IInv /\ Handed /\ CountersInv /\ [PathNext]_path => CountersInv'
<1> SUFFICES ASSUME IInv, Handed, CountersInv, [PathNext]_path PROVE CountersInv'
  OBVIOUS
<1>0. /\ frame \in FrameSet /\ frame.protocol \in Protocols
      /\ Protocols \subseteq Byte /\ DOMAIN captured = Protocols
      /\ \A n \in Protocols : captured[n] \in Nat
  BY FrameAssumption DEF IInv, TypeOK, Protocols, CountersInv
<1>1. CASE FrameWalks
  <2>1. /\ ~delivered /\ delivered' = delivered
        /\ protocol_packet_counters' = protocol_packet_counters
        /\ captured' = IF at = "payload"
             THEN [captured EXCEPT ![frame.protocol] = @ + 1] ELSE captured
    BY <1>1, WalkOrder DEF FrameWalks, user, Handed
  <2>2. \A name : Counter(name)' = Counter(name)
    BY <2>1 DEF Counter
  <2>3. CASE at = "payload"
    <3>1. at' = "submitted" /\ frame' = frame /\ at # "submitted"
      BY <1>1, <2>3, WalkOrder DEF FrameWalks, CopyPayload, Goto
    <3>2. /\ captured' \in [Protocols -> Nat]
          /\ \A n \in Protocols :
               captured'[n] = captured[n] + IF frame.protocol = n THEN 1 ELSE 0
      <4>1. captured' = [captured EXCEPT ![frame.protocol] = captured[frame.protocol] + 1]
        BY <2>1, <2>3
      <4>2. captured \in [Protocols -> Nat]
        BY DEF CountersInv
      <4> QED
        BY <1>0, <4>1, <4>2
    <3>3. \A n \in Protocols : captured[n] = Counter(ip_protocol_name(n)) + 0
      BY <1>0, <3>1 DEF CountersInv, EachRecordCountedOnce
    <3>4. ASSUME NEW n \in Protocols
          PROVE  captured'[n] = Counter(ip_protocol_name(n))'
                   + IF at' = "submitted" /\ ~delivered' /\ frame'.protocol = n
                     THEN 1 ELSE 0
      <4>1. Counter(ip_protocol_name(n)) \in Nat
        BY DEF CountersInv, Counter
      <4> QED
        BY <2>1, <2>2, <3>1, <3>2, <3>3, <4>1
    <3> QED
      BY <2>1, <3>2, <3>4 DEF CountersInv, EachRecordCountedOnce
  <2>4. CASE at # "payload"
    <3>1. at' # "submitted" /\ at # "submitted"
      BY <1>1, <2>4, WalkOrder DEF FrameWalks
    <3> QED
      BY <1>0, <2>1, <2>2, <2>4, <3>1 DEF CountersInv, EachRecordCountedOnce
  <2> QED
    BY <2>3, <2>4
<1>2. CASE PacketArrives
  <2> DEFINE own == ip_protocol_name(frame.protocol)
  <2>1. /\ at = "submitted" /\ ~delivered /\ delivered'
        /\ captured' = captured
    BY <1>2 DEF PacketArrives
  <2>2. /\ protocol_packet_counters' \in [DOMAIN protocol_packet_counters' -> Nat]
        /\ \A name : Counter(name)' = Counter(name) + IF name = own THEN 1 ELSE 0
    BY <1>2, OneCounterGrows
  <2>3. \A n \in Protocols : ip_protocol_name(n) = own <=> n = frame.protocol
    BY <1>0, NamesDiffer
  <2> HIDE DEF own
  <2>4. \A n \in Protocols :
          captured[n] = Counter(ip_protocol_name(n)) + IF frame.protocol = n THEN 1 ELSE 0
    BY <1>0, <2>1 DEF CountersInv, EachRecordCountedOnce
  <2>5. \A name : Counter(name) \in Nat
    BY DEF CountersInv, Counter
  <2>6. ASSUME NEW n \in Protocols
        PROVE  captured[n] = Counter(ip_protocol_name(n))'
    BY <2>2, <2>3, <2>4, <2>5
  <2>7. \A n \in Protocols : captured'[n] = Counter(ip_protocol_name(n))' + 0
    BY <1>0, <2>1, <2>6
  <2> QED
    BY <1>0, <2>1, <2>2, <2>7 DEF CountersInv, EachRecordCountedOnce
<1>3. CASE NextFrameArrives
  <2>1. /\ at = "submitted" => delivered
        /\ at' = "ethernet"
        /\ captured' = captured /\ protocol_packet_counters' = protocol_packet_counters
    BY <1>3 DEF NextFrameArrives, NextFrame, Goto
  <2>2. \A name : Counter(name)' = Counter(name)
    BY <2>1 DEF Counter
  <2> QED
    BY <1>0, <2>1, <2>2 DEF CountersInv, EachRecordCountedOnce
<1>4. CASE UNCHANGED path
  <2>1. /\ at' = at /\ frame' = frame /\ delivered' = delivered
        /\ captured' = captured /\ protocol_packet_counters' = protocol_packet_counters
    BY <1>4 DEF path, vars, user
  <2>2. \A name : Counter(name)' = Counter(name)
    BY <2>1 DEF Counter
  <2> QED
    BY <1>0, <2>1, <2>2 DEF CountersInv, EachRecordCountedOnce
<1> QED
  BY <1>1, <1>2, <1>3, <1>4 DEF PathNext

(* The application's summary has each submitted record once, under the     *)
(* name of its own protocol, for every sequence of frames.                 *)
THEOREM SummaryIsExact == PathSpec => []EachRecordCountedOnce
<1>1. PathInit => Handed /\ CountersInv
  <2> SUFFICES ASSUME PathInit PROVE Handed /\ CountersInv
    OBVIOUS
  <2>1. Handed
    BY DEF PathInit, Handed
  <2>2. captured = [number \in Protocols |-> 0] /\ at = "ethernet"
        /\ protocol_packet_counters = [name \in {} |-> 0]
    BY DEF PathInit, Init, Protocols
  <2>3. \A name : Counter(name) = 0
    BY <2>2 DEF Counter
  <2> QED
    BY <2>1, <2>2, <2>3 DEF CountersInv, EachRecordCountedOnce
<1>2. PathSpec => []IInv
  BY PathImplementsCapture, Invariance, PTL
<1>3. CountersInv => EachRecordCountedOnce
  BY DEF CountersInv
<1> QED
  BY <1>1, <1>2, <1>3, KeepsHanded, KeepsCounters, PTL DEF PathSpec

-----------------------------------------------------------------------------
(* The place of a byte in the dump.                                        *)
LEMMA LineAndColumn ==
  ASSUME NEW i \in Nat
  PROVE  /\ i \div 16 \in Nat /\ i % 16 \in 0..15
         /\ (i \div 16) * 16 + (i % 16) = i
  OBVIOUS

(* The dump of consecutive bytes is read as these bytes, however many.     *)
LEMMA DumpIsRead ==
  ASSUME NEW n \in Nat, NEW start \in Nat, NEW bytes,
         DOMAIN bytes = 0..(n - 1), \A i \in 0..(n - 1) : bytes[i] = start + i
  PROVE  ReadsAs(payload_hex_dump(bytes), bytes)
<1> DEFINE dump     == payload_hex_dump(bytes)
           Shown(c) == dump[c[1]][c[2]]
           cells    == { c \in (DOMAIN dump) \X (0..15) : Shown(c) # Blank }
           Previous(c) == IF c[2] > 0 THEN <<c[1], c[2] - 1>> ELSE <<c[1] - 1, 15>>
<1>1. Cardinality(DOMAIN bytes) = n
  BY FS_Interval
<1>2. DOMAIN dump = LinesOf(n)
  BY <1>1 DEF payload_hex_dump
<1>3. \A line : line \in LinesOf(n) <=> line \in Nat /\ line * 16 < n
  <2>1. ASSUME NEW line \in Nat, line * 16 < n PROVE line <= n \div 16
    BY <2>1
  <2> QED
    BY <2>1 DEF LinesOf, bytes_per_line
<1>4. ASSUME NEW line \in LinesOf(n), NEW column \in 0..15
      PROVE  dump[line][column] = IF line * 16 + column < n
                                  THEN start + line * 16 + column ELSE Blank
  <2>1. line \in Nat
    BY <1>3
  <2>2. dump[line][column] = IF line * 16 + column \in 0..(n - 1)
                             THEN bytes[line * 16 + column] ELSE Blank
    BY <1>1 DEF payload_hex_dump, bytes_per_line
  <2> QED
    BY <2>1, <2>2
<1>c. ASSUME NEW line \in Nat, NEW column \in 0..15, line * 16 + column < n
      PROVE  line \in LinesOf(n)
  <2>1. line * 16 <= line * 16 + column
    OBVIOUS
  <2>2. line * 16 < n
    BY <1>c, <2>1
  <2> QED
    BY <1>3, <2>2
<1> HIDE DEF dump
<1>5. ASSUME NEW line, NEW column
      PROVE  <<line, column>> \in cells <=>
               line \in Nat /\ column \in 0..15 /\ line * 16 + column < n
  <2>1. CASE line \in LinesOf(n) /\ column \in 0..15
    <3>1. <<line, column>> \in (DOMAIN dump) \X (0..15)
      BY <1>2, <2>1
    <3>a. line \in Nat /\ column \in 0..15
      BY <1>3, <2>1
    <3>b. dump[line][column] = IF line * 16 + column < n
                               THEN start + line * 16 + column ELSE Blank
      BY <1>4, <2>1
    <3>2. line \in Nat /\ (dump[line][column] # Blank <=> line * 16 + column < n)
      BY <3>a, <3>b DEF Blank
    <3>3. <<line, column>> \in cells <=> Shown(<<line, column>>) # Blank
      BY <3>1
    <3>4. Shown(<<line, column>>) = dump[line][column]
      OBVIOUS
    <3> QED
      BY <2>1, <3>2, <3>3, <3>4
  <2>2. CASE ~(line \in LinesOf(n) /\ column \in 0..15)
    <3>1. ~(line \in Nat /\ column \in 0..15 /\ line * 16 + column < n)
      BY <1>c, <2>2
    <3>2. <<line, column>> \notin (DOMAIN dump) \X (0..15)
      BY <1>2, <2>2
    <3> QED
      BY <3>1, <3>2
  <2> QED
    BY <2>1, <2>2
<1>6. ASSUME NEW line \in Nat, NEW column \in 0..15, line * 16 + column < n
      PROVE  /\ <<line, column>> \in cells
             /\ Shown(<<line, column>>) = start + line * 16 + column
  <2>1. line \in LinesOf(n)
    BY <1>c, <1>6
  <2>2. <<line, column>> \in cells
    <3> HIDE DEF cells
    <3> QED
      BY <1>5, <1>6
  <2>3. Shown(<<line, column>>) = dump[line][column]
    OBVIOUS
  <2> QED
    BY <1>4, <1>6, <2>1, <2>2, <2>3
<1>a. ASSUME NEW c \in cells
      PROVE  \E line \in Nat, column \in 0..15 :
               /\ c = <<line, column>> /\ line * 16 + column < n
               /\ Shown(c) = start + line * 16 + column
  <2>1. PICK line, column : c = <<line, column>>
    OBVIOUS
  <2>2. line \in Nat /\ column \in 0..15 /\ line * 16 + column < n
    BY <1>5, <2>1
  <2>3. Shown(<<line, column>>) = start + line * 16 + column
    BY <1>6, <2>2
  <2> QED
    BY <2>1, <2>2, <2>3
<1> HIDE DEF cells, Shown
<1>7. { Shown(c) : c \in cells } = { bytes[i] : i \in DOMAIN bytes }
  <2>1. ASSUME NEW c \in cells PROVE \E i \in DOMAIN bytes : Shown(c) = bytes[i]
    <3>1. PICK line \in Nat, column \in 0..15 :
            line * 16 + column < n /\ Shown(c) = start + line * 16 + column
      BY <1>a
    <3>2. line * 16 + column \in 0..(n - 1)
      BY <3>1
    <3>3. bytes[line * 16 + column] = start + (line * 16 + column)
      BY <3>2
    <3>4. start + (line * 16 + column) = start + line * 16 + column
      OBVIOUS
    <3>5. line * 16 + column \in DOMAIN bytes
      BY <3>2
    <3>6. Shown(c) = bytes[line * 16 + column]
      BY <3>1, <3>3, <3>4
    <3> QED
      BY <3>5, <3>6
  <2>2. ASSUME NEW i \in DOMAIN bytes PROVE \E c \in cells : Shown(c) = bytes[i]
    <3>1. i \in Nat /\ i < n /\ bytes[i] = start + i
      OBVIOUS
    <3>2. <<i \div 16, i % 16>> \in cells
          /\ Shown(<<i \div 16, i % 16>>) = start + i
      <4>1. i \div 16 \in Nat /\ i % 16 \in 0..15 /\ (i \div 16) * 16 + (i % 16) = i
        BY <3>1, LineAndColumn
      <4> DEFINE l == i \div 16
                 m == i % 16
      <4> HIDE DEF l, m
      <4>2. l \in Nat /\ m \in 0..15 /\ l * 16 + m = i
        BY <4>1 DEF l, m
      <4>3. <<l, m>> \in cells /\ Shown(<<l, m>>) = start + l * 16 + m
        BY <1>6, <3>1, <4>2
      <4> QED
        BY <4>2, <4>3 DEF l, m
    <3> QED
      BY <3>1, <3>2
  <2> QED
    BY <2>1, <2>2
<1>8. ASSUME NEW c \in cells \ {<<0, 0>>}
      PROVE  Previous(c) \in cells /\ Shown(Previous(c)) < Shown(c)
  <2>1. PICK line \in Nat, column \in 0..15 :
          /\ c = <<line, column>> /\ line * 16 + column < n
          /\ Shown(c) = start + line * 16 + column
    BY <1>a
  <2>2. c[1] = line /\ c[2] = column /\ (line # 0 \/ column # 0)
    BY <2>1
  <2>3. CASE column > 0
    <3>1. Previous(c) = <<line, column - 1>>
      BY <2>2, <2>3
    <3>2. column - 1 \in 0..15 /\ line * 16 + (column - 1) < n
      BY <2>1, <2>3
    <3>3. <<line, column - 1>> \in cells
          /\ Shown(<<line, column - 1>>) = start + line * 16 + (column - 1)
      BY <1>6, <3>2
    <3>4. start + line * 16 + (column - 1) < start + line * 16 + column
      OBVIOUS
    <3> QED
      BY <2>1, <3>1, <3>3, <3>4
  <2>4. CASE column = 0
    <3>1. Previous(c) = <<line - 1, 15>>
      BY <2>2, <2>4
    <3>2. line - 1 \in Nat /\ 15 \in 0..15 /\ (line - 1) * 16 + 15 < n
      BY <2>1, <2>2, <2>4
    <3>3. <<line - 1, 15>> \in cells
          /\ Shown(<<line - 1, 15>>) = start + (line - 1) * 16 + 15
      BY <1>6, <3>2
    <3>4. start + (line - 1) * 16 + 15 < start + line * 16 + column
      BY <2>4
    <3> QED
      BY <2>1, <3>1, <3>3, <3>4
  <2> QED
    BY <2>3, <2>4
<1>9. ASSUME NEW line \in DOMAIN dump PROVE <<line, 0>> \in cells
  <2>1. line \in Nat /\ 0 \in 0..15 /\ line * 16 + 0 < n
    BY <1>2, <1>3
  <2> QED
    BY <1>6, <2>1
<1>b. bytes_per_line - 1 = 15
  BY DEF bytes_per_line
<1> QED
  BY <1>7, <1>8, <1>9, <1>b DEF ReadsAs, dump, cells, Shown

(* The demo's hex dump shows every payload byte once and in order, for     *)
(* every length of the payload.                                            *)
THEOREM DumpIsExact == PathSpec => []DumpShowsPayload
<1>1. IInv /\ Handed => DumpShowsPayload
  <2> SUFFICES ASSUME IInv, Handed, delivered
               PROVE  ReadsAs(payload_hex_dump(data.payload_bytes), data.payload_bytes)
    BY DEF DumpShowsPayload
  <2>1. TypeOK /\ payload_bytes_to_copy \in Nat /\ payload_start \in Nat
    BY FrameFields, CopyRegion DEF IInv, XDP_PACKET_MAX_PAYLOAD_BYTES
  <2>2. /\ DOMAIN data.payload_bytes = 0..(payload_bytes_to_copy - 1)
        /\ \A i \in DOMAIN data.payload_bytes : data.payload_bytes[i] = payload_start + i
    BY PayloadHanded
  <2> QED
    BY <2>1, <2>2, DumpIsRead
<1>2. PathInit => Handed
  BY DEF PathInit, Handed
<1>3. PathSpec => []IInv
  BY PathImplementsCapture, Invariance, PTL
<1> QED
  BY <1>1, <1>2, <1>3, KeepsHanded, PTL DEF PathSpec
=============================================================================
