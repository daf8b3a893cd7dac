----------------------------- MODULE PacketPath -----------------------------
(***************************************************************************)
(* From the frame to the application: the record that FrameCapture submits *)
(* becomes an XdpData, which either handler of the examples receives, and  *)
(* which AppPacketHandler passes on to MyApplication.  The ring in between *)
(* is CaptureRing's: it hands records over unchanged, in order and once,   *)
(* so that here a record is handled before the next frame arrives.         *)
(*                                                                         *)
(* Payload bytes stand for themselves by their position in the frame.      *)
(* Addresses are copied and formatted and are left out.                    *)
(***************************************************************************)
EXTENDS FrameCapture, FiniteSets

CONSTANT MaxFrames   (* Bound: frames that arrive.                         *)

VARIABLES
  arrived,    (* History: how many frames have arrived.                    *)
  captured,   (* History: the records submitted, by protocol number.       *)
  delivered,  (* The record of this frame has been handled.                *)
  data,       (* The last XdpData given to on_packet_arrived.              *)
  view,       (* The last AppPacketView given to ingest_packet.            *)
  protocol_packet_counters   (* Packets per protocol, by name.             *)

user == <<delivered, data, view, protocol_packet_counters>>
path == <<vars, arrived, captured, user>>

-----------------------------------------------------------------------------
(* XdpData.                                                                *)

Old == -1       \* a payload byte that is not one of this frame

bytes_to_copy(r) ==
  IF r.payload_byte_count <= XDP_PACKET_MAX_PAYLOAD_BYTES
  THEN r.payload_byte_count ELSE XDP_PACKET_MAX_PAYLOAD_BYTES

payload_bytes_of(r) ==
  [i \in 0..(bytes_to_copy(r) - 1) |->
     IF i < r.bytes.count THEN r.bytes.offset + i ELSE Old]

(* Mutant: the fields are handed over as they lie in the record.           *)
InNetworkOrder(word) == Load(word)

ntohs(word) == SwapOnLittle(Load(word))

(* The constructor.                                                        *)
XdpData(r) ==
  [ether_type       |-> ntohs(r.ether_type),
   ip_protocol      |-> r.ip_protocol,
   source_port      |-> ntohs(r.ports.source),
   destination_port |-> ntohs(r.ports.destination),
   payload_bytes    |-> payload_bytes_of(r)]

(* Mutant: the number of a protocol without a name is not shown.           *)
NumberIsNotShown(number) ==
  CASE number = IPPROTO_TCP -> <<"TCP">>
    [] number = IPPROTO_UDP -> <<"UDP">>
    [] number = 1           -> <<"ICMP">>
    [] OTHER                -> <<"Other">>

ip_protocol_name(number) ==
  CASE number = IPPROTO_TCP -> <<"TCP">>
    [] number = IPPROTO_UDP -> <<"UDP">>
    [] number = 1           -> <<"ICMP">>
    [] OTHER                -> <<"Other", number>>

bytes_per_line == 16

(* Mutant: the last line is printed only when it is full.                  *)
FullLinesOnly(size) == { k \in 0..(size \div bytes_per_line) :
                           k * bytes_per_line + bytes_per_line <= size }

(* One line for each line_offset of the loop.                              *)
LinesOf(size) == { k \in 0..(size \div bytes_per_line) : k * bytes_per_line < size }

Blank == -2     \* the padding of the last line

(* payload_hex_dump: lines of 16 columns.                                  *)
payload_hex_dump(bytes) ==
  [line \in LinesOf(Cardinality(DOMAIN bytes)) |->
     [column \in 0..(bytes_per_line - 1) |->
        LET i == line * bytes_per_line + column
        IN  IF i \in DOMAIN bytes THEN bytes[i] ELSE Blank]]

-----------------------------------------------------------------------------
(* MyApplication and its handler.                                          *)

AppPacketView(packet_data) ==
  [source_port      |-> packet_data.source_port,
   destination_port |-> packet_data.destination_port,
   protocol_name    |-> ip_protocol_name(packet_data.ip_protocol),
   payload_bytes    |-> packet_data.payload_bytes]

Counter(name) == IF name \in DOMAIN protocol_packet_counters
                 THEN protocol_packet_counters[name] ELSE 0

(* operator[] creates the counter of a protocol that is new.               *)
ingest_packet(packet_view) ==
  protocol_packet_counters' =
    [name \in DOMAIN protocol_packet_counters \cup {packet_view.protocol_name} |->
       Counter(name) + IF name = packet_view.protocol_name THEN 1 ELSE 0]

(* handle_ringbuf_sample and on_packet_arrived.                            *)
PacketArrives ==
  /\ at = "submitted"
  /\ ~delivered
  /\ delivered' = TRUE
  /\ data' = XdpData(record)
  /\ view' = AppPacketView(data')
  /\ ingest_packet(view')
  /\ UNCHANGED <<vars, arrived, captured>>

FrameWalks ==
  /\ Walk
  /\ captured' = IF at = "payload"
                 THEN [captured EXCEPT ![frame.protocol] = @ + 1] ELSE captured
  /\ UNCHANGED <<arrived, user>>

NextFrameArrives ==
  /\ at = "submitted" => delivered
  /\ arrived < MaxFrames
  /\ NextFrame
  /\ arrived' = arrived + 1
  /\ delivered' = FALSE
  /\ UNCHANGED <<captured, data, view, protocol_packet_counters>>

PathInit ==
  /\ Init
  /\ arrived = 1
  /\ captured = [number \in { f.protocol : f \in FrameSet } |-> 0]
  /\ delivered = FALSE
  /\ data = XdpData(record)
  /\ view = AppPacketView(data)
  /\ protocol_packet_counters = [name \in {} |-> 0]

PathNext == FrameWalks \/ PacketArrives \/ NextFrameArrives

PathSpec == PathInit /\ [][PathNext]_path

-----------------------------------------------------------------------------
(* Properties.                                                             *)

(* The number that two bytes mean on the wire.                             *)
OnTheWire(word) == 256 * word.first + word.second

(* "the packet content has genuinely reached the application": whatever    *)
(* the byte order of the machine and whatever frames came before, type and *)
(* ports are the numbers on the wire, and the payload is, byte for byte,   *)
(* what follows the headers, up to 128 bytes.  Both handlers see the same. *)
HandlerSeesTheFrame ==
  delivered =>
    /\ data.ether_type = ETH_P_IP
    /\ data.source_port = IF HasPorts THEN OnTheWire(frame.source) ELSE 0
    /\ data.destination_port = IF HasPorts THEN OnTheWire(frame.dest) ELSE 0
    /\ \A i \in 0..(XDP_PACKET_MAX_PAYLOAD_BYTES - 1) :
         i \in DOMAIN data.payload_bytes <=> payload_start + i < frame.length
    /\ \A i \in DOMAIN data.payload_bytes :
         data.payload_bytes[i] = payload_start + i
    /\ view.source_port = data.source_port
    /\ view.destination_port = data.destination_port
    /\ view.payload_bytes = data.payload_bytes

(* "how many packets arrived per protocol": each record that the XDP       *)
(* program submitted, and no frame that it passed on without, is counted   *)
(* exactly once, and under a name that no other protocol number has.       *)
EachRecordCountedOnce ==
  \A number \in DOMAIN captured :
    captured[number] = Counter(ip_protocol_name(number))
      + IF at = "submitted" /\ ~delivered /\ frame.protocol = number THEN 1 ELSE 0

(* The cells of the dump that hold a byte are filled line after line with  *)
(* the bytes in their order.                                               *)
ReadsAs(dump, bytes) ==
  LET Shown(c) == dump[c[1]][c[2]]
      cells    == { c \in (DOMAIN dump) \X (0..(bytes_per_line - 1)) : Shown(c) # Blank }
      Previous(c) == IF c[2] > 0 THEN <<c[1], c[2] - 1>>
                                 ELSE <<c[1] - 1, bytes_per_line - 1>>
  IN  /\ { Shown(c) : c \in cells } = { bytes[i] : i \in DOMAIN bytes }
      /\ \A c \in cells \ {<<0, 0>>} :
           Previous(c) \in cells /\ Shown(Previous(c)) < Shown(c)
      /\ \A line \in DOMAIN dump : <<line, 0>> \in cells

(* The hex dump, read line by line, is the payload: no byte is missing at  *)
(* the end of a line or of the array, none is shown twice or out of order, *)
(* and no line is all padding (0, 16, 127 and 128 bytes among them).       *)
DumpShowsPayload ==
  delivered => ReadsAs(payload_hex_dump(data.payload_bytes), data.payload_bytes)
=============================================================================
