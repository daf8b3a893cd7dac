---------------------------- MODULE FrameCapture ----------------------------
(***************************************************************************)
(* How xdp_capture_packet walks through a frame: the bounds checks that    *)
(* the BPF verifier demands, the headers it reads behind them, and the     *)
(* record it fills.  It is called again for every frame, and the slot that *)
(* bpf_ringbuf_reserve returns still holds what an earlier record left     *)
(* there.  Positions are byte offsets from xdp_md->data, so that data_end  *)
(* is the length.                                                          *)
(***************************************************************************)
EXTENDS Integers

CONSTANT FrameSet    (* The frames that may arrive, see the assumption.    *)

Byte == 0..255
Word == [first : Byte, second : Byte]          \* two bytes, in memory order

ASSUME FrameAssumption ==
  FrameSet \subseteq
    [length : Nat,                             \* data_end - data
     ether_type : Word,                        \* h_proto
     ihl : 0..15, tot_len : Nat,               \* of the IPv4 header
     frag_off : Nat, protocol : Byte,
     source : Word, dest : Word,               \* the words at transport_header
     doff : 0..15]                             \* of the TCP header

VARIABLES
  host,     (* Rigid: the byte order of the machine, "little" or "big".    *)
  frame,    (* The frame the program was called for.                       *)
  at,       (* The numbered part of the program that comes next.           *)
  touched,  (* End of the furthest byte of the frame that was read.        *)
  ports,    (* source_port and destination_port, as they lie in memory.    *)
  record    (* The slot in the ring, see Records.                          *)

vars == <<host, frame, at, touched, ports, record>>

-----------------------------------------------------------------------------
ETH_HLEN    == 14                              \* sizeof(struct ethhdr)
IPHDR       == 20                              \* sizeof(struct iphdr)
ETH_P_IP    == 2048                            \* 0x0800
IPPROTO_TCP == 6
IPPROTO_UDP == 17
XDP_PACKET_MAX_PAYLOAD_BYTES == 128

Zero     == [first |-> 0, second |-> 0]
NoPorts  == [source |-> Zero, destination |-> Zero]
OldBytes == [offset |-> 0, count |-> 0]

(* "bytes" says what payload_bytes begins with: "count" bytes of the frame *)
(* from "offset" on.  Behind them are bytes of earlier records.            *)
Records == [ether_type : Word, ports : [source : Word, destination : Word],
            ip_protocol : Byte,
            payload_byte_count : 0..XDP_PACKET_MAX_PAYLOAD_BYTES,
            bytes : [offset : Nat, count : Nat]]

(* A 16-bit load.                                                          *)
Load(word) == IF host = "big" THEN 256 * word.first + word.second
                              ELSE word.first + 256 * word.second

(* bpf_htons() and ntohs().                                                *)
SwapOnLittle(n) == IF host = "big" THEN n ELSE 256 * (n % 256) + n \div 256

Furthest(m, n) == IF m >= n THEN m ELSE n

(* Mutant: a bounds check that is off by one.                              *)
FitsOffByOne(end) == end <= frame.length + 1

(* "header + 1 > data_end" is the failed check.                            *)
Fits(end) == end <= frame.length

HasPorts == frame.protocol \in {IPPROTO_TCP, IPPROTO_UDP}

transport_header == ETH_HLEN + frame.ihl * 4
payload_start    == transport_header +
                    CASE frame.protocol = IPPROTO_TCP -> 20   \* struct tcphdr
                      [] frame.protocol = IPPROTO_UDP -> 8    \* struct udphdr
                      [] OTHER -> 0

Goto(part) == at' = part

(* XDP_PASS without a record.                                              *)
Pass == Goto("passed") /\ UNCHANGED <<ports, record>>

-----------------------------------------------------------------------------
CheckEthernetHeader ==
  /\ at = "ethernet"
  /\ \/ ~Fits(ETH_HLEN) /\ Pass /\ UNCHANGED touched
     \/ /\ Fits(ETH_HLEN)
        /\ touched' = ETH_HLEN
        /\ \/ Load(frame.ether_type) # SwapOnLittle(ETH_P_IP) /\ Pass
           \/ /\ Load(frame.ether_type) = SwapOnLittle(ETH_P_IP)
              /\ Goto("ip")
              /\ UNCHANGED <<ports, record>>
  /\ UNCHANGED <<host, frame>>

CheckIpHeader ==
  /\ at = "ip"
  /\ \/ ~Fits(ETH_HLEN + IPHDR) /\ Pass /\ UNCHANGED touched
     \/ /\ Fits(ETH_HLEN + IPHDR)
        /\ touched' = ETH_HLEN + IPHDR
        /\ Goto("ports")
        /\ UNCHANGED <<ports, record>>
  /\ UNCHANGED <<host, frame>>

(* The fragment offset and TCP's data offset are not looked at.            *)
ReadPorts ==
  /\ at = "ports"
  /\ \/ HasPorts /\ ~Fits(payload_start) /\ Pass /\ UNCHANGED touched
     \/ /\ HasPorts /\ Fits(payload_start)
        /\ touched' = Furthest(touched, transport_header + 4)
        /\ ports' = [source |-> frame.source, destination |-> frame.dest]
        /\ Goto("reserve")
        /\ UNCHANGED record
     \/ ~HasPorts /\ Goto("reserve") /\ UNCHANGED <<touched, ports, record>>
  /\ UNCHANGED <<host, frame>>

(* The ring is full, or not.                                               *)
ReserveRecord ==
  /\ at = "reserve"
  /\ \/ Pass
     \/ Goto("fill") /\ UNCHANGED <<ports, record>>
  /\ UNCHANGED <<host, frame, touched>>

FillRecord ==
  /\ at = "fill"
  /\ record' = [record EXCEPT !.ether_type = frame.ether_type,
                              !.ports = ports,
                              !.ip_protocol = frame.protocol]
  /\ Goto("payload")
  /\ UNCHANGED <<host, frame, touched, ports>>

payload_available_bytes == frame.length - payload_start

(* Mutant: the upper clamp is missing.                                     *)
NeverTruncated == IF payload_available_bytes > 0 THEN payload_available_bytes ELSE 0

payload_bytes_to_copy ==
  IF payload_available_bytes <= 0 THEN 0
  ELSE IF payload_available_bytes > XDP_PACKET_MAX_PAYLOAD_BYTES
       THEN XDP_PACKET_MAX_PAYLOAD_BYTES ELSE payload_available_bytes

(* Mutant: the count is stored only when there is something to copy.       *)
CountIfPositive(n) ==
  IF n > 0 THEN [record EXCEPT !.payload_byte_count = n] ELSE record

Count(n) == [record EXCEPT !.payload_byte_count = n]

(* bpf_xdp_load_bytes copies all of it or fails and copies nothing; its    *)
(* result is ignored.                                                      *)
CopyPayload ==
  /\ at = "payload"
  /\ LET n == payload_bytes_to_copy IN
       /\ record' = [Count(n) EXCEPT
            !.bytes = IF n > 0 /\ Fits(payload_start + n)
                      THEN [offset |-> payload_start, count |-> n] ELSE OldBytes]
       /\ touched' = IF n > 0 THEN Furthest(touched, payload_start + n) ELSE touched
  /\ Goto("submitted")
  /\ UNCHANGED <<host, frame, ports>>

(* The record is behind the program, and the slot is used again.           *)
NextFrame ==
  /\ at \in {"submitted", "passed"}
  /\ frame' \in FrameSet
  /\ Goto("ethernet")
  /\ touched' = 0
  /\ ports' = NoPorts
  /\ record' = [record EXCEPT !.bytes = OldBytes]
  /\ UNCHANGED host

-----------------------------------------------------------------------------
Init ==
  /\ host \in {"little", "big"}
  /\ frame \in FrameSet
  /\ at = "ethernet"
  /\ touched = 0
  /\ ports = NoPorts
  /\ record = [ether_type |-> Zero, ports |-> NoPorts, ip_protocol |-> 0,
               payload_byte_count |-> 0, bytes |-> OldBytes]

Walk == \/ CheckEthernetHeader
        \/ CheckIpHeader
        \/ ReadPorts
        \/ ReserveRecord
        \/ FillRecord
        \/ CopyPayload

Next == Walk \/ NextFrame

Spec == Init /\ [][Next]_vars

-----------------------------------------------------------------------------
(* Properties.                                                             *)

(* Every variable has its type; the record's count fits its array.         *)
TypeOK ==
  /\ host \in {"little", "big"}
  /\ frame \in FrameSet
  /\ at \in {"ethernet", "ip", "ports", "reserve", "fill", "payload", "submitted", "passed"}
  /\ touched \in Nat
  /\ ports \in [source : Word, destination : Word]
  /\ record \in Records

(* For no frame, however short and whatever its length fields claim, does  *)
(* the program read behind data_end: neither a header nor the ports nor a  *)
(* payload byte, so that bpf_xdp_load_bytes, whose result is ignored,      *)
(* cannot fail and leave the bytes of an earlier record in the slot.       *)
ReadsInBounds == touched <= frame.length

(* A record that is submitted is complete and wholly of its own frame,     *)
(* whatever the slot held before: all bytes that it declares were copied   *)
(* from this frame, they end with the frame or fill the array, they start  *)
(* behind the headers that were validated, and the ports are those of the  *)
(* frame or zero, as the protocol has ports or not.                        *)
RecordIsComplete ==
  at = "submitted" =>
    /\ record.payload_byte_count = record.bytes.count
    /\ payload_start + record.bytes.count < frame.length
         => record.bytes.count = XDP_PACKET_MAX_PAYLOAD_BYTES
    /\ record.bytes.count > 0 /\ frame.ihl >= 5
         => record.bytes.offset >= ETH_HLEN + IPHDR
    /\ record.ports = IF frame.protocol \in {IPPROTO_TCP, IPPROTO_UDP}
                      THEN [source |-> frame.source, destination |-> frame.dest]
                      ELSE NoPorts

(* "the first payload_byte_count bytes of the packet's application         *)
(* payload": for a packet without TCP options, which the program leaves    *)
(* aside on purpose, the payload ends where the IPv4 packet ends.          *)
PayloadIsApplicationData ==
  at = "submitted" /\ frame.doff = 5 /\ frame.ihl >= 5 /\ record.bytes.count > 0 =>
    record.bytes.offset + record.bytes.count <= ETH_HLEN + frame.tot_len

(* "TCP/UDP source port (0 if not TCP/UDP)": what a record gives as ports  *)
(* are the ports of the datagram, which only its first fragment carries.   *)
PortsAreTransportPorts ==
  at = "submitted" /\ record.ports # NoPorts => frame.frag_off = 0
=============================================================================
