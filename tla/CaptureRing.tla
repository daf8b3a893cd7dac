----------------------------- MODULE CaptureRing ----------------------------
(***************************************************************************)
(* The path of one packet record: xdp_capture_packet on several CPUs fills *)
(* slots of the BPF ring buffer, handle_ringbuf_sample and the constructor *)
(* of XdpData read them.  Slots are reused and never cleared, so that what *)
(* an earlier packet left behind is still there when a slot is reserved.   *)
(*                                                                         *)
(* The steps of the XDP program and of the callback are from this          *)
(* repository; the reservation, the busy bit and the order in which the    *)
(* consumer walks the ring are the kernel's and libbpf's.                  *)
(***************************************************************************)
EXTENDS Integers, Sequences

CONSTANTS
  Cpus,           (* CPUs that run the XDP program.                        *)
  Frames,         (* The frames that may arrive.                           *)
  PayloadLength,  (* Bytes between payload start and end, per frame.       *)
  MaxPayload,     (* XDP_PACKET_MAX_PAYLOAD_BYTES                          *)
  Capacity,       (* Records that fit into captured_packets_ringbuf.       *)
  MaxRecords,     (* Bound: records reserved in a behaviour.               *)
  NoRecord,       (* Nothing was handed to the application yet.            *)
  Blank           (* A byte or a field of a slot that was never written.   *)

VARIABLES
  step,       (* Where the XDP program of each CPU is.                     *)
  position,   (* The position of the record each CPU holds.                *)
  captured,   (* Frames in the order of their reservations; its length is  *)
              (* the producer position.                                    *)
  memory,     (* The slots of the ring.                                    *)
  busy,       (* BPF_RINGBUF_BUSY_BIT of each slot.                        *)
  consumed,   (* The consumer position.                                    *)
  reader,     (* The consumer looks for the "next" record or, back from    *)
              (* the callback, has one to "release".                       *)
  handed      (* What on_packet_arrived was called with, in order.         *)

producer == <<step, position, captured>>
consumer == <<consumed, reader, handed>>
vars     == <<producer, memory, busy, consumer>>

-----------------------------------------------------------------------------
ASSUME RingAssumption ==
  /\ PayloadLength \in [Frames -> Nat]
  /\ MaxPayload \in Nat
  /\ Capacity \in Nat \ {0}
  /\ MaxRecords \in Nat

Slots     == 0..(Capacity - 1)
SlotOf(n) == n % Capacity
Tags      == Frames \cup {Blank}

(* xdp_packet: the metadata fields are abstracted to the frame they were   *)
(* read from, and so is every payload byte.                                *)
xdp_packet == [meta : Tags, count : 0..MaxPayload, bytes : [1..MaxPayload -> Tags]]

(* The frame that CPU c is capturing, and the slot it fills.               *)
FrameOf(c) == captured[position[c] + 1]
MySlot(c)  == SlotOf(position[c])

Goto(c, label) == step' = [step EXCEPT ![c] = label]

-----------------------------------------------------------------------------
(* xdp_capture_packet.  A frame that finds the ring full changes nothing.  *)

Reserve(c, f) ==
  /\ step[c] = "idle"
  /\ Len(captured) - consumed < Capacity
  /\ Len(captured) < MaxRecords                                     \* bound
  /\ position' = [position EXCEPT ![c] = Len(captured)]
  /\ captured' = Append(captured, f)
  /\ busy' = [busy EXCEPT ![SlotOf(Len(captured))] = TRUE]
  /\ Goto(c, "fill")
  /\ UNCHANGED <<memory, consumer>>

(* Mutant: the clamp to the capacity of the array is missing.              *)
Unclamped(f) == PayloadLength[f]

payload_bytes_to_copy(f) ==
  IF PayloadLength[f] <= MaxPayload THEN PayloadLength[f] ELSE MaxPayload

(* Mutant: the record is submitted before the payload is copied.           *)
SubmitBeforeLoad == [fill |-> "submit", submit |-> "load", load |-> "idle"]

After == [fill |-> "load", load |-> "submit", submit |-> "idle"]

FillRecord(c) ==
  /\ step[c] = "fill"
  /\ memory' = [memory EXCEPT ![MySlot(c)].meta = FrameOf(c),
                              ![MySlot(c)].count = payload_bytes_to_copy(FrameOf(c))]
  /\ Goto(c, After.fill)
  /\ UNCHANGED <<position, captured, busy, consumer>>

(* bpf_xdp_load_bytes overwrites the first payload_byte_count bytes and    *)
(* leaves what the slot held before in the others.                         *)
LoadBytes(c) ==
  /\ step[c] = "load"
  /\ memory' = [memory EXCEPT ![MySlot(c)].bytes =
                  [i \in 1..MaxPayload |->
                     IF i <= payload_bytes_to_copy(FrameOf(c)) THEN FrameOf(c) ELSE @[i]]]
  /\ Goto(c, After.load)
  /\ UNCHANGED <<position, captured, busy, consumer>>

(* Mutant: a packet without payload returns without submitting.            *)
SubmitOnlyPayload(c) == step[c] = "submit" /\ PayloadLength[FrameOf(c)] > 0

MaySubmit(c) == step[c] = "submit"

SubmitRecord(c) ==
  /\ MaySubmit(c)
  /\ busy' = [busy EXCEPT ![MySlot(c)] = FALSE]
  /\ Goto(c, After.submit)
  /\ UNCHANGED <<position, captured, memory, consumer>>

-----------------------------------------------------------------------------
(* ring_buffer__poll and the callback.                                     *)

(* Mutant: the whole payload array is copied.                              *)
WholeArray(record) == [meta |-> record.meta, payload |-> record.bytes]

(* The reader clamps the count again.                                      *)
bytes_to_copy(record) == IF record.count <= MaxPayload THEN record.count ELSE MaxPayload

(* The XdpData built from a record: its own copy of the declared bytes.    *)
XdpData(record) ==
  [meta |-> record.meta, payload |-> [i \in 1..bytes_to_copy(record) |-> record.bytes[i]]]

sizeof_xdp_packet == 159          \* both sides are built with one packet.h
record_size       == sizeof_xdp_packet               \* what Reserve asks for

(* A record that is too short is skipped.  The context that libbpf passes  *)
(* on is the address of a reference, so that there is a handler to call.   *)
HandleRingbufSample ==
  /\ reader = "next"
  /\ consumed < Len(captured)
  /\ ~busy[SlotOf(consumed)]
  /\ handed' = IF record_size < sizeof_xdp_packet THEN handed
               ELSE Append(handed, XdpData(memory[SlotOf(consumed)]))
  /\ reader' = "release"
  /\ UNCHANGED <<producer, memory, busy, consumed>>

ReleaseSlot ==
  /\ reader = "release"
  /\ consumed' = consumed + 1
  /\ reader' = "next"
  /\ UNCHANGED <<producer, memory, busy, handed>>

-----------------------------------------------------------------------------
BlankRecord == [meta |-> Blank, count |-> 0, bytes |-> [i \in 1..MaxPayload |-> Blank]]

Init ==
  /\ step = [c \in Cpus |-> "idle"]
  /\ position = [c \in Cpus |-> 0]
  /\ captured = <<>>
  /\ memory = [s \in Slots |-> BlankRecord]
  /\ busy = [s \in Slots |-> FALSE]
  /\ consumed = 0
  /\ reader = "next"
  /\ handed = <<>>

CaptureStep(c) == FillRecord(c) \/ LoadBytes(c) \/ SubmitRecord(c)
ConsumerStep   == HandleRingbufSample \/ ReleaseSlot

Next == \/ \E c \in Cpus : CaptureStep(c) \/ \E f \in Frames : Reserve(c, f)
        \/ ConsumerStep

(* An XDP program runs to its end once it was started, and the consumer is *)
(* polled; no frame needs ever arrive.                                     *)
Fairness == /\ \A c \in Cpus : WF_vars(CaptureStep(c))
            /\ WF_vars(ConsumerStep)

Spec     == Init /\ [][Next]_vars
FairSpec == Spec /\ Fairness

-----------------------------------------------------------------------------
(* Properties.                                                             *)

(* Every variable has its type.                                            *)
TypeOK ==
  /\ step \in [Cpus -> {"idle", "fill", "load", "submit"}]
  /\ position \in [Cpus -> Nat]
  /\ captured \in Seq(Frames)
  /\ memory \in [Slots -> xdp_packet]
  /\ busy \in [Slots -> BOOLEAN]
  /\ consumed \in Nat
  /\ reader \in {"next", "release"}
  /\ handed \in Seq([meta : Tags, payload : UNION {[1..n -> Tags] : n \in 0..MaxPayload}])

(* What the ring buffer promises, with the records that were not handed to *)
(* the application as the queue of the channel.                            *)
pending ==
  [i \in 1..(Len(captured) - Len(handed)) |->
     [frame |-> captured[Len(handed) + i],
      ready |-> ~busy[SlotOf(Len(handed) + i - 1)]]]

delivered == IF handed = <<>> THEN NoRecord ELSE handed[Len(handed)]

Channel == INSTANCE PacketChannel WITH queue <- pending, out <- delivered

(* The n-th call of on_packet_arrived gets exactly the n-th packet that    *)
(* was captured: its metadata and its own first payload bytes, never a     *)
(* byte of the packet that used the slot before, never a half-written      *)
(* record, none twice and none left out, however the CPUs interleave.      *)
HandedIsCaptured ==
  /\ Len(handed) <= Len(captured)
  /\ \A n \in 1..Len(handed) : handed[n] = Channel!View(captured[n])

(* Two CPUs never fill the same slot, and the consumer never reads a slot  *)
(* that is being filled: "reserve" may only go round the ring as far as    *)
(* the consumer has released.                                              *)
SlotsAreExclusive ==
  \A c \in Cpus : step[c] # "idle" =>
    /\ busy[MySlot(c)]
    /\ \A d \in Cpus \ {c} : step[d] # "idle" => MySlot(c) # MySlot(d)
    /\ reader = "release" => MySlot(c) # SlotOf(consumed)

(* The ring implements the channel, and under the fairness above every     *)
(* captured packet reaches the callback.                                   *)
ImplementsChannel == Channel!FairSpec
=============================================================================
