------------------------------ MODULE XdpSystem -----------------------------
(***************************************************************************)
(* One process of XdpMonitor together with the traffic on its interface:   *)
(* frames arrive at any time, the attached program captures them into the  *)
(* channel, and the poll loop hands them to the application.  The set-up,  *)
(* the loop, the signal handler and the destructor are those of XdpMonitor *)
(* and the channel is PacketChannel, which the ring was shown to implement.*)
(* What is new is when epoll_wait may return, and that ring_buffer__poll   *)
(* goes on for as long as it finds records.  One channel is enough although*)
(* each run() loads a map of its own: nobody empties the slot behind the   *)
(* back of the one process, so that it attaches once at most               *)
(* (ListensToOwnProgram).                                                  *)
(***************************************************************************)
EXTENDS XdpMonitor, Sequences

CONSTANTS
  Frames,         (* The frames that may arrive.                           *)
  PayloadLength,  (* Payload bytes of each frame.                          *)
  MaxPayload,     (* XDP_PACKET_MAX_PAYLOAD_BYTES                          *)
  Capacity,       (* Records that fit into the ring.                       *)
  NoRecord,       (* Nothing was delivered yet.                            *)
  Endless         (* Traffic never ends; otherwise a frame arrives once.   *)

VARIABLES
  queue,          (* The records between the XDP program and the callback. *)
  out,            (* The last packet that reached on_packet_arrived.       *)
  left            (* The frames that are still to arrive.                  *)

ASSUME OneProcessAssumption == \A p, q \in Procs : p = q

ASSUME TrafficAssumption ==
  /\ PayloadLength \in [Frames -> Nat]
  /\ MaxPayload \in Nat
  /\ Capacity \in Nat \ {0}
  /\ Endless \in BOOLEAN

Channel == INSTANCE PacketChannel

monitor == vars
traffic == <<queue, out, left>>
system  == <<monitor, traffic>>

-----------------------------------------------------------------------------
Capturing == slot \in Programs

(* The frame goes on to the network stack in any case; without a program,  *)
(* or with the ring full, nothing is captured.                             *)
FrameArrives(f) ==
  /\ f \in left
  /\ left' = IF Endless THEN left ELSE left \ {f}
  /\ \/ Capturing /\ Channel!Reserve(f)
     \/ (~Capturing \/ Len(queue) = Capacity) /\ UNCHANGED <<queue, out>>
  /\ UNCHANGED monitor

(* The XDP program that holds a record submits it, attached or not.        *)
RecordSubmitted == Channel!SomeSubmit /\ UNCHANGED <<monitor, left>>

sizeof_xdp_packet == 159          \* both sides are built with one packet.h
record_size       == sizeof_xdp_packet               \* what was reserved

(* Mutant: a record of exactly the expected size is refused.               *)
AtMostThePacket(size) == size <= sizeof_xdp_packet

IsTooShort(size) == size < sizeof_xdp_packet

(* handle_ringbuf_sample hands the record to on_packet_arrived, unless it  *)
(* is too short.  The context is the address of a reference, never null.   *)
Sample ==
  /\ Channel!HeadIsReady
  /\ out' = IF IsTooShort(record_size) THEN out ELSE Channel!View(Head(queue).frame)
  /\ queue' = Tail(queue)

SampleHandled(p) == pc[p] = "drain" /\ Sample /\ UNCHANGED <<monitor, left>>

(* What the steps of ring_buffer__poll depend on: epoll may report the     *)
(* ring readable as soon as a record is reserved, does not sleep over one  *)
(* that is submitted, and the drain stops where none is.                   *)
PollStep(p) ==
  /\ \/ FallAsleep(p) /\ ~Channel!HeadIsReady
     \/ WaitReady(p) /\ queue # <<>>
     \/ WaitTimesOut(p) /\ ~Channel!HeadIsReady
     \/ DrainEnds(p) /\ ~Channel!HeadIsReady
  /\ UNCHANGED traffic

SetUpStep(p) ==
  /\ \/ CallRun(p)
     \/ ResolveInterfaceIndex(p)
     \/ LoadBpfObject(p)
     \/ FindBpfProgramAndMap(p)
     \/ AttachXdpProgram(p)
     \/ OpenRingBuffer(p)
     \/ CheckStopRequested(p)
     \/ PollRingBufferOnce(p)
     \/ Destroy(p)
     \/ DestructorStep(p)
  /\ UNCHANGED traffic

ProcessStep(p) == SetUpStep(p) \/ PollStep(p) \/ SampleHandled(p)

Interrupted(p) ==
  /\ HandleInterruptSignal(p) \/ WaitFails(p)
  /\ UNCHANGED traffic

-----------------------------------------------------------------------------
SystemInit == Init /\ Channel!Init /\ left = Frames

SystemNext ==
  \/ \E f \in Frames : FrameArrives(f)
  \/ RecordSubmitted
  \/ \E p \in Procs : ProcessStep(p) \/ Interrupted(p)

(* The process is scheduled and the XDP program runs to its end.  Frames   *)
(* and signals get no fairness.                                            *)
SystemSpec ==
  /\ SystemInit /\ [][SystemNext]_system
  /\ WF_system(RecordSubmitted)
  /\ \A p \in Procs : WF_system(ProcessStep(p))

-----------------------------------------------------------------------------
(* Properties.                                                             *)

InQueue(f) == \E i \in DOMAIN queue : queue[i].frame = f

(* A packet that was captured while the monitor has a consumer reaches the *)
(* handler, without another packet having to arrive, through run() or      *)
(* through the application's own loop over poll_ring_buffer_once(), unless *)
(* run() ends first or the monitor is destroyed ("Called by the XDP        *)
(* monitor once for every captured packet").                               *)
CapturedReachesHandler ==
  \A p \in Procs, f \in Frames :
    InQueue(f) /\ Listening(p) ~>
      \/ out = Channel!View(f)
      \/ env.client = "main" /\ ~InRun(p)
      \/ ~Listening(p)

(* When the first run() reports an error no packet has reached the         *)
(* application, in the destructor neither: the example may skip its        *)
(* summary ("on a startup failure the monitor never captured anything").   *)
FailedRunDeliveredNothing ==
  \A p \in Procs : runs[p] = 1 /\ code[p] = 1 => out = NoRecord

(* run() honours a stop request that finds it anywhere, before the loop    *)
(* has begun or in the window before epoll_wait sleeps, also on a thread   *)
(* whose wait no signal interrupts, and also one that was requested before *)
(* this call ("Blocks in the poll loop until the signal handler requests a *)
(* stop").                                                                 *)
RunHonoursStop ==
  \A p \in Procs : stop[p] /\ InRun(p) ~> ~InRun(p) \/ pc[p] \in Dead

(* "every packet eventually reaches your application's ingest_packet": a   *)
(* monitor that was asked to stop and exits with 0 has handed over         *)
(* everything that was captured.                                           *)
CleanExitDeliversAll ==
  \A p \in Procs :
    pc[p] = "exited" /\ code[p] = 0 /\ stop[p] => queue = <<>>
=============================================================================
