---------------------------- MODULE PacketChannel ---------------------------
(***************************************************************************)
(* What the ring buffer promises to the two programs that share it: a      *)
(* bounded first-in first-out channel of packet records.  The XDP program  *)
(* claims a place and makes the record readable later; the application     *)
(* receives, in the order of the claims, exactly the packet that was       *)
(* captured: its metadata and the first MaxPayload bytes of its payload.   *)
(***************************************************************************)
EXTENDS Integers, Sequences

CONSTANTS
  Frames,         (* The frames that may arrive.                           *)
  PayloadLength,  (* Payload bytes of each frame.                          *)
  MaxPayload,     (* XDP_PACKET_MAX_PAYLOAD_BYTES                          *)
  Capacity,       (* Records that fit into the ring.                       *)
  NoRecord        (* Nothing was delivered yet.                            *)

VARIABLES
  queue,          (* Records claimed and not yet delivered.                *)
  out             (* The record delivered last.                            *)

channel == <<queue, out>>

CopiedBytes(f) ==
  IF PayloadLength[f] <= MaxPayload THEN PayloadLength[f] ELSE MaxPayload

(* A record is its metadata and, for each payload byte, the frame the byte *)
(* was read from.                                                          *)
View(f) == [meta |-> f, payload |-> [i \in 1..CopiedBytes(f) |-> f]]

Reserve(f) ==
  /\ Len(queue) < Capacity
  /\ queue' = Append(queue, [frame |-> f, ready |-> FALSE])
  /\ UNCHANGED out

Submit(i) ==
  /\ ~queue[i].ready
  /\ queue' = [queue EXCEPT ![i].ready = TRUE]
  /\ UNCHANGED out

HeadIsReady == queue # <<>> /\ Head(queue).ready

Deliver ==
  /\ HeadIsReady
  /\ out' = View(Head(queue).frame)
  /\ queue' = Tail(queue)

Init == queue = <<>> /\ out = NoRecord

SomeSubmit == \E i \in DOMAIN queue : Submit(i)

Next == \/ \E f \in Frames : Reserve(f)
        \/ SomeSubmit
        \/ Deliver

Spec == Init /\ [][Next]_channel

(* Every record that was claimed is submitted, every record that can be    *)
(* delivered is: the XDP program always runs to its end, and somebody      *)
(* polls the consumer.                                                     *)
FairSpec == /\ Spec
            /\ WF_channel(SomeSubmit)
            /\ WF_channel(Deliver)
=============================================================================
