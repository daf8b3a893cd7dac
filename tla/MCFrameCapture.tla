--------------------------- MODULE MCFrameCapture ---------------------------
(* Single frames that show where the record and its documentation differ.  *)
EXTENDS FrameCapture

Frame(length, tot_len, frag_off, protocol) ==
  [length |-> length, ether_type |-> [first |-> 8, second |-> 0],
   ihl |-> 5, tot_len |-> tot_len, frag_off |-> frag_off, protocol |-> protocol,
   source |-> [first |-> 1, second |-> 187], dest |-> [first |-> 255, second |-> 2],
   doff |-> 5]

(* An acknowledgement without data, as Ethernet pads it to 60 bytes, and   *)
(* the same with data that fills the frame.                                *)
AckFrames == { Frame(60, n, 0, IPPROTO_TCP) : n \in {40, 46} }

(* The first and the second fragment of a UDP datagram.                    *)
Fragments == { Frame(1514, 1500, n, IPPROTO_UDP) : n \in {0, 185} }
=============================================================================
