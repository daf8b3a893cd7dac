---------------------------- MODULE MCPacketPath ----------------------------
(* Every kind of frame, with lengths on both sides of each bounds check,   *)
(* of the truncation and of the lines of the hex dump, and the smallest,   *)
(* an ordinary and the largest IPv4 header; three of them, in any order.   *)
EXTENDS PacketPath

Header(protocol) == CASE protocol = 6 -> 20 [] protocol = 17 -> 8 [] OTHER -> 0

Around(n) == {n - 1, n, n + 1}

Frame(n, type, words, number) ==
  [length |-> n, ether_type |-> type, ihl |-> words, tot_len |-> 40,
   frag_off |-> 0, protocol |-> number,
   source |-> [first |-> 1, second |-> 187], dest |-> [first |-> 255, second |-> 2],
   doff |-> 5]

IPv4    == [first |-> 8, second |-> 0]
Swapped == [first |-> 0, second |-> 8]
Ipv6    == [first |-> 134, second |-> 221]

ShortFrames == { Frame(n, IPv4, 5, 6) : n \in {0} \cup Around(14) \cup Around(34) }

OtherFrames == { Frame(60, type, 5, 17) : type \in {Swapped, Ipv6} }

IpFrames ==
  UNION { LET start == 14 + 4 * words + Header(number)
              ends  == Around(start) \cup Around(start + 16)
                       \cup Around(start + 128)
          IN  { Frame(n, IPv4, words, number) : n \in ends } :
            words \in {0, 5, 15}, number \in {1, 2, 6, 17, 47} }

AllFrames == ShortFrames \cup OtherFrames \cup IpFrames
=============================================================================
