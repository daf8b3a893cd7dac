---------------------------- MODULE MCCaptureRing ---------------------------
(* Two CPUs, a ring of two slots that is reused, and frames with no        *)
(* payload, with a short one and with more than a record holds.            *)
EXTENDS CaptureRing, TLC

CONSTANTS empty, short, long

Lengths == empty :> 0 @@ short :> 1 @@ long :> 3
=============================================================================
