---------------------------- MODULE MCXdpSystem -----------------------------
(* One process, a ring of two records and a few frames.                    *)
EXTENDS XdpSystem

Short == [f \in Frames |-> 1]

(* main() or an event loop drives the monitor; nothing fails, or anything  *)
(* but the detach.                                                         *)
AllClients ==
  [client : {"main", "library"}, faults : {{}, Steps \ {"detach"}}]

NothingFails == { [client |-> "main", faults |-> {}] }
=============================================================================
