---------------------------- MODULE MCXdpMonitor ----------------------------
(* Small instances of XdpMonitor: who drives it and what may go wrong.     *)
EXTENDS XdpMonitor, TLC

(* The processes differ in their name only, and no property of the safety *)
(* run tells names apart.                                                  *)
AnyOrder == Permutations(Procs)

(* Every set-up step, the poll and the detach may fail; then all but the   *)
(* detach; then nothing fails except by what other processes do.           *)
AllEnvironments ==
  { [client |-> "library", faults |-> Steps],
    [client |-> "main",    faults |-> Steps \ {"detach"}],
    [client |-> "main",    faults |-> {}] }

NothingFails == { e \in AllEnvironments : e.faults = {} }

PollMayFail == { [client |-> "main", faults |-> {"poll"}] }
=============================================================================
