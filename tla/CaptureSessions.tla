--------------------------- MODULE CaptureSessions --------------------------
(***************************************************************************)
(* What class XdpMonitor promises to those who share a network interface.  *)
(* Each process has a session: run() starts it, it polls for packets or    *)
(* fails, and in the end its process is gone.  The interface has room for  *)
(* one program.  A session takes the interface only when it is free, it    *)
(* opens a consumer only for a program of its own, it does not poll after  *)
(* a set-up that failed, and who leaves keeps neither its consumer nor the *)
(* interface.  Crashes, foreign destructors, retries and refused detaches  *)
(* are the exceptions, each where it applies.                              *)
(***************************************************************************)
CONSTANT Procs  (* The processes that use the interface.                   *)

VARIABLES
  phase,      (* Of each session: ready, starting, polling, stopped,       *)
              (* failed, leaving, gone or killed.                          *)
  consumers,  (* Sessions that have a consumer to poll.                    *)
  holder,     (* The session whose program is on the interface, if any.    *)
  free,       (* No program is on the interface.                           *)
  retried,    (* Sessions in which run() was called again.                 *)
  departed,   (* Processes that may have detached whatever was attached.   *)
  stubborn    (* Rigid: the kernel may refuse to detach.                   *)

interface == <<holder, free>>
session   == <<phase, consumers, interface, retried, departed, stubborn>>

Resting == {"ready", "stopped", "failed"}
Dead    == {"gone", "killed"}

Become(p, next) == phase' = [phase EXCEPT ![p] = next]

-----------------------------------------------------------------------------
Run(p) ==
  /\ phase[p] \in Resting
  /\ Become(p, "starting")
  /\ retried' = IF phase[p] = "ready" THEN retried ELSE retried \cup {p}
  /\ UNCHANGED <<consumers, interface, departed, stubborn>>

Attach(p) ==
  /\ phase[p] = "starting"
  /\ free
  /\ holder' = {p}
  /\ free' = FALSE
  /\ UNCHANGED <<phase, consumers, retried, departed, stubborn>>

(* Only a detach by another process can have taken the program away since. *)
Open(p) ==
  /\ phase[p] = "starting"
  /\ p \in holder \/ departed \ {p} # {}
  /\ Become(p, "polling")
  /\ consumers' = consumers \cup {p}
  /\ UNCHANGED <<interface, retried, departed, stubborn>>

(* A consumer of an earlier run() may be kept, or overwritten.             *)
Fail(p) ==
  /\ phase[p] = "starting"
  /\ Become(p, "failed")
  /\ consumers' \in {consumers, consumers \ {p}}
  /\ UNCHANGED <<interface, retried, departed, stubborn>>

(* On request, or because a poll failed, which may be called a failure.    *)
Stop(p) ==
  /\ phase[p] = "polling"
  /\ \E result \in {"stopped", "failed"} : Become(p, result)
  /\ UNCHANGED <<consumers, interface, retried, departed, stubborn>>

-----------------------------------------------------------------------------
Destroy(p) ==
  /\ phase[p] \in Resting
  /\ Become(p, "leaving")
  /\ UNCHANGED <<consumers, interface, retried, departed, stubborn>>

Detach(p) ==
  /\ phase[p] = "leaving"
  /\ \/ holder' = {} /\ free' = TRUE
     \/ UNCHANGED interface
  /\ departed' = departed \cup {p}
  /\ UNCHANGED <<phase, consumers, retried, stubborn>>

Free(p) ==
  /\ phase[p] = "leaving"
  /\ consumers' = consumers \ {p}
  /\ UNCHANGED <<phase, interface, retried, departed, stubborn>>

Leave(p) ==
  /\ phase[p] = "leaving"
  /\ p \notin consumers
  /\ p \notin holder \/ p \in retried \/ stubborn
  /\ Become(p, "gone")
  /\ UNCHANGED <<consumers, interface, retried, departed, stubborn>>

-----------------------------------------------------------------------------
(* A killed process loses its consumer and leaves its program behind.      *)
Die(p) ==
  /\ phase[p] \notin Dead
  /\ Become(p, "killed")
  /\ consumers' = consumers \ {p}
  /\ departed' = departed \cup {p}
  /\ UNCHANGED <<interface, retried, stubborn>>

(* What the process attached before is foreign to its new session.         *)
Restart(p) ==
  /\ phase[p] \in Dead
  /\ Become(p, "ready")
  /\ holder' = holder \ {p}
  /\ retried' = retried \ {p}
  /\ UNCHANGED <<consumers, free, departed, stubborn>>

(* Somebody without a session attaches or detaches.                        *)
Stranger ==
  /\ holder = {}
  /\ free' = ~free
  /\ UNCHANGED <<phase, consumers, holder, retried, departed, stubborn>>

-----------------------------------------------------------------------------
Init ==
  /\ phase = [p \in Procs |-> "ready"]
  /\ consumers = {} /\ retried = {} /\ departed = {}
  /\ holder = {} /\ free = TRUE
  /\ stubborn \in BOOLEAN

SessionStep(p) ==
  \/ Run(p) \/ Attach(p) \/ Open(p) \/ Fail(p) \/ Stop(p)
  \/ Destroy(p) \/ Detach(p) \/ Free(p) \/ Leave(p)
  \/ Die(p) \/ Restart(p)

Next == (\E p \in Procs : SessionStep(p)) \/ Stranger

Spec == Init /\ [][Next]_session
=============================================================================
