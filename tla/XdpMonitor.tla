----------------------------- MODULE XdpMonitor -----------------------------
(***************************************************************************)
(* The lifecycle of class XdpMonitor: run(), its five set-up steps, the    *)
(* poll loop, poll_ring_buffer_once(), the signal handler and the          *)
(* destructor, for several processes that share one network interface.     *)
(*                                                                         *)
(* Each process owns one XdpMonitor.  The interface has one place for an   *)
(* XDP program, "slot", which outlives every process: a program attached   *)
(* through bpf_xdp_attach stays there until someone detaches it.           *)
(***************************************************************************)
EXTENDS Integers

CONSTANTS
  Procs,           (* The processes that use the interface.                *)
  MaxRuns,         (* Bound: calls of run() on one monitor object.         *)
  MaxLives,        (* Bound: times one process is started.                 *)
  Environments,    (* What may go wrong and who drives the monitor.        *)
  NoProgram,       (* The slot of the interface is free.                   *)
  ForeignGeneric,  (* Another tool's program, attached in generic mode.    *)
  ForeignNative    (* Another tool's program, attached in driver mode.     *)

VARIABLES
  env,      (* Rigid: [client, faults], chosen in Init.                    *)
  pc,       (* Where each process is; see Labels.                          *)
  life,     (* How often each process was started.                         *)
  runs,     (* Calls of run() on the current monitor object.               *)
  ifindex,  (* interface_index_: -1 at first, 0 when unknown, 1 when found. *)
  obj,      (* bpf_object_: 0 is nullptr, n the object opened by run n.    *)
  fd,       (* xdp_program_fd_: -1, or n for the program of object n.      *)
  ring,     (* ring_buffer_: 0 is nullptr, n the consumer opened by run n. *)
  stop,     (* stop_monitoring_requested, one per process.                 *)
  code,     (* What run() returned, -1 while it has not.                   *)
  objects,  (* BPF objects the process has open.                           *)
  rings,    (* Ring buffer consumers the process has open.                 *)
  slot      (* The XDP program attached to the interface.                  *)

members == <<runs, ifindex, obj, fd, ring>>
handles == <<objects, rings>>
process == <<pc, life, members, stop, code, handles>>
vars    == <<env, process, slot>>

-----------------------------------------------------------------------------
Steps     == {"resolve", "load", "find", "attach", "open", "poll", "detach"}
SetUp     == {"resolve", "load", "find", "attach", "open"}
Waiting   == {"call", "wait", "drain"}        \* inside ring_buffer__poll()
Teardowns == {"detach", "free", "close"}
Dead      == {"exited", "killed"}
Labels    == {"idle", "check"} \cup SetUp \cup Waiting \cup Teardowns \cup Dead

Programs == [proc : Procs, life : 1..MaxLives, run : 1..MaxRuns]

ASSUME BoundsAssumption ==
  /\ MaxRuns \in Nat
  /\ MaxLives \in Nat \ {0}

ASSUME EnvironmentsAssumption ==
  Environments \subseteq [client : {"main", "library"}, faults : SUBSET Steps]

ASSUME SlotAssumption ==
  /\ {NoProgram, ForeignGeneric, ForeignNative} \cap Programs = {}
  /\ NoProgram # ForeignGeneric
  /\ NoProgram # ForeignNative
  /\ ForeignGeneric # ForeignNative

MayFail(step) == step \in env.faults

(* Mutant: attach is handed the number of the consumer instead.            *)
RingProgramOf(p, n) == [proc |-> p, life |-> life[p], run |-> ring[p]]

(* The program that the current monitor of p loaded with its n-th run().   *)
ProgramOf(p, n) == [proc |-> p, life |-> life[p], run |-> n]

(* run() has been entered and has not returned.  poll_ring_buffer_once()   *)
(* reaches the ring buffer only after a run() that returned.               *)
InRun(p) == code[p] = -1

Goto(p, label) == pc' = [pc EXCEPT ![p] = label]

Return(p, result) == /\ Goto(p, "idle")
                     /\ code' = [code EXCEPT ![p] = result]

(* Mutant: a set-up step's "false" is handed on as the result.             *)
ReturnsFalse(p) == Return(p, 0)

(* A set-up step failed: run() returns 1.                                  *)
SetUpFails(p) == Return(p, 1)

-----------------------------------------------------------------------------
(* Starting and leaving run().                                             *)

CallRun(p) ==
  /\ pc[p] = "idle"
  /\ runs[p] < MaxRuns
  /\ env.client = "main" => runs[p] = 0
  /\ Goto(p, "resolve")
  /\ runs' = [runs EXCEPT ![p] = @ + 1]
  /\ code' = [code EXCEPT ![p] = -1]
  /\ UNCHANGED <<env, life, ifindex, obj, fd, ring, stop, handles, slot>>

ResolveInterfaceIndex(p) ==
  /\ pc[p] = "resolve"
  /\ \/ /\ ifindex' = [ifindex EXCEPT ![p] = 1]
        /\ Goto(p, "load")
        /\ UNCHANGED code
     \/ /\ MayFail("resolve")
        /\ ifindex' = [ifindex EXCEPT ![p] = 0]
        /\ SetUpFails(p)
  /\ UNCHANGED <<env, life, runs, obj, fd, ring, stop, handles, slot>>

OpensObject(p) ==
  /\ obj' = [obj EXCEPT ![p] = runs[p]]
  /\ objects' = [objects EXCEPT ![p] = @ \cup {runs[p]}]

(* Mutant: the member is set only after a successful load.                 *)
RefusedObjectIsForgotten(p) ==
  /\ obj' = [obj EXCEPT ![p] = 0]
  /\ objects' = [objects EXCEPT ![p] = @ \cup {runs[p]}]

(* bpf_object__load failed: the member still owns the opened object.       *)
LoadIsRefused(p) == OpensObject(p)

LoadBpfObject(p) ==
  /\ pc[p] = "load"
  /\ \/ OpensObject(p) /\ Goto(p, "find") /\ UNCHANGED code
     \/ MayFail("load") /\ LoadIsRefused(p) /\ SetUpFails(p)
     \/ /\ MayFail("load")                     \* the file could not be opened
        /\ obj' = [obj EXCEPT ![p] = 0]
        /\ SetUpFails(p)
        /\ UNCHANGED objects
  /\ UNCHANGED <<env, life, runs, ifindex, fd, ring, stop, rings, slot>>

FindBpfProgramAndMap(p) ==
  /\ pc[p] = "find"
  /\ \/ fd' = [fd EXCEPT ![p] = runs[p]] /\ Goto(p, "attach") /\ UNCHANGED code
     \/ /\ MayFail("find")    \* no such program or map, or no descriptor
        /\ fd' \in {fd, [fd EXCEPT ![p] = -1]}
        /\ SetUpFails(p)
  /\ UNCHANGED <<env, life, runs, ifindex, obj, ring, stop, handles, slot>>

(* XDP_FLAGS_UPDATE_IF_NOEXIST: the kernel refuses when any program is     *)
(* attached, whatever its mode.                                            *)

(* Mutant: XDP_FLAGS_UPDATE_IF_NOEXIST is forgotten.                       *)
SlotAcceptsAnything == TRUE

SlotAccepts == slot = NoProgram

AttachXdpProgram(p) ==
  /\ pc[p] = "attach"
  /\ \/ /\ SlotAccepts
        /\ slot' = ProgramOf(p, fd[p])
        /\ Goto(p, "open")
        /\ UNCHANGED code
     \/ /\ ~SlotAccepts \/ MayFail("attach")
        /\ SetUpFails(p)
        /\ UNCHANGED slot
  /\ UNCHANGED <<env, life, members, stop, handles>>

(* Mutant: a consumer that is open already is kept.                        *)
KeptConsumer(p) == IF ring[p] # 0 THEN ring[p] ELSE runs[p]

(* ring_buffer__new on the map of the object that this run() loaded.       *)
NewConsumer(p) == runs[p]

OpenRingBuffer(p) ==
  /\ pc[p] = "open"
  /\ \/ /\ ring' = [ring EXCEPT ![p] = NewConsumer(p)]
        /\ rings' = [rings EXCEPT ![p] = @ \cup {NewConsumer(p)}]
        /\ Goto(p, "check")
        /\ UNCHANGED code
     \/ /\ MayFail("open")
        /\ ring' \in {ring, [ring EXCEPT ![p] = 0]}
        /\ SetUpFails(p)
        /\ UNCHANGED rings
  /\ UNCHANGED <<env, life, runs, ifindex, obj, fd, stop, objects, slot>>

-----------------------------------------------------------------------------
(* The poll loop.  "call" is the window between the test of the flag and   *)
(* the moment epoll_wait sleeps; "wait" is asleep; "drain" hands records   *)
(* to the callback.                                                        *)

(* Mutant: the loop goes on for as long as the poll succeeds.              *)
StopFlagIgnored(p) == FALSE

StopSeen(p) == stop[p]

CheckStopRequested(p) ==
  /\ pc[p] = "check"
  /\ \/ StopSeen(p) /\ Return(p, 0)
     \/ ~StopSeen(p) /\ Goto(p, "call") /\ UNCHANGED code
  /\ UNCHANGED <<env, life, members, stop, handles, slot>>

(* Without a consumer the call returns -EINVAL and changes nothing.        *)
PollRingBufferOnce(p) ==
  /\ pc[p] = "idle"
  /\ env.client = "library"
  /\ ring[p] # 0
  /\ Goto(p, "call")
  /\ UNCHANGED <<env, life, members, stop, code, handles, slot>>

FallAsleep(p) ==
  /\ pc[p] = "call"
  /\ Goto(p, "wait")
  /\ UNCHANGED <<env, life, members, stop, code, handles, slot>>

(* epoll_wait reports the ring readable, at once or after a sleep.         *)
WaitReady(p) ==
  /\ pc[p] \in {"call", "wait"}
  /\ Goto(p, "drain")
  /\ UNCHANGED <<env, life, members, stop, code, handles, slot>>

(* ring_buffer__poll returns a count: run() goes back to the test of the   *)
(* flag, poll_ring_buffer_once() to its caller.                            *)
PollReturns(p) ==
  /\ Goto(p, IF InRun(p) THEN "check" ELSE "idle")
  /\ UNCHANGED <<env, life, members, stop, code, handles, slot>>

(* Mutant: a negative timeout, which lets epoll_wait sleep for ever.       *)
NeverTimesOut(p) == FALSE

WaitTimesOut(p) == pc[p] = "wait"  /\ PollReturns(p)   \* POLL_TIMEOUT_MS
DrainEnds(p)    == pc[p] = "drain" /\ PollReturns(p)

(* Mutant: a failed poll makes run() return 1.                             *)
PollFailureIsAnError(p) ==
  /\ Goto(p, "idle")
  /\ code' = IF InRun(p) THEN [code EXCEPT ![p] = 1] ELSE code

(* A negative result: the loop breaks and run() returns 0 all the same.    *)
PollFails(p) ==
  /\ Goto(p, "idle")
  /\ code' = IF InRun(p) THEN [code EXCEPT ![p] = 0] ELSE code

(* epoll_wait fails, for instance with EINTR when the process is stopped   *)
(* and continued.                                                          *)
WaitFails(p) ==
  /\ pc[p] = "wait"
  /\ MayFail("poll")
  /\ PollFails(p)
  /\ UNCHANGED <<env, life, members, stop, handles, slot>>

(* SIGINT or SIGTERM: the handler sets the flag.  A sleeping epoll_wait is *)
(* never restarted after a handler and returns -EINTR, unless the handler  *)
(* ran on another thread of an application that gave the monitor its own.  *)
HandleInterruptSignal(p) ==
  /\ pc[p] \notin Dead
  /\ stop' = [stop EXCEPT ![p] = TRUE]
  /\ \/ pc[p] = "wait" /\ PollFails(p)
     \/ (pc[p] # "wait" \/ env.client = "library") /\ UNCHANGED <<pc, code>>
  /\ UNCHANGED <<env, life, members, handles, slot>>

-----------------------------------------------------------------------------
(* The destructor: detach, then free the consumer, then close the object.  *)

(* Mutant: the object is closed before the consumer is freed.              *)
CloseBeforeFree == [detach |-> "close", close |-> "free", free |-> "exited"]

TeardownOrder == [detach |-> "free", free |-> "close", close |-> "exited"]

Destroy(p) ==
  /\ pc[p] = "idle"
  /\ env.client = "main" => code[p] # -1
  /\ Goto(p, "detach")
  /\ UNCHANGED <<env, life, members, stop, code, handles, slot>>

(* Mutant: only a monitor that got as far as its consumer detaches.        *)
DetachOnlyAfterOpen(p) == ifindex[p] >= 0 /\ fd[p] >= 0 /\ ring[p] # 0

DetachGuard(p) == ifindex[p] >= 0 /\ fd[p] >= 0

(* Mutant: detach only what this very monitor attached.                    *)
OwnProgramIsRemoved(p) ==
  IF slot = ProgramOf(p, fd[p]) THEN NoProgram ELSE slot

(* bpf_xdp_detach names the interface and the mode, not the program: it    *)
(* empties the slot unless a driver-mode program holds it.  Index 0 is no  *)
(* interface.                                                              *)
SlotAfterDetach(p) ==
  IF slot = ForeignNative \/ ifindex[p] = 0 THEN slot ELSE NoProgram

DetachXdpProgram(p) ==
  /\ pc[p] = "detach"
  /\ Goto(p, TeardownOrder.detach)
  /\ \/ /\ DetachGuard(p)
        /\ \/ slot' = SlotAfterDetach(p)
           \/ MayFail("detach") /\ UNCHANGED slot   \* the result is ignored
        /\ fd' = [fd EXCEPT ![p] = -1]
     \/ ~DetachGuard(p) /\ UNCHANGED <<fd, slot>>
  /\ UNCHANGED <<env, life, runs, ifindex, obj, ring, stop, code, handles>>

CloseRingBuffer(p) ==
  /\ pc[p] = "free"
  /\ Goto(p, TeardownOrder.free)
  /\ rings' = [rings EXCEPT ![p] = @ \ {ring[p]}]
  /\ ring' = [ring EXCEPT ![p] = 0]
  /\ UNCHANGED <<env, life, runs, ifindex, obj, fd, stop, code, objects, slot>>

CloseBpfObject(p) ==
  /\ pc[p] = "close"
  /\ Goto(p, TeardownOrder.close)
  /\ objects' = [objects EXCEPT ![p] = @ \ {obj[p]}]
  /\ obj' = [obj EXCEPT ![p] = 0]
  /\ UNCHANGED <<env, life, runs, ifindex, fd, ring, stop, code, rings, slot>>

-----------------------------------------------------------------------------
(* The environment: a death without destructor (SIGKILL, or the abort that *)
(* an exception leaving on_packet_arrived ends in, since neither main()    *)
(* catches it), a new start of the program, other tools.                   *)

(* The kernel closes the descriptors of a killed process; what it attached *)
(* stays attached.                                                         *)
Kill(p) ==
  /\ pc[p] \notin Dead
  /\ life[p] < MaxLives
  /\ Goto(p, "killed")
  /\ objects' = [objects EXCEPT ![p] = {}]
  /\ rings' = [rings EXCEPT ![p] = {}]
  /\ UNCHANGED <<env, life, members, stop, code, slot>>

Start(p) ==
  /\ pc[p] \in Dead
  /\ life[p] < MaxLives
  /\ Goto(p, "idle")
  /\ life' = [life EXCEPT ![p] = @ + 1]
  /\ runs' = [runs EXCEPT ![p] = 0]
  /\ ifindex' = [ifindex EXCEPT ![p] = -1]
  /\ obj' = [obj EXCEPT ![p] = 0]
  /\ fd' = [fd EXCEPT ![p] = -1]
  /\ ring' = [ring EXCEPT ![p] = 0]
  /\ stop' = [stop EXCEPT ![p] = FALSE]
  /\ code' = [code EXCEPT ![p] = -1]
  /\ objects' = [objects EXCEPT ![p] = {}]
  /\ rings' = [rings EXCEPT ![p] = {}]
  /\ UNCHANGED <<env, slot>>

(* Other tools are taken to ask for a free slot too, as "ip link" does,    *)
(* and to remove no program but their own: the kernel would let a tool     *)
(* that detaches as monitors do take a monitor's program off as well.      *)
OtherToolAttaches ==
  /\ slot = NoProgram
  /\ slot' \in {ForeignGeneric, ForeignNative}
  /\ UNCHANGED <<env, process>>

OtherToolDetaches ==
  /\ slot \in {ForeignGeneric, ForeignNative}
  /\ slot' = NoProgram
  /\ UNCHANGED <<env, process>>

-----------------------------------------------------------------------------
Init ==
  /\ env \in Environments
  /\ pc = [p \in Procs |-> "idle"]
  /\ life = [p \in Procs |-> 1]
  /\ runs = [p \in Procs |-> 0]
  /\ ifindex = [p \in Procs |-> -1]
  /\ obj = [p \in Procs |-> 0]
  /\ fd = [p \in Procs |-> -1]
  /\ ring = [p \in Procs |-> 0]
  /\ stop = [p \in Procs |-> FALSE]
  /\ code = [p \in Procs |-> -1]
  /\ objects = [p \in Procs |-> {}]
  /\ rings = [p \in Procs |-> {}]
  /\ slot = NoProgram

RunStep(p) ==
  \/ ResolveInterfaceIndex(p)
  \/ LoadBpfObject(p)
  \/ FindBpfProgramAndMap(p)
  \/ AttachXdpProgram(p)
  \/ OpenRingBuffer(p)
  \/ CheckStopRequested(p)
  \/ FallAsleep(p)
  \/ WaitReady(p)
  \/ WaitTimesOut(p)
  \/ DrainEnds(p)

DestructorStep(p) ==
  \/ DetachXdpProgram(p)
  \/ CloseRingBuffer(p)
  \/ CloseBpfObject(p)

ClientStep(p) == CallRun(p) \/ PollRingBufferOnce(p) \/ Destroy(p)

Disturbance(p) ==
  \/ WaitFails(p)
  \/ HandleInterruptSignal(p)
  \/ Kill(p)
  \/ Start(p)

Next ==
  \/ \E p \in Procs :
        RunStep(p) \/ DestructorStep(p) \/ ClientStep(p) \/ Disturbance(p)
  \/ OtherToolAttaches
  \/ OtherToolDetaches

(* Both main()s call run() and then leave the scope of the monitor, and a  *)
(* process is scheduled.  Signals, failures, kills and other tools get no  *)
(* fairness; an operator who sees the program gone starts it again.        *)
Fairness ==
  \A p \in Procs :
    /\ WF_vars(RunStep(p))
    /\ WF_vars(DestructorStep(p))
    /\ WF_vars(CallRun(p))
    /\ WF_vars(Destroy(p))
    /\ WF_vars(Start(p))

Spec     == Init /\ [][Next]_vars
FairSpec == Spec /\ Fairness

-----------------------------------------------------------------------------
(* Properties.                                                             *)

(* Every variable has its type.                                            *)
TypeOK ==
  /\ env \in Environments
  /\ pc \in [Procs -> Labels]
  /\ life \in [Procs -> 1..MaxLives]
  /\ runs \in [Procs -> 0..MaxRuns]
  /\ ifindex \in [Procs -> {-1, 0, 1}]
  /\ obj \in [Procs -> 0..MaxRuns]
  /\ fd \in [Procs -> {-1} \cup (1..MaxRuns)]
  /\ ring \in [Procs -> 0..MaxRuns]
  /\ stop \in [Procs -> BOOLEAN]
  /\ code \in [Procs -> {-1, 0, 1}]
  /\ objects \in [Procs -> SUBSET (1..MaxRuns)]
  /\ rings \in [Procs -> SUBSET (1..MaxRuns)]
  /\ slot \in Programs \cup {NoProgram, ForeignGeneric, ForeignNative}

Alive(p) == pc[p] \notin Dead

(* The program on the interface was attached by the current monitor of p.  *)
Attached(p) == slot \in Programs /\ slot.proc = p /\ slot.life = life[p]

(* Whatever step of run() failed, and whether or not a signal or another   *)
(* process got in between, a process that ran the monitor once and left    *)
(* through the destructor has not left its program on the interface        *)
(* (detach_xdp_program's guard on the index and the descriptor), as long   *)
(* as the kernel accepts the detach.                                       *)
NoStrayProgram ==
  \A p \in Procs :
    pc[p] = "exited" /\ runs[p] <= 1 /\ ~MayFail("detach") => ~Attached(p)

(* The detach of another monitor may be behind it.                         *)
MayHaveDetached(q) == pc[q] \in {"free", "close"} \cup Dead \/ life[q] > 1

OthersMayHaveDetached(p) == \E q \in Procs \ {p} : MayHaveDetached(q)

(* The destructor closes what the last run() opened, wherever it failed,   *)
(* so that after one run() nothing is left open.  What a retry overwrote   *)
(* stays open ("Clean up all kernel resources when the monitor is          *)
(* destroyed" does not hold then), but of consumers only when a foreign    *)
(* destructor had emptied the slot: as long as the monitor's own program   *)
(* is attached no second run() gets past attach_xdp_program.               *)
OnlyOverwrittenLeaks ==
  \A p \in Procs :
    pc[p] = "exited" =>
      /\ objects[p] \cup rings[p] \subseteq 1..(runs[p] - 1)
      /\ rings[p] = {} \/ OthersMayHaveDetached(p)

(* Consumer, descriptor and the object behind them are open as long as     *)
(* there is a member, or a poll in progress, that uses them.               *)
ValidHandles(p) ==
  Alive(p) => /\ obj[p] # 0 => obj[p] \in objects[p]
              /\ fd[p] # -1 => fd[p] \in objects[p]
              /\ ring[p] # 0 => ring[p] \in rings[p] \cap objects[p]
              /\ pc[p] \in Waiting => ring[p] # 0

(* No use after close: through every retry of run() and every step of the  *)
(* destructor, a monitor that can still poll its consumer, run the         *)
(* callback in it or hand its descriptor to the kernel has them open       *)
(* (close_ring_buffer before close_bpf_object, detach before both).        *)
HandlesStayValid == \A p \in Procs : ValidHandles(p)

(* No failed set-up is behind a result of 0 ("nonzero on error"): where    *)
(* run() polls, and when it has returned 0, it has found the interface,    *)
(* and consumer, program and object are there and belong together.  What   *)
(* an earlier run() left in the members never makes up for a step that     *)
(* failed in a retry.                                                      *)
NoFailureBehindZero ==
  \A p \in Procs :
    \/ pc[p] = "idle" /\ code[p] = 0
    \/ pc[p] \in {"check"} \cup Waiting /\ InRun(p)
    => /\ ifindex[p] = 1
       /\ ring[p] # 0 /\ fd[p] = ring[p] /\ obj[p] = ring[p]

(* The monitor can poll, in run() or through poll_ring_buffer_once().      *)
Listening(p) == ring[p] # 0 /\ pc[p] \notin {"free", "close"} \cup Dead

(* A monitor that can poll receives the traffic: the map behind its        *)
(* consumer is the one that the attached program writes to, both of the    *)
(* same run(), unless another monitor's destructor emptied the slot.  No   *)
(* start of another monitor or tool, no failed step, no retry and no       *)
(* signal can make it poll blind or poll the map of another run()          *)
(* (XDP_FLAGS_UPDATE_IF_NOEXIST on every attach, attach before open).      *)
ListensToOwnProgram ==
  \A p \in Procs :
    /\ Listening(p) => slot = ProgramOf(p, ring[p]) \/ OthersMayHaveDetached(p)
    /\ pc[p] = "open" => slot = ProgramOf(p, runs[p]) \/ OthersMayHaveDetached(p)

(* Nobody captures for nothing: while the program of a monitor is on the   *)
(* interface, its consumer reads that program's map, unless run() has said *)
(* with 1 that it failed, or is still on its way.  A retry over an older   *)
(* program, or a consumer that was opened for another run(), would fill a  *)
(* ring that no handler ever sees, behind a result of 0.                   *)
CapturedForReader ==
  \A p \in Procs :
    Attached(p) /\ pc[p] \in {"idle", "check"} \cup Waiting =>
      ring[p] = slot.run \/ code[p] = 1

(* "Returns 0 on clean exit, nonzero on error", where the clean exit is    *)
(* the one that "the signal handler requests".                             *)
ZeroExitMeansStopRequested ==
  \A p \in Procs : pc[p] = "idle" /\ code[p] = 0 => stop[p]

(* "attaches, polls, and detaches the XDP program": a monitor removes from *)
(* the interface only the program that it attached there.                  *)
DetachRemovesOwnProgram ==
  [][\A p \in Procs :
       pc[p] = "detach" /\ pc'[p] # "detach" /\ slot' # slot => Attached(p)]_vars

(* A stop request is honoured: once the handler has run, the program run   *)
(* by main() leaves the poll loop and its destructor finishes, wherever in *)
(* run() the signal found it.                                              *)
StopLeadsToExit ==
  \A p \in Procs :
    env.client = "main" /\ stop[p] ~> pc[p] \in Dead

(* The steps that a process run by main() has before it, at most, once a   *)
(* stop is requested.                                                      *)
StepsLeft(p) ==
  CASE pc[p] \in Dead -> 0
    [] pc[p] = "close" -> 1
    [] pc[p] = "free" -> 2
    [] pc[p] = "detach" -> 3
    [] pc[p] = "idle" /\ runs[p] # 0 -> 4
    [] pc[p] = "check" -> 5
    [] pc[p] \in {"drain", "open"} -> 6
    [] pc[p] \in {"wait", "attach"} -> 7
    [] pc[p] \in {"call", "find"} -> 8
    [] pc[p] = "load" -> 9
    [] pc[p] = "resolve" -> 10
    [] pc[p] = "idle" /\ runs[p] = 0 -> 11

(* After a stop request every step of the process brings its exit nearer,  *)
(* whatever fails and however often the signal comes again: no poll begins *)
(* but the one that the loop has already decided on ("Blocks in the poll   *)
(* loop until the signal handler requests a stop").                        *)
StopBringsExitNearer ==
  [][\A p \in Procs :
       env.client = "main" /\ stop[p] /\ stop'[p] /\ pc'[p] # pc[p] =>
         StepsLeft(p)' < StepsLeft(p)]_vars

(* What the others see of a process and of the interface: the variables of *)
(* CaptureSessions.                                                        *)
Result == [c \in {-1, 0, 1} |->
             CASE c = -1 -> "polling" [] c = 0 -> "stopped" [] c = 1 -> "failed"]

Phase(p) ==
  CASE pc[p] = "exited" -> "gone"
    [] pc[p] = "killed" -> "killed"
    [] pc[p] \in Teardowns -> "leaving"
    [] pc[p] \in SetUp -> "starting"
    [] OTHER -> IF runs[p] = 0 THEN "ready" ELSE Result[code[p]]

phase     == [p \in Procs |-> Phase(p)]
consumers == {p \in Procs : ring[p] # 0 /\ Alive(p)}
holder    == {p \in Procs : Attached(p)}
free      == slot = NoProgram
retried   == {p \in Procs : runs[p] > 1}
departed  == {p \in Procs : MayHaveDetached(p)}
stubborn  == MayFail("detach")

Sessions == INSTANCE CaptureSessions

(* The monitors of one interface, with every failure, signal, crash and    *)
(* retry in any interleaving, behave like sessions: each takes a free      *)
(* interface only, opens a consumer only behind its own program, polls     *)
(* after no failed set-up, and leaves without consumer and, after a single *)
(* run(), without its program on the interface.                            *)
ImplementsSessions == Sessions!Spec

(* A program attached by a process that has since been killed.             *)
Orphaned ==
  slot \in Programs /\ (life[slot.proc] # slot.life \/ pc[slot.proc] = "killed")

(* Crash recovery: a program left behind by a killed process does not stay *)
(* for ever.  The attach of the next monitor is refused because of it, but *)
(* its destructor, which detaches although it attached nothing, clears it. *)
OrphanIsCleared ==
  env.client = "main" /\ env.faults = {} /\ Orphaned ~> ~Orphaned
=============================================================================
