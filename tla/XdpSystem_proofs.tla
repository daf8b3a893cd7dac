-------------------------- MODULE XdpSystem_proofs --------------------------
(* The composition does nothing to the monitor that it does not do alone,  *)
(* so that what is proved of XdpMonitor holds with traffic too; and what a *)
(* failed run() delivers, for every number of runs, frames and places.     *)
EXTENDS XdpSystem, XdpMonitor_proofs

-----------------------------------------------------------------------------
(* Every step is one of the monitor or leaves it alone.                    *)
LEMMA StepOfMonitor == [SystemNext]_system => [Next]_vars
<1> SUFFICES ASSUME [SystemNext]_system PROVE [Next]_vars
  OBVIOUS
<1>1. CASE UNCHANGED system
  BY <1>1 DEF system, monitor
<1>2. CASE RecordSubmitted \/ \E f \in Frames : FrameArrives(f)
  BY <1>2 DEF RecordSubmitted, FrameArrives, monitor
<1>3. ASSUME NEW p \in Procs, ProcessStep(p) \/ Interrupted(p) PROVE [Next]_vars
  <2>1. CASE SetUpStep(p)
    BY <2>1 DEF SetUpStep, Next, RunStep, ClientStep
  <2>2. CASE PollStep(p)
    BY <2>2 DEF PollStep, Next, RunStep
  <2>3. CASE SampleHandled(p)
    BY <2>3 DEF SampleHandled, monitor
  <2>4. CASE Interrupted(p)
    BY <2>4 DEF Interrupted, Next, Disturbance
  <2> QED
    BY <1>3, <2>1, <2>2, <2>3, <2>4 DEF ProcessStep
<1> QED
  BY <1>1, <1>2, <1>3 DEF SystemNext

(* The process of XdpSystem is one of XdpMonitor: signals, failures and    *)
(* retries with traffic on the interface lead nowhere that the lifecycle   *)
(* does not know, and its safety theorems hold here.                       *)
THEOREM SystemImplementsMonitor == SystemSpec => Spec
<1>1. SystemInit => Init
  BY DEF SystemInit
<1> QED
  BY <1>1, StepOfMonitor, PTL DEF SystemSpec, Spec

-----------------------------------------------------------------------------
(* What reached the application came through the consumer of a run() that  *)
(* is polling or has returned 0.                                           *)
DeliveredByPolling(p) ==
  /\ runs[p] = 0 => out = NoRecord
  /\ runs[p] = 1 /\ out # NoRecord => code[p] = 0 \/ InLoop(p)

DInv == \A p \in Procs : DeliveredByPolling(p)

(* Steps of the process that deliver nothing.                              *)
LEMMA MonitorStepKeepsDInv ==
  ASSUME IInv, DInv, NEW p \in Procs, out' = out,
         SetUpStep(p) \/ PollStep(p) \/ Interrupted(p)
  PROVE  DInv'
<1> USE DEF TypeOK, Goto, Return, SetUpFails, NewConsumer, members, handles
<1>1. TypeOK /\ Local(p) /\ DeliveredByPolling(p)
  BY DEF IInv, DInv
<1>2. CASE CallRun(p)
  <2>1. runs'[p] = runs[p] + 1
    BY <1>1, <1>2 DEF CallRun
  <2> QED
    BY <1>1, <1>2, <2>1, OneProcessAssumption DEF DInv, DeliveredByPolling
<1>3. CASE \/ ResolveInterfaceIndex(p) \/ LoadBpfObject(p) \/ FindBpfProgramAndMap(p)
           \/ AttachXdpProgram(p) \/ OpenRingBuffer(p)
  <2>1. runs' = runs /\ InRun(p) /\ ~InLoop(p)
    BY <1>1, <1>3 DEF ResolveInterfaceIndex, LoadBpfObject, FindBpfProgramAndMap,
         AttachXdpProgram, OpenRingBuffer, Local, Progress, SetUp, InLoop, Waiting
  <2> QED
    BY <1>1, <2>1, OneProcessAssumption DEF DInv, DeliveredByPolling, InRun
<1>4. CASE CheckStopRequested(p) \/ PollStep(p) \/ Interrupted(p)
  <2>1. runs' = runs
    BY <1>4 DEF CheckStopRequested, PollStep, FallAsleep, WaitReady, WaitTimesOut, DrainEnds,
                PollReturns, Interrupted, HandleInterruptSignal, WaitFails
  <2>2. code[p] = 0 => code'[p] = 0
    BY <1>1, <1>4 DEF CheckStopRequested, PollStep, FallAsleep, WaitReady, WaitTimesOut,
                DrainEnds, PollReturns, Interrupted, HandleInterruptSignal, WaitFails,
                PollFails, InRun
  <2>3. InLoop(p) => code'[p] = 0 \/ InLoop(p)'
    <3> SUFFICES ASSUME InLoop(p) PROVE code'[p] = 0 \/ InLoop(p)'
      OBVIOUS
    <3>1. InRun(p) /\ pc[p] \in {"check"} \cup Waiting
      BY <1>1 DEF Local, Progress, InLoop
    <3>2. CASE CheckStopRequested(p)
      BY <1>1, <3>1, <3>2 DEF CheckStopRequested, InLoop, InRun, Waiting
    <3>3. CASE PollStep(p)
      BY <1>1, <3>1, <3>3 DEF PollStep, FallAsleep, WaitReady, WaitTimesOut,
         DrainEnds, PollReturns, InLoop, InRun, Waiting
    <3>4. CASE HandleInterruptSignal(p) \/ WaitFails(p)
      BY <1>1, <3>1, <3>4 DEF HandleInterruptSignal, WaitFails, PollFails,
         InLoop, InRun, Waiting
    <3> QED
      BY <1>4, <3>2, <3>3, <3>4 DEF Interrupted
  <2> QED
    BY <1>1, <2>1, <2>2, <2>3, OneProcessAssumption DEF DInv, DeliveredByPolling
<1>5. CASE PollRingBufferOnce(p) \/ Destroy(p) \/ DestructorStep(p)
  <2>1. runs' = runs /\ code' = code /\ ~InLoop(p)
    BY <1>1, <1>5 DEF PollRingBufferOnce, Destroy, DestructorStep, DetachXdpProgram,
                CloseRingBuffer, CloseBpfObject, Local, Settled, Progress, InLoop, Waiting
  <2> QED
    BY <1>1, <2>1, OneProcessAssumption DEF DInv, DeliveredByPolling
<1> QED
  BY <1>2, <1>3, <1>4, <1>5 DEF SetUpStep

LEMMA SystemKeepsDInv == IInv /\ DInv /\ [SystemNext]_system => DInv'
<1> SUFFICES ASSUME IInv, DInv, [SystemNext]_system PROVE DInv'
  OBVIOUS
<1>1. CASE UNCHANGED <<monitor, out>>
  BY <1>1 DEF monitor, vars, process, members, DInv, DeliveredByPolling, InLoop, InRun
<1>2. ASSUME NEW p \in Procs, SampleHandled(p) PROVE DInv'
  <2>1. UNCHANGED <<pc, runs, code>> /\ pc[p] = "drain"
    BY <1>2 DEF SampleHandled, monitor, vars, process, members
  <2>2. ring[p] # 0 /\ ring[p] <= runs[p] /\ ring[p] \in Nat /\ runs[p] \in Nat
        /\ (~InRun(p) => (code[p] = 0 <=> ring[p] = runs[p]))
    BY <2>1 DEF IInv, TypeOK, Local, Progress, Settled, Waiting
  <2>3. runs[p] # 0 /\ (runs[p] = 1 => code[p] = 0 \/ InLoop(p))
    BY <2>1, <2>2 DEF InLoop, Waiting
  <2> QED
    BY <2>1, <2>3, OneProcessAssumption DEF DInv, DeliveredByPolling, InLoop, InRun
<1>3. ASSUME NEW p \in Procs, SetUpStep(p) \/ PollStep(p) \/ Interrupted(p) PROVE DInv'
  <2>1. out' = out
    BY <1>3 DEF SetUpStep, PollStep, Interrupted, traffic
  <2> QED
    BY <1>3, <2>1, MonitorStepKeepsDInv
<1>4. RecordSubmitted \/ (\E f \in Frames : FrameArrives(f)) \/ UNCHANGED system
        => UNCHANGED <<monitor, out>>
  BY DEF RecordSubmitted, FrameArrives, system, traffic,
         Channel!SomeSubmit, Channel!Submit, Channel!Reserve
<1> QED
  BY <1>1, <1>2, <1>3, <1>4 DEF SystemNext, ProcessStep

(* When the first run() fails nothing has reached on_packet_arrived, and   *)
(* nothing does in the destructor.                                         *)
THEOREM NothingFromFailedRun == SystemSpec => []FailedRunDeliveredNothing
<1>1. SystemInit => DInv
  BY DEF SystemInit, Init, Channel!Init, DInv, DeliveredByPolling
<1>2. IInv /\ DInv => FailedRunDeliveredNothing
  BY DEF IInv, Local, Progress, DInv, DeliveredByPolling,
         FailedRunDeliveredNothing, InLoop, InRun
<1>3. SystemSpec => []IInv
  BY SystemImplementsMonitor, Invariance, PTL
<1> QED
  BY <1>1, <1>2, <1>3, SystemKeepsDInv, PTL DEF SystemSpec
=============================================================================
