-------------------------- MODULE XdpMonitor_proofs -------------------------
(* For every number of processes, runs and restarts, and whatever fails:   *)
(* the safety of the monitor's lifecycle.                                  *)
EXTENDS XdpMonitor, TLAPS

-----------------------------------------------------------------------------
(* The inductive invariant.                                                *)

InLoop(p) == pc[p] = "check" \/ (pc[p] \in Waiting /\ InRun(p))

(* How far a run() has come is what its members show.                      *)
Progress(p) ==
  /\ pc[p] \in SetUp \cup {"check"} => InRun(p) /\ runs[p] >= 1
  /\ pc[p] \in {"load", "find", "attach", "open"} \/ InLoop(p) => ifindex[p] = 1
  /\ pc[p] \in {"find", "attach", "open"} \/ InLoop(p) => obj[p] = runs[p]
  /\ pc[p] \in {"attach", "open"} \/ InLoop(p) => fd[p] = runs[p]
  /\ pc[p] \in SetUp => ring[p] < runs[p]
  /\ InLoop(p) => ring[p] = runs[p]
  /\ pc[p] \in Waiting => ring[p] # 0

(* What holds between two calls, and of a monitor that was never run.      *)
Settled(p) ==
  /\ ring[p] <= runs[p]
  /\ runs[p] = 0 => obj[p] = 0 /\ fd[p] = -1 /\ ifindex[p] = -1 /\ code[p] = -1
  /\ pc[p] = "idle" /\ runs[p] > 0 => ~InRun(p)
  /\ pc[p] \in {"idle"} \cup Waiting /\ ~InRun(p) => (code[p] = 0 <=> ring[p] = runs[p])
  /\ pc[p] \in {"idle"} \cup Waiting /\ code[p] = 0 =>
       ifindex[p] = 1 /\ ring[p] # 0 /\ fd[p] = ring[p] /\ obj[p] = ring[p]
  /\ fd[p] # -1 => ifindex[p] # -1

(* The destructor works through the members one by one.                    *)
Teardown(p) ==
  /\ pc[p] \in {"free", "close", "exited"} => fd[p] = -1
  /\ pc[p] \in {"close", "exited"} => ring[p] = 0
  /\ pc[p] = "exited" => obj[p] = 0

(* What the current run() opened is what the members name.                 *)
Owned(p) ==
  /\ objects[p] \cup rings[p] \subseteq 1..runs[p]
  /\ runs[p] \in objects[p] => obj[p] = runs[p]
  /\ runs[p] \in rings[p] => ring[p] = runs[p]
  /\ pc[p] \in {"resolve", "load"} => runs[p] \notin objects[p]

Local(p) == Progress(p) /\ Settled(p) /\ Teardown(p) /\ Owned(p) /\ ValidHandles(p)

(* While the process that attached a program in its first run lives, its   *)
(* destructor will detach it.                                              *)
WillDetach(p) ==
  Attached(p) /\ runs[p] <= 1 /\ ~MayFail("detach") =>
    \/ pc[p] = "killed"
    \/ /\ pc[p] \in {"open", "check", "idle", "detach"} \cup Waiting
       /\ runs[p] = 1 /\ fd[p] = 1 /\ ifindex[p] = 1

(* No program in the slot is of a life to come.                            *)
SlotIsPast == slot \in Programs => slot.life <= life[slot.proc]

(* Without the help of others a monitor opens one consumer at most.        *)
OneConsumer(p) == rings[p] \subseteq {ring[p]} \/ OthersMayHaveDetached(p)

IInv ==
  /\ TypeOK
  /\ \A p \in Procs : Local(p)
  /\ \A p \in Procs : WillDetach(p)
  /\ \A p \in Procs : OneConsumer(p)
  /\ SlotIsPast
  /\ ListensToOwnProgram

-----------------------------------------------------------------------------
LEMMA InitIInv == Init => IInv
<1> SUFFICES ASSUME Init PROVE IInv
  OBVIOUS
<1>1. TypeOK
  BY BoundsAssumption DEF Init, TypeOK, Labels
<1>2. ASSUME NEW p \in Procs PROVE Local(p)
  <2>1. Progress(p) /\ Settled(p) /\ Teardown(p)
    BY DEF Init, Progress, Settled, Teardown, SetUp, InLoop, InRun, Waiting
  <2>2. Owned(p) /\ ValidHandles(p)
    BY DEF Init, Owned, ValidHandles, Waiting
  <2> QED
    BY <2>1, <2>2 DEF Local
<1>3. slot \notin Programs
  BY SlotAssumption DEF Init
<1>4. SlotIsPast /\ \A p \in Procs : WillDetach(p)
  BY <1>3 DEF SlotIsPast, WillDetach, Attached
<1>5. ListensToOwnProgram /\ \A p \in Procs : OneConsumer(p)
  BY DEF Init, ListensToOwnProgram, Listening, OneConsumer
<1> QED
  BY <1>1, <1>2, <1>4, <1>5 DEF IInv

-----------------------------------------------------------------------------
(* What a step of one process leaves alone.                                *)

Undisturbed(q) ==
  /\ pc'[q] = pc[q] /\ life'[q] = life[q] /\ runs'[q] = runs[q]
  /\ ifindex'[q] = ifindex[q] /\ obj'[q] = obj[q] /\ fd'[q] = fd[q] /\ ring'[q] = ring[q]
  /\ code'[q] = code[q] /\ objects'[q] = objects[q] /\ rings'[q] = rings[q]

(* A step of p that preserves what concerns p alone.                       *)
SoundStep(p) ==
  /\ TypeOK'
  /\ env' = env
  /\ \A q \in Procs \ {p} : Undisturbed(q)
  /\ Local(p)'
  /\ MayHaveDetached(p) => MayHaveDetached(p)'

(* The consumer of p is the one it had, or the one of the run() that has   *)
(* just attached its program.                                              *)
SameConsumer(p) ==
  /\ pc'[p] = "open" => pc[p] = "open" /\ runs'[p] = runs[p]
  /\ Listening(p)' => \/ Listening(p) /\ ring'[p] = ring[p]
                      \/ pc[p] = "open" /\ ring'[p] = runs[p]
  /\ rings'[p] \subseteq {ring'[p]} \/ OthersMayHaveDetached(p)

(* ... and neither touches the slot nor brings p a foreign consumer.       *)
QuietStep(p) ==
  /\ SoundStep(p)
  /\ UNCHANGED <<slot, life>>
  /\ WillDetach(p)'
  /\ SameConsumer(p)

LEMMA OthersKeepLocal ==
  ASSUME NEW q \in Procs, Undisturbed(q), Local(q)
  PROVE  Local(q)'
<1>1. Progress(q)' /\ Settled(q)' /\ Teardown(q)'
  BY DEF Local, Undisturbed, Progress, Settled, Teardown, InLoop, InRun
<1>2. Owned(q)' /\ ValidHandles(q)'
  BY DEF Local, Undisturbed, Owned, ValidHandles, Alive
<1> QED
  BY <1>1, <1>2 DEF Local

LEMMA QuietStepKeepsIInv ==
  ASSUME IInv, NEW p \in Procs, QuietStep(p)
  PROVE  IInv'
<1>1. TypeOK' /\ \A q \in Procs : Local(q)'
  BY OthersKeepLocal DEF IInv, QuietStep, SoundStep
<1>2. SlotIsPast'
  BY DEF IInv, QuietStep, SlotIsPast
<1>3. \A q \in Procs : WillDetach(q)'
  BY DEF IInv, QuietStep, SoundStep, Undisturbed, WillDetach, Attached, MayFail
<1>4. \A q \in Procs : OthersMayHaveDetached(q) => OthersMayHaveDetached(q)'
  BY DEF QuietStep, SoundStep, Undisturbed, MayHaveDetached, OthersMayHaveDetached
<1>5. \A q \in Procs : OneConsumer(q)'
  BY <1>4 DEF IInv, QuietStep, SoundStep, Undisturbed, SameConsumer, OneConsumer
<1>6. ListensToOwnProgram'
  <2>1. slot' = slot /\ life' = life
    BY DEF QuietStep
  <2>2. \A q \in Procs \ {p} : /\ Listening(q)' => Listening(q) /\ ring'[q] = ring[q]
                               /\ pc'[q] = pc[q] /\ runs'[q] = runs[q]
    BY DEF QuietStep, SoundStep, Undisturbed, Listening
  <2>3. SameConsumer(p)
    BY DEF QuietStep
  <2> QED
    BY <1>4, <2>1, <2>2, <2>3 DEF IInv, ListensToOwnProgram, SameConsumer, ProgramOf
<1> QED
  BY <1>1, <1>2, <1>3, <1>5, <1>6 DEF IInv
-----------------------------------------------------------------------------
(* The steps of run(), the poll loop and the client leave the slot alone,  *)
(* except for attach and detach.                                           *)

USE DEF Goto, Return, SetUpFails, NewConsumer, members, handles, TypeOK, Local

LEMMA CallRunIsQuiet ==
  ASSUME IInv, NEW p \in Procs, CallRun(p)
  PROVE  QuietStep(p)
<1>1. TypeOK'
  <2>1. pc' \in [Procs -> Labels] /\ code' \in [Procs -> {-1, 0, 1}]
    BY DEF IInv, CallRun, Labels, SetUp, Waiting, Teardowns, Dead
  <2>2. runs' \in [Procs -> 0..MaxRuns]
    BY BoundsAssumption DEF IInv, CallRun
  <2> QED
    BY <2>1, <2>2 DEF IInv, CallRun
<1>2. \A q \in Procs \ {p} : Undisturbed(q)
  BY DEF IInv, Undisturbed, CallRun
<1>3. Progress(p)' /\ Settled(p)' /\ Teardown(p)'
  BY DEF IInv, CallRun,
         Progress, Settled, Teardown, SetUp, InLoop, InRun, Waiting
<1>4. Owned(p)' /\ ValidHandles(p)'
  <2>3. Owned(p)'
    BY BoundsAssumption DEF IInv, CallRun, Owned
  <2>4. ValidHandles(p)'
    BY DEF IInv, CallRun, ValidHandles, Alive, Dead, Waiting
  <2> QED
    BY <2>3, <2>4
<1>5. MayHaveDetached(p) => MayHaveDetached(p)'
  BY DEF IInv, CallRun, MayHaveDetached, Dead, Waiting
<1>6. UNCHANGED <<env, slot, life>>
  BY DEF CallRun
<1>7. WillDetach(p)'
  BY <1>6 DEF IInv, Settled, CallRun,
         WillDetach, Attached, MayFail, InRun, Waiting
<1>8. SameConsumer(p)
  BY DEF IInv, CallRun,
         SameConsumer, OneConsumer, Listening, Waiting, Dead
<1> QED
  BY <1>1, <1>2, <1>3, <1>4, <1>5, <1>6, <1>7, <1>8 DEF SoundStep, QuietStep

LEMMA ResolveIsQuiet ==
  ASSUME IInv, NEW p \in Procs, ResolveInterfaceIndex(p)
  PROVE  QuietStep(p)
<1>1. TypeOK'
  <2>1. pc' \in [Procs -> Labels] /\ code' \in [Procs -> {-1, 0, 1}]
    BY DEF IInv, ResolveInterfaceIndex, Labels, SetUp, Waiting, Teardowns, Dead
  <2>2. ifindex' \in [Procs -> {-1, 0, 1}]
    BY DEF IInv, ResolveInterfaceIndex
  <2> QED
    BY <2>1, <2>2 DEF IInv, ResolveInterfaceIndex
<1>2. \A q \in Procs \ {p} : Undisturbed(q)
  BY DEF IInv, Undisturbed, ResolveInterfaceIndex
<1>3. Progress(p)' /\ Settled(p)' /\ Teardown(p)'
  BY DEF IInv, ResolveInterfaceIndex,
         Progress, Settled, Teardown, SetUp, InLoop, InRun, Waiting
<1>4. Owned(p)' /\ ValidHandles(p)'
  BY DEF IInv, ResolveInterfaceIndex, Progress, Settled, SetUp,
         InLoop, InRun, Owned, ValidHandles, Alive, Dead, Waiting
<1>5. MayHaveDetached(p) => MayHaveDetached(p)'
  BY DEF IInv, ResolveInterfaceIndex, MayHaveDetached, Dead, Waiting
<1>6. UNCHANGED <<env, slot, life>>
  BY DEF ResolveInterfaceIndex
<1>7. WillDetach(p)'
  BY <1>6 DEF IInv, Settled, ResolveInterfaceIndex,
         WillDetach, Attached, MayFail, InRun, Waiting
<1>8. SameConsumer(p)
  BY DEF IInv, ResolveInterfaceIndex,
         SameConsumer, OneConsumer, Listening, Waiting, Dead
<1> QED
  BY <1>1, <1>2, <1>3, <1>4, <1>5, <1>6, <1>7, <1>8 DEF SoundStep, QuietStep

LEMMA LoadIsQuiet ==
  ASSUME IInv, NEW p \in Procs, LoadBpfObject(p)
  PROVE  QuietStep(p)
<1>1. TypeOK'
  <2>1. runs[p] \in 1..MaxRuns
    BY DEF IInv, Progress, LoadBpfObject, SetUp
  <2>2. pc' \in [Procs -> Labels] /\ code' \in [Procs -> {-1, 0, 1}]
    BY DEF IInv, LoadBpfObject, OpensObject, LoadIsRefused, Labels, SetUp, Waiting, Teardowns, Dead
  <2>3. obj' \in [Procs -> 0..MaxRuns]
    BY <2>1, BoundsAssumption DEF IInv, LoadBpfObject, OpensObject, LoadIsRefused
  <2>4. objects[p] \cup {runs[p]} \in SUBSET (1..MaxRuns)
    BY <2>1 DEF IInv
  <2>5. objects' \in [Procs -> SUBSET (1..MaxRuns)]
    BY <2>1, <2>4 DEF IInv, LoadBpfObject, OpensObject, LoadIsRefused
  <2> QED
    BY <2>2, <2>3, <2>5 DEF IInv, LoadBpfObject, OpensObject, LoadIsRefused
<1>2. \A q \in Procs \ {p} : Undisturbed(q)
  BY DEF IInv, Undisturbed, LoadBpfObject, OpensObject, LoadIsRefused
<1>3. Progress(p)' /\ Settled(p)' /\ Teardown(p)'
  BY DEF IInv, LoadBpfObject, OpensObject, LoadIsRefused,
         Progress, Settled, Teardown, SetUp, InLoop, InRun, Waiting
<1>4. Owned(p)' /\ ValidHandles(p)'
  BY DEF IInv, LoadBpfObject, OpensObject, LoadIsRefused, Progress, Settled, SetUp,
         InLoop, InRun, Owned, ValidHandles, Alive, Dead, Waiting
<1>5. MayHaveDetached(p) => MayHaveDetached(p)'
  BY DEF IInv, LoadBpfObject, OpensObject, LoadIsRefused, MayHaveDetached, Dead, Waiting
<1>6. UNCHANGED <<env, slot, life>>
  BY DEF LoadBpfObject, OpensObject, LoadIsRefused
<1>7. WillDetach(p)'
  BY <1>6 DEF IInv, Settled, LoadBpfObject, OpensObject, LoadIsRefused,
         WillDetach, Attached, MayFail, InRun, Waiting
<1>8. SameConsumer(p)
  BY DEF IInv, LoadBpfObject, OpensObject, LoadIsRefused,
         SameConsumer, OneConsumer, Listening, Waiting, Dead
<1> QED
  BY <1>1, <1>2, <1>3, <1>4, <1>5, <1>6, <1>7, <1>8 DEF SoundStep, QuietStep

LEMMA FindIsQuiet ==
  ASSUME IInv, NEW p \in Procs, FindBpfProgramAndMap(p)
  PROVE  QuietStep(p)
<1>1. TypeOK'
  <2>1. runs[p] \in 1..MaxRuns
    BY DEF IInv, Progress, FindBpfProgramAndMap, SetUp
  <2>2. pc' \in [Procs -> Labels] /\ code' \in [Procs -> {-1, 0, 1}]
    BY DEF IInv, FindBpfProgramAndMap, Labels, SetUp, Waiting, Teardowns, Dead
  <2>3. fd' \in [Procs -> {-1} \cup (1..MaxRuns)]
    BY <2>1 DEF IInv, FindBpfProgramAndMap
  <2> QED
    BY <2>2, <2>3 DEF IInv, FindBpfProgramAndMap
<1>2. \A q \in Procs \ {p} : Undisturbed(q)
  BY DEF IInv, Undisturbed, FindBpfProgramAndMap
<1>3. Progress(p)' /\ Settled(p)' /\ Teardown(p)'
  BY DEF IInv, FindBpfProgramAndMap,
         Progress, Settled, Teardown, SetUp, InLoop, InRun, Waiting
<1>4. Owned(p)' /\ ValidHandles(p)'
  BY DEF IInv, FindBpfProgramAndMap, Progress, Settled, SetUp,
         InLoop, InRun, Owned, ValidHandles, Alive, Dead, Waiting
<1>5. MayHaveDetached(p) => MayHaveDetached(p)'
  BY DEF IInv, FindBpfProgramAndMap, MayHaveDetached, Dead, Waiting
<1>6. UNCHANGED <<env, slot, life>>
  BY DEF FindBpfProgramAndMap
<1>7. WillDetach(p)'
  BY <1>6 DEF IInv, Settled, FindBpfProgramAndMap,
         WillDetach, Attached, MayFail, InRun, Waiting
<1>8. SameConsumer(p)
  BY DEF IInv, FindBpfProgramAndMap,
         SameConsumer, OneConsumer, Listening, Waiting, Dead
<1> QED
  BY <1>1, <1>2, <1>3, <1>4, <1>5, <1>6, <1>7, <1>8 DEF SoundStep, QuietStep

LEMMA AttachIsSound ==
  ASSUME IInv, NEW p \in Procs, AttachXdpProgram(p)
  PROVE  SoundStep(p)
<1>1. TypeOK'
  <2>1. fd[p] \in 1..MaxRuns
    BY DEF IInv, Progress, AttachXdpProgram
  <2>2. pc' \in [Procs -> Labels] /\ code' \in [Procs -> {-1, 0, 1}]
    BY DEF IInv, AttachXdpProgram, Labels, SetUp, Waiting, Teardowns, Dead
  <2>3. slot' \in Programs \cup {NoProgram, ForeignGeneric, ForeignNative}
    BY <2>1 DEF IInv, AttachXdpProgram, Programs, ProgramOf
  <2> QED
    BY <2>2, <2>3 DEF IInv, AttachXdpProgram
<1>2. \A q \in Procs \ {p} : Undisturbed(q)
  BY DEF IInv, Undisturbed, AttachXdpProgram
<1>3. Progress(p)' /\ Settled(p)' /\ Teardown(p)'
  BY DEF IInv, AttachXdpProgram,
         Progress, Settled, Teardown, SetUp, InLoop, InRun, Waiting
<1>4. Owned(p)' /\ ValidHandles(p)'
  BY DEF IInv, AttachXdpProgram, Progress, Settled, SetUp,
         InLoop, InRun, Owned, ValidHandles, Alive, Dead, Waiting
<1>5. MayHaveDetached(p) => MayHaveDetached(p)'
  BY DEF IInv, AttachXdpProgram, MayHaveDetached, Dead, Waiting
<1> QED
  BY <1>1, <1>2, <1>3, <1>4, <1>5 DEF SoundStep, AttachXdpProgram

LEMMA OpenIsQuiet ==
  ASSUME IInv, NEW p \in Procs, OpenRingBuffer(p)
  PROVE  QuietStep(p)
<1>1. TypeOK'
  <2>1. runs[p] \in 1..MaxRuns
    BY DEF IInv, Progress, OpenRingBuffer, SetUp
  <2>2. pc' \in [Procs -> Labels] /\ code' \in [Procs -> {-1, 0, 1}]
    BY DEF IInv, OpenRingBuffer, Labels, SetUp, Waiting, Teardowns, Dead
  <2>3. ring' \in [Procs -> 0..MaxRuns]
    BY <2>1, BoundsAssumption DEF IInv, OpenRingBuffer
  <2>4. rings[p] \cup {runs[p]} \in SUBSET (1..MaxRuns)
    BY <2>1 DEF IInv
  <2>5. rings' \in [Procs -> SUBSET (1..MaxRuns)]
    BY <2>1, <2>4 DEF IInv, OpenRingBuffer
  <2> QED
    BY <2>2, <2>3, <2>5 DEF IInv, OpenRingBuffer
<1>2. \A q \in Procs \ {p} : Undisturbed(q)
  BY DEF IInv, Undisturbed, OpenRingBuffer
<1>3. Progress(p)' /\ Settled(p)' /\ Teardown(p)'
  BY DEF IInv, OpenRingBuffer,
         Progress, Settled, Teardown, SetUp, InLoop, InRun, Waiting
<1>4. Owned(p)' /\ ValidHandles(p)'
  BY DEF IInv, OpenRingBuffer, Progress, Settled, SetUp,
         InLoop, InRun, Owned, ValidHandles, Alive, Dead, Waiting
<1>5. MayHaveDetached(p) => MayHaveDetached(p)'
  BY DEF IInv, OpenRingBuffer, MayHaveDetached, Dead, Waiting
<1>6. UNCHANGED <<env, slot, life>>
  BY DEF OpenRingBuffer
<1>7. WillDetach(p)'
  BY <1>6 DEF IInv, Settled, OpenRingBuffer,
         WillDetach, Attached, MayFail, InRun, Waiting
<1>8. SameConsumer(p)
  <2>1. Progress(p) /\ life[p] \in 1..MaxLives
    BY DEF IInv
  <2>2. ring[p] # 0 => OthersMayHaveDetached(p)
    BY <2>1 DEF IInv, Progress, SetUp, OpenRingBuffer, ListensToOwnProgram, Listening,
                ProgramOf, Waiting, Dead
  <2>3. rings[p] \subseteq {0} \/ OthersMayHaveDetached(p)
    BY <2>2 DEF IInv, OneConsumer
  <2>4. rings'[p] \subseteq {ring'[p]} \/ OthersMayHaveDetached(p)
    <3>1. 0 \notin rings[p]
      BY DEF IInv
    <3> QED
      BY <2>3, <3>1 DEF IInv, OpenRingBuffer
  <2>5. pc'[p] # "open" /\ ring'[p] \in {ring[p], 0, runs[p]}
    BY DEF IInv, OpenRingBuffer
  <2> QED
    BY <2>4, <2>5 DEF IInv, OpenRingBuffer, SameConsumer, Listening, Waiting, Dead
<1> QED
  BY <1>1, <1>2, <1>3, <1>4, <1>5, <1>6, <1>7, <1>8 DEF SoundStep, QuietStep

LEMMA CheckIsQuiet ==
  ASSUME IInv, NEW p \in Procs, CheckStopRequested(p)
  PROVE  QuietStep(p)
<1>1. TypeOK'
  <2>1. pc' \in [Procs -> Labels] /\ code' \in [Procs -> {-1, 0, 1}]
    BY DEF IInv, CheckStopRequested, Labels, SetUp, Waiting, Teardowns, Dead
  <2> QED
    BY <2>1 DEF IInv, CheckStopRequested
<1>2. \A q \in Procs \ {p} : Undisturbed(q)
  BY DEF IInv, Undisturbed, CheckStopRequested
<1>3. Progress(p)' /\ Settled(p)' /\ Teardown(p)'
  BY DEF IInv, CheckStopRequested,
         Progress, Settled, Teardown, SetUp, InLoop, InRun, Waiting
<1>4. Owned(p)' /\ ValidHandles(p)'
  BY DEF IInv, CheckStopRequested, Progress, Settled, SetUp,
         InLoop, InRun, Owned, ValidHandles, Alive, Dead, Waiting
<1>5. MayHaveDetached(p) => MayHaveDetached(p)'
  BY DEF IInv, CheckStopRequested, MayHaveDetached, Dead, Waiting
<1>6. UNCHANGED <<env, slot, life>>
  BY DEF CheckStopRequested
<1>7. WillDetach(p)'
  BY <1>6 DEF IInv, Settled, CheckStopRequested,
         WillDetach, Attached, MayFail, InRun, Waiting
<1>8. SameConsumer(p)
  BY DEF IInv, CheckStopRequested,
         SameConsumer, OneConsumer, Listening, Waiting, Dead
<1> QED
  BY <1>1, <1>2, <1>3, <1>4, <1>5, <1>6, <1>7, <1>8 DEF SoundStep, QuietStep

LEMMA PollOnceIsQuiet ==
  ASSUME IInv, NEW p \in Procs, PollRingBufferOnce(p)
  PROVE  QuietStep(p)
<1>1. TypeOK'
  <2>1. pc' \in [Procs -> Labels]
    BY DEF IInv, PollRingBufferOnce, Labels, SetUp, Waiting, Teardowns, Dead
  <2> QED
    BY <2>1 DEF IInv, PollRingBufferOnce
<1>2. \A q \in Procs \ {p} : Undisturbed(q)
  BY DEF IInv, Undisturbed, PollRingBufferOnce
<1>3. Progress(p)' /\ Settled(p)' /\ Teardown(p)'
  BY DEF IInv, PollRingBufferOnce,
         Progress, Settled, Teardown, SetUp, InLoop, InRun, Waiting
<1>4. Owned(p)' /\ ValidHandles(p)'
  BY DEF IInv, PollRingBufferOnce, Progress, Settled, SetUp,
         InLoop, InRun, Owned, ValidHandles, Alive, Dead, Waiting
<1>5. MayHaveDetached(p) => MayHaveDetached(p)'
  BY DEF IInv, PollRingBufferOnce, MayHaveDetached, Dead, Waiting
<1>6. UNCHANGED <<env, slot, life>>
  BY DEF PollRingBufferOnce
<1>7. WillDetach(p)'
  BY <1>6 DEF IInv, Settled, PollRingBufferOnce,
         WillDetach, Attached, MayFail, InRun, Waiting
<1>8. SameConsumer(p)
  BY DEF IInv, PollRingBufferOnce,
         SameConsumer, OneConsumer, Listening, Waiting, Dead
<1> QED
  BY <1>1, <1>2, <1>3, <1>4, <1>5, <1>6, <1>7, <1>8 DEF SoundStep, QuietStep

LEMMA FallAsleepIsQuiet ==
  ASSUME IInv, NEW p \in Procs, FallAsleep(p)
  PROVE  QuietStep(p)
<1>1. TypeOK'
  <2>1. pc' \in [Procs -> Labels]
    BY DEF IInv, FallAsleep, Labels, SetUp, Waiting, Teardowns, Dead
  <2> QED
    BY <2>1 DEF IInv, FallAsleep
<1>2. \A q \in Procs \ {p} : Undisturbed(q)
  BY DEF IInv, Undisturbed, FallAsleep
<1>3. Progress(p)' /\ Settled(p)' /\ Teardown(p)'
  BY DEF IInv, FallAsleep,
         Progress, Settled, Teardown, SetUp, InLoop, InRun, Waiting
<1>4. Owned(p)' /\ ValidHandles(p)'
  BY DEF IInv, FallAsleep, Progress, Settled, SetUp,
         InLoop, InRun, Owned, ValidHandles, Alive, Dead, Waiting
<1>5. MayHaveDetached(p) => MayHaveDetached(p)'
  BY DEF IInv, FallAsleep, MayHaveDetached, Dead, Waiting
<1>6. UNCHANGED <<env, slot, life>>
  BY DEF FallAsleep
<1>7. WillDetach(p)'
  BY <1>6 DEF IInv, Settled, FallAsleep,
         WillDetach, Attached, MayFail, InRun, Waiting
<1>8. SameConsumer(p)
  BY DEF IInv, FallAsleep,
         SameConsumer, OneConsumer, Listening, Waiting, Dead
<1> QED
  BY <1>1, <1>2, <1>3, <1>4, <1>5, <1>6, <1>7, <1>8 DEF SoundStep, QuietStep

LEMMA WaitReadyIsQuiet ==
  ASSUME IInv, NEW p \in Procs, WaitReady(p)
  PROVE  QuietStep(p)
<1>1. TypeOK'
  <2>1. pc' \in [Procs -> Labels]
    BY DEF IInv, WaitReady, Labels, SetUp, Waiting, Teardowns, Dead
  <2> QED
    BY <2>1 DEF IInv, WaitReady
<1>2. \A q \in Procs \ {p} : Undisturbed(q)
  BY DEF IInv, Undisturbed, WaitReady
<1>3. Progress(p)' /\ Settled(p)' /\ Teardown(p)'
  BY DEF IInv, WaitReady,
         Progress, Settled, Teardown, SetUp, InLoop, InRun, Waiting
<1>4. Owned(p)' /\ ValidHandles(p)'
  BY DEF IInv, WaitReady, Progress, Settled, SetUp,
         InLoop, InRun, Owned, ValidHandles, Alive, Dead, Waiting
<1>5. MayHaveDetached(p) => MayHaveDetached(p)'
  BY DEF IInv, WaitReady, MayHaveDetached, Dead, Waiting
<1>6. UNCHANGED <<env, slot, life>>
  BY DEF WaitReady
<1>7. WillDetach(p)'
  BY <1>6 DEF IInv, Settled, WaitReady,
         WillDetach, Attached, MayFail, InRun, Waiting
<1>8. SameConsumer(p)
  BY DEF IInv, WaitReady,
         SameConsumer, OneConsumer, Listening, Waiting, Dead
<1> QED
  BY <1>1, <1>2, <1>3, <1>4, <1>5, <1>6, <1>7, <1>8 DEF SoundStep, QuietStep

LEMMA TimeoutIsQuiet ==
  ASSUME IInv, NEW p \in Procs, WaitTimesOut(p)
  PROVE  QuietStep(p)
<1>1. TypeOK'
  <2>1. pc' \in [Procs -> Labels]
    BY DEF IInv, WaitTimesOut, PollReturns, Labels, SetUp, Waiting, Teardowns, Dead
  <2> QED
    BY <2>1 DEF IInv, WaitTimesOut, PollReturns
<1>2. \A q \in Procs \ {p} : Undisturbed(q)
  BY DEF IInv, Undisturbed, WaitTimesOut, PollReturns
<1>3. Progress(p)' /\ Settled(p)' /\ Teardown(p)'
  BY DEF IInv, WaitTimesOut, PollReturns,
         Progress, Settled, Teardown, SetUp, InLoop, InRun, Waiting
<1>4. Owned(p)' /\ ValidHandles(p)'
  BY DEF IInv, WaitTimesOut, PollReturns, Progress, Settled, SetUp,
         InLoop, InRun, Owned, ValidHandles, Alive, Dead, Waiting
<1>5. MayHaveDetached(p) => MayHaveDetached(p)'
  BY DEF IInv, WaitTimesOut, PollReturns, MayHaveDetached, Dead, Waiting
<1>6. UNCHANGED <<env, slot, life>>
  BY DEF WaitTimesOut, PollReturns
<1>7. WillDetach(p)'
  BY <1>6 DEF IInv, Settled, WaitTimesOut, PollReturns,
         WillDetach, Attached, MayFail, InRun, Waiting
<1>8. SameConsumer(p)
  BY DEF IInv, WaitTimesOut, PollReturns,
         SameConsumer, OneConsumer, Listening, Waiting, Dead
<1> QED
  BY <1>1, <1>2, <1>3, <1>4, <1>5, <1>6, <1>7, <1>8 DEF SoundStep, QuietStep

LEMMA DrainEndsIsQuiet ==
  ASSUME IInv, NEW p \in Procs, DrainEnds(p)
  PROVE  QuietStep(p)
<1>1. TypeOK'
  <2>1. pc' \in [Procs -> Labels]
    BY DEF IInv, DrainEnds, PollReturns, Labels, SetUp, Waiting, Teardowns, Dead
  <2> QED
    BY <2>1 DEF IInv, DrainEnds, PollReturns
<1>2. \A q \in Procs \ {p} : Undisturbed(q)
  BY DEF IInv, Undisturbed, DrainEnds, PollReturns
<1>3. Progress(p)' /\ Settled(p)' /\ Teardown(p)'
  BY DEF IInv, DrainEnds, PollReturns,
         Progress, Settled, Teardown, SetUp, InLoop, InRun, Waiting
<1>4. Owned(p)' /\ ValidHandles(p)'
  BY DEF IInv, DrainEnds, PollReturns, Progress, Settled, SetUp,
         InLoop, InRun, Owned, ValidHandles, Alive, Dead, Waiting
<1>5. MayHaveDetached(p) => MayHaveDetached(p)'
  BY DEF IInv, DrainEnds, PollReturns, MayHaveDetached, Dead, Waiting
<1>6. UNCHANGED <<env, slot, life>>
  BY DEF DrainEnds, PollReturns
<1>7. WillDetach(p)'
  BY <1>6 DEF IInv, Settled, DrainEnds, PollReturns,
         WillDetach, Attached, MayFail, InRun, Waiting
<1>8. SameConsumer(p)
  BY DEF IInv, DrainEnds, PollReturns,
         SameConsumer, OneConsumer, Listening, Waiting, Dead
<1> QED
  BY <1>1, <1>2, <1>3, <1>4, <1>5, <1>6, <1>7, <1>8 DEF SoundStep, QuietStep

LEMMA WaitFailsIsQuiet ==
  ASSUME IInv, NEW p \in Procs, WaitFails(p)
  PROVE  QuietStep(p)
<1>1. TypeOK'
  <2>1. pc' \in [Procs -> Labels] /\ code' \in [Procs -> {-1, 0, 1}]
    BY DEF IInv, WaitFails, PollFails, Labels, SetUp, Waiting, Teardowns, Dead
  <2> QED
    BY <2>1 DEF IInv, WaitFails, PollFails
<1>2. \A q \in Procs \ {p} : Undisturbed(q)
  BY DEF IInv, Undisturbed, WaitFails, PollFails
<1>3. Progress(p)' /\ Settled(p)' /\ Teardown(p)'
  BY DEF IInv, WaitFails, PollFails,
         Progress, Settled, Teardown, SetUp, InLoop, InRun, Waiting
<1>4. Owned(p)' /\ ValidHandles(p)'
  BY DEF IInv, WaitFails, PollFails, Progress, Settled, SetUp,
         InLoop, InRun, Owned, ValidHandles, Alive, Dead, Waiting
<1>5. MayHaveDetached(p) => MayHaveDetached(p)'
  BY DEF IInv, WaitFails, PollFails, MayHaveDetached, Dead, Waiting
<1>6. UNCHANGED <<env, slot, life>>
  BY DEF WaitFails, PollFails
<1>7. WillDetach(p)'
  BY <1>6 DEF IInv, Settled, WaitFails, PollFails,
         WillDetach, Attached, MayFail, InRun, Waiting
<1>8. SameConsumer(p)
  BY DEF IInv, WaitFails, PollFails,
         SameConsumer, OneConsumer, Listening, Waiting, Dead
<1> QED
  BY <1>1, <1>2, <1>3, <1>4, <1>5, <1>6, <1>7, <1>8 DEF SoundStep, QuietStep

LEMMA SignalIsQuiet ==
  ASSUME IInv, NEW p \in Procs, HandleInterruptSignal(p)
  PROVE  QuietStep(p)
<1>1. TypeOK'
  <2>1. pc' \in [Procs -> Labels] /\ code' \in [Procs -> {-1, 0, 1}]
    BY DEF IInv, HandleInterruptSignal, PollFails, Labels, SetUp, Waiting, Teardowns, Dead
  <2>3. stop' \in [Procs -> BOOLEAN]
    BY DEF IInv, HandleInterruptSignal, PollFails
  <2> QED
    BY <2>1, <2>3 DEF IInv, HandleInterruptSignal, PollFails
<1>2. \A q \in Procs \ {p} : Undisturbed(q)
  BY DEF IInv, Undisturbed, HandleInterruptSignal, PollFails
<1>3. Progress(p)' /\ Settled(p)' /\ Teardown(p)'
  BY DEF IInv, HandleInterruptSignal, PollFails,
         Progress, Settled, Teardown, SetUp, InLoop, InRun, Waiting
<1>4. Owned(p)' /\ ValidHandles(p)'
  BY DEF IInv, HandleInterruptSignal, PollFails, Progress, Settled, SetUp,
         InLoop, InRun, Owned, ValidHandles, Alive, Dead, Waiting
<1>5. MayHaveDetached(p) => MayHaveDetached(p)'
  BY DEF IInv, HandleInterruptSignal, PollFails, MayHaveDetached, Dead, Waiting
<1>6. UNCHANGED <<env, slot, life>>
  BY DEF HandleInterruptSignal, PollFails
<1>7. WillDetach(p)'
  BY <1>6 DEF IInv, Settled, HandleInterruptSignal, PollFails,
         WillDetach, Attached, MayFail, InRun, Waiting
<1>8. SameConsumer(p)
  BY DEF IInv, HandleInterruptSignal, PollFails,
         SameConsumer, OneConsumer, Listening, Waiting, Dead
<1> QED
  BY <1>1, <1>2, <1>3, <1>4, <1>5, <1>6, <1>7, <1>8 DEF SoundStep, QuietStep

LEMMA DestroyIsQuiet ==
  ASSUME IInv, NEW p \in Procs, Destroy(p)
  PROVE  QuietStep(p)
<1>1. TypeOK'
  <2>1. pc' \in [Procs -> Labels]
    BY DEF IInv, Destroy, Labels, SetUp, Waiting, Teardowns, Dead
  <2> QED
    BY <2>1 DEF IInv, Destroy
<1>2. \A q \in Procs \ {p} : Undisturbed(q)
  BY DEF IInv, Undisturbed, Destroy
<1>3. Progress(p)' /\ Settled(p)' /\ Teardown(p)'
  BY DEF IInv, Destroy,
         Progress, Settled, Teardown, SetUp, InLoop, InRun, Waiting
<1>4. Owned(p)' /\ ValidHandles(p)'
  BY DEF IInv, Destroy, Progress, Settled, SetUp,
         InLoop, InRun, Owned, ValidHandles, Alive, Dead, Waiting
<1>5. MayHaveDetached(p) => MayHaveDetached(p)'
  BY DEF IInv, Destroy, MayHaveDetached, Dead, Waiting
<1>6. UNCHANGED <<env, slot, life>>
  BY DEF Destroy
<1>7. WillDetach(p)'
  BY <1>6 DEF IInv, Settled, Destroy,
         WillDetach, Attached, MayFail, InRun, Waiting
<1>8. SameConsumer(p)
  BY DEF IInv, Destroy,
         SameConsumer, OneConsumer, Listening, Waiting, Dead
<1> QED
  BY <1>1, <1>2, <1>3, <1>4, <1>5, <1>6, <1>7, <1>8 DEF SoundStep, QuietStep

LEMMA DetachIsSound ==
  ASSUME IInv, NEW p \in Procs, DetachXdpProgram(p)
  PROVE  SoundStep(p)
<1>1. TypeOK'
  <2>1. pc' \in [Procs -> Labels]
    BY DEF IInv, DetachXdpProgram, DetachGuard, TeardownOrder, Labels, SetUp, Waiting, Teardowns, Dead
  <2>2. fd' \in [Procs -> {-1} \cup (1..MaxRuns)]
    BY DEF IInv, DetachXdpProgram, DetachGuard, TeardownOrder
  <2>3. slot' \in Programs \cup {NoProgram, ForeignGeneric, ForeignNative}
    BY DEF IInv, DetachXdpProgram, DetachGuard, TeardownOrder, SlotAfterDetach
  <2> QED
    BY <2>1, <2>2, <2>3 DEF IInv, DetachXdpProgram, DetachGuard, TeardownOrder
<1>2. \A q \in Procs \ {p} : Undisturbed(q)
  BY DEF IInv, Undisturbed, DetachXdpProgram, DetachGuard, TeardownOrder
<1>3. Progress(p)' /\ Settled(p)' /\ Teardown(p)'
  BY DEF IInv, DetachXdpProgram, DetachGuard, TeardownOrder,
         Progress, Settled, Teardown, SetUp, InLoop, InRun, Waiting
<1>4. Owned(p)' /\ ValidHandles(p)'
  BY DEF IInv, DetachXdpProgram, DetachGuard, TeardownOrder, Progress, Settled, SetUp,
         InLoop, InRun, Owned, ValidHandles, Alive, Dead, Waiting
<1>5. MayHaveDetached(p) => MayHaveDetached(p)'
  BY DEF IInv, DetachXdpProgram, DetachGuard, TeardownOrder, MayHaveDetached, Dead, Waiting
<1> QED
  BY <1>1, <1>2, <1>3, <1>4, <1>5 DEF SoundStep, DetachXdpProgram, DetachGuard, TeardownOrder

LEMMA FreeIsQuiet ==
  ASSUME IInv, NEW p \in Procs, CloseRingBuffer(p)
  PROVE  QuietStep(p)
<1>1. TypeOK'
  <2>1. pc' \in [Procs -> Labels]
    BY DEF IInv, CloseRingBuffer, TeardownOrder, Labels, SetUp, Waiting, Teardowns, Dead
  <2>2. ring' \in [Procs -> 0..MaxRuns]
    BY BoundsAssumption DEF IInv, CloseRingBuffer, TeardownOrder
  <2>3. rings' \in [Procs -> SUBSET (1..MaxRuns)]
    BY DEF IInv, CloseRingBuffer, TeardownOrder
  <2> QED
    BY <2>1, <2>2, <2>3 DEF IInv, CloseRingBuffer, TeardownOrder
<1>2. \A q \in Procs \ {p} : Undisturbed(q)
  BY DEF IInv, Undisturbed, CloseRingBuffer, TeardownOrder
<1>3. Progress(p)' /\ Settled(p)' /\ Teardown(p)'
  BY DEF IInv, CloseRingBuffer, TeardownOrder,
         Progress, Settled, Teardown, SetUp, InLoop, InRun, Waiting
<1>4. Owned(p)' /\ ValidHandles(p)'
  BY DEF IInv, CloseRingBuffer, TeardownOrder, Progress, Settled, SetUp,
         InLoop, InRun, Owned, ValidHandles, Alive, Dead, Waiting
<1>5. MayHaveDetached(p) => MayHaveDetached(p)'
  BY DEF IInv, CloseRingBuffer, TeardownOrder, MayHaveDetached, Dead, Waiting
<1>6. UNCHANGED <<env, slot, life>>
  BY DEF CloseRingBuffer, TeardownOrder
<1>7. WillDetach(p)'
  BY <1>6 DEF IInv, Settled, CloseRingBuffer, TeardownOrder,
         WillDetach, Attached, MayFail, InRun, Waiting
<1>8. SameConsumer(p)
  BY DEF IInv, CloseRingBuffer, TeardownOrder,
         SameConsumer, OneConsumer, Listening, Waiting, Dead
<1> QED
  BY <1>1, <1>2, <1>3, <1>4, <1>5, <1>6, <1>7, <1>8 DEF SoundStep, QuietStep

LEMMA CloseIsQuiet ==
  ASSUME IInv, NEW p \in Procs, CloseBpfObject(p)
  PROVE  QuietStep(p)
<1>1. TypeOK'
  <2>1. pc' \in [Procs -> Labels]
    BY DEF IInv, CloseBpfObject, TeardownOrder, Labels, SetUp, Waiting, Teardowns, Dead
  <2>2. obj' \in [Procs -> 0..MaxRuns]
    BY BoundsAssumption DEF IInv, CloseBpfObject, TeardownOrder
  <2>3. objects' \in [Procs -> SUBSET (1..MaxRuns)]
    BY DEF IInv, CloseBpfObject, TeardownOrder
  <2> QED
    BY <2>1, <2>2, <2>3 DEF IInv, CloseBpfObject, TeardownOrder
<1>2. \A q \in Procs \ {p} : Undisturbed(q)
  BY DEF IInv, Undisturbed, CloseBpfObject, TeardownOrder
<1>3. Progress(p)' /\ Settled(p)' /\ Teardown(p)'
  BY DEF IInv, CloseBpfObject, TeardownOrder,
         Progress, Settled, Teardown, SetUp, InLoop, InRun, Waiting
<1>4. Owned(p)' /\ ValidHandles(p)'
  BY DEF IInv, CloseBpfObject, TeardownOrder, Progress, Settled, SetUp,
         InLoop, InRun, Owned, ValidHandles, Alive, Dead, Waiting
<1>5. MayHaveDetached(p) => MayHaveDetached(p)'
  BY DEF IInv, CloseBpfObject, TeardownOrder, MayHaveDetached, Dead, Waiting
<1>6. UNCHANGED <<env, slot, life>>
  BY DEF CloseBpfObject, TeardownOrder
<1>7. WillDetach(p)'
  BY <1>6 DEF IInv, Settled, CloseBpfObject, TeardownOrder,
         WillDetach, Attached, MayFail, InRun, Waiting
<1>8. SameConsumer(p)
  BY DEF IInv, CloseBpfObject, TeardownOrder,
         SameConsumer, OneConsumer, Listening, Waiting, Dead
<1> QED
  BY <1>1, <1>2, <1>3, <1>4, <1>5, <1>6, <1>7, <1>8 DEF SoundStep, QuietStep

LEMMA KillIsQuiet ==
  ASSUME IInv, NEW p \in Procs, Kill(p)
  PROVE  QuietStep(p)
<1>1. TypeOK'
  <2>1. pc' \in [Procs -> Labels]
    BY DEF IInv, Kill, Labels, SetUp, Waiting, Teardowns, Dead
  <2>2. objects' \in [Procs -> SUBSET (1..MaxRuns)]
    BY DEF IInv, Kill
  <2>3. rings' \in [Procs -> SUBSET (1..MaxRuns)]
    BY DEF IInv, Kill
  <2> QED
    BY <2>1, <2>2, <2>3 DEF IInv, Kill
<1>2. \A q \in Procs \ {p} : Undisturbed(q)
  BY DEF IInv, Undisturbed, Kill
<1>3. Progress(p)' /\ Settled(p)' /\ Teardown(p)'
  BY DEF IInv, Kill,
         Progress, Settled, Teardown, SetUp, InLoop, InRun, Waiting
<1>4. Owned(p)' /\ ValidHandles(p)'
  BY DEF IInv, Kill, Progress, Settled, SetUp,
         InLoop, InRun, Owned, ValidHandles, Alive, Dead, Waiting
<1>5. MayHaveDetached(p) => MayHaveDetached(p)'
  BY DEF IInv, Kill, MayHaveDetached, Dead, Waiting
<1>6. UNCHANGED <<env, slot, life>>
  BY DEF Kill
<1>7. WillDetach(p)'
  BY <1>6 DEF IInv, Settled, Kill,
         WillDetach, Attached, MayFail, InRun, Waiting
<1>8. SameConsumer(p)
  BY DEF IInv, Kill,
         SameConsumer, OneConsumer, Listening, Waiting, Dead
<1> QED
  BY <1>1, <1>2, <1>3, <1>4, <1>5, <1>6, <1>7, <1>8 DEF SoundStep, QuietStep

LEMMA StartIsSound ==
  ASSUME IInv, NEW p \in Procs, Start(p)
  PROVE  SoundStep(p)
<1>1. TypeOK'
  <2>1. pc' \in [Procs -> Labels] /\ code' \in [Procs -> {-1, 0, 1}]
    BY DEF IInv, Start, Labels, SetUp, Waiting, Teardowns, Dead
  <2>2. life' \in [Procs -> 1..MaxLives]
    BY BoundsAssumption DEF IInv, Start
  <2>3. runs' \in [Procs -> 0..MaxRuns]
    BY BoundsAssumption DEF IInv, Start
  <2>4. ifindex' \in [Procs -> {-1, 0, 1}]
    BY DEF IInv, Start
  <2>5. obj' \in [Procs -> 0..MaxRuns]
    BY BoundsAssumption DEF IInv, Start
  <2>6. fd' \in [Procs -> {-1} \cup (1..MaxRuns)]
    BY DEF IInv, Start
  <2>7. ring' \in [Procs -> 0..MaxRuns]
    BY BoundsAssumption DEF IInv, Start
  <2>8. stop' \in [Procs -> BOOLEAN]
    BY DEF IInv, Start
  <2>10. objects' \in [Procs -> SUBSET (1..MaxRuns)]
    BY DEF IInv, Start
  <2>11. rings' \in [Procs -> SUBSET (1..MaxRuns)]
    BY DEF IInv, Start
  <2> QED
    BY <2>1, <2>2, <2>3, <2>4, <2>5, <2>6, <2>7, <2>8, <2>10, <2>11 DEF IInv, Start
<1>2. \A q \in Procs \ {p} : Undisturbed(q)
  BY DEF IInv, Undisturbed, Start
<1>3. Progress(p)' /\ Settled(p)' /\ Teardown(p)'
  BY DEF IInv, Start,
         Progress, Settled, Teardown, SetUp, InLoop, InRun, Waiting
<1>4. Owned(p)' /\ ValidHandles(p)'
  BY DEF IInv, Start, Progress, Settled, SetUp,
         InLoop, InRun, Owned, ValidHandles, Alive, Dead, Waiting
<1>5. MayHaveDetached(p) => MayHaveDetached(p)'
  BY DEF IInv, Start, MayHaveDetached, Dead, Waiting
<1> QED
  BY <1>1, <1>2, <1>3, <1>4, <1>5 DEF SoundStep, Start

HIDE DEF Goto, Return, SetUpFails, NewConsumer, members, handles, TypeOK, Local

-----------------------------------------------------------------------------
(* Attach, detach, a new start and the other tools concern the slot, or    *)
(* the life to which the program in it belongs.                            *)

LEMMA SoundStepKeepsOthers ==
  ASSUME IInv, NEW p \in Procs, SoundStep(p)
  PROVE  /\ TypeOK'
         /\ \A q \in Procs : Local(q)'
         /\ \A q \in Procs : MayHaveDetached(q) => MayHaveDetached(q)'
         /\ \A q \in Procs : OthersMayHaveDetached(q) => OthersMayHaveDetached(q)'
         /\ \A q \in Procs \ {p} : OneConsumer(q)'
<1>1. \A q \in Procs : Local(q)'
  BY OthersKeepLocal DEF IInv, SoundStep
<1>2. \A q \in Procs : MayHaveDetached(q) => MayHaveDetached(q)'
  BY DEF SoundStep, Undisturbed, MayHaveDetached
<1>3. \A q \in Procs : OthersMayHaveDetached(q) => OthersMayHaveDetached(q)'
  BY <1>2 DEF OthersMayHaveDetached
<1>4. \A q \in Procs \ {p} : OneConsumer(q)'
  BY <1>3 DEF IInv, OneConsumer, SoundStep, Undisturbed
<1> QED
  BY <1>1, <1>2, <1>3, <1>4 DEF SoundStep

LEMMA AttachKeepsIInv ==
  ASSUME IInv, NEW p \in Procs, AttachXdpProgram(p)
  PROVE  IInv'
<1>1. SoundStep(p)
  BY AttachIsSound
<1>2. life' = life /\ pc[p] = "attach" /\ runs' = runs
  BY DEF AttachXdpProgram, members
<1>3. CASE SlotAccepts /\ slot' = ProgramOf(p, fd[p]) /\ Goto(p, "open") /\ UNCHANGED code
  <2>1. pc'[p] = "open"
    BY <1>3 DEF IInv, TypeOK, Goto, Labels
  <2>2. slot' \in Programs /\ slot'.proc = p /\ slot'.life = life'[p]
    BY <1>2, <1>3 DEF IInv, TypeOK, Local, Progress, Programs, ProgramOf
  <2>3. slot \notin Programs
    BY <1>3, SlotAssumption DEF SlotAccepts
  <2>4. SlotIsPast'
    BY <1>2, <2>2 DEF IInv, TypeOK, SlotIsPast
  <2>5. WillDetach(p)'
    <3>1. Progress(p)' /\ TypeOK'
      BY <1>1, SoundStepKeepsOthers DEF Local
    <3> QED
      BY <2>1, <3>1 DEF WillDetach, Progress, TypeOK
  <2>6. \A q \in Procs \ {p} : WillDetach(q)'
    BY <2>2 DEF WillDetach, Attached
  <2>7. OneConsumer(p)'
    BY <1>1, <1>2, SoundStepKeepsOthers
    DEF IInv, OneConsumer, AttachXdpProgram, members, handles
  <2>8. ListensToOwnProgram'
    <3>1. \A q \in Procs : Listening(q) => OthersMayHaveDetached(q)
      <4>1. \A q \in Procs : Listening(q) => ProgramOf(q, ring[q]) \in Programs
        BY DEF IInv, TypeOK, Listening, ProgramOf, Programs
      <4> QED
        BY <2>3, <4>1 DEF IInv, ListensToOwnProgram
    <3>2. \A q \in Procs : pc[q] = "open" => OthersMayHaveDetached(q)
      <4>1. \A q \in Procs : pc[q] = "open" => ProgramOf(q, runs[q]) \in Programs
        BY DEF IInv, TypeOK, Local, Progress, SetUp, ProgramOf, Programs
      <4> QED
        BY <2>3, <4>1 DEF IInv, ListensToOwnProgram
    <3>3. \A q \in Procs : /\ Listening(q)' => Listening(q)
                           /\ q # p => pc'[q] = pc[q]
      BY <1>1, <1>2, <2>1 DEF SoundStep, Undisturbed, Listening, AttachXdpProgram, members, Dead
    <3>4. slot' = ProgramOf(p, runs[p])'
      BY <1>2, <1>3 DEF IInv, Local, Progress, ProgramOf
    <3>5. \A q \in Procs : OthersMayHaveDetached(q) => OthersMayHaveDetached(q)'
      BY <1>1, SoundStepKeepsOthers
    <3>6. \A q \in Procs : Listening(q)' => OthersMayHaveDetached(q)'
      BY <3>1, <3>3, <3>5
    <3>7. \A q \in Procs \ {p} : pc'[q] = "open" => OthersMayHaveDetached(q)'
      BY <3>2, <3>3, <3>5
    <3> QED
      BY <3>4, <3>6, <3>7 DEF ListensToOwnProgram
  <2> QED
    BY <1>1, <2>4, <2>5, <2>6, <2>7, <2>8, SoundStepKeepsOthers DEF IInv
<1>4. CASE Return(p, 1) /\ UNCHANGED slot
  <2>1. ~(Attached(p) /\ runs[p] <= 1 /\ ~MayFail("detach"))
    BY <1>2 DEF IInv, WillDetach, Waiting
  <2>2. WillDetach(p)'
    BY <1>1, <1>2, <1>4, <2>1 DEF WillDetach, Attached, MayFail, SoundStep
  <2>3. SameConsumer(p)
    <3>1. pc'[p] = "idle" /\ ring' = ring /\ rings' = rings
      BY <1>4 DEF IInv, TypeOK, Return, SetUpFails, Goto, AttachXdpProgram, members, handles
    <3> QED
      BY <1>2, <3>1 DEF IInv, SameConsumer, OneConsumer, Listening, Dead
  <2> QED
    BY <1>1, <1>2, <1>4, <2>2, <2>3, QuietStepKeepsIInv DEF QuietStep
<1> QED
  BY <1>3, <1>4 DEF AttachXdpProgram, SetUpFails

LEMMA DetachKeepsIInv ==
  ASSUME IInv, NEW p \in Procs, DetachXdpProgram(p)
  PROVE  IInv'
<1>1. SoundStep(p)
  BY DetachIsSound
<1>2. life' = life /\ runs' = runs /\ pc'[p] = "free"
  BY DEF IInv, TypeOK, DetachXdpProgram, Goto, TeardownOrder
<1>3. slot' = slot \/ slot' = NoProgram
  BY DEF DetachXdpProgram, SlotAfterDetach
<1>4. NoProgram \notin Programs
  BY SlotAssumption
<1>5. SlotIsPast'
  BY <1>2, <1>3, <1>4 DEF IInv, SlotIsPast
<1>6. WillDetach(p)'
  <2>1. SUFFICES ASSUME Attached(p)', runs[p] <= 1, ~MayFail("detach")
                 PROVE  FALSE
    BY <1>1, <1>2 DEF WillDetach, MayFail, SoundStep
  <2>2. slot' = slot /\ Attached(p)
    BY <1>2, <1>3, <1>4, <2>1 DEF Attached
  <2>3. fd[p] = 1 /\ ifindex[p] = 1
    BY <2>1, <2>2 DEF IInv, WillDetach, DetachXdpProgram
  <2>4. slot' = NoProgram
    BY <2>1, <2>2, <2>3, SlotAssumption
    DEF DetachXdpProgram, DetachGuard, SlotAfterDetach, Attached
  <2> QED
    BY <1>4, <2>2, <2>4 DEF Attached
<1>7. \A q \in Procs \ {p} : WillDetach(q)'
  BY <1>1, <1>2, <1>3, <1>4
  DEF IInv, WillDetach, Attached, MayFail, SoundStep, Undisturbed
<1>8. ListensToOwnProgram'
  BY <1>2 DEF ListensToOwnProgram, Listening, OthersMayHaveDetached, MayHaveDetached
<1>9. OneConsumer(p)'
  BY <1>1, SoundStepKeepsOthers DEF IInv, OneConsumer, DetachXdpProgram, handles
<1> QED
  BY <1>1, <1>5, <1>6, <1>7, <1>8, <1>9, SoundStepKeepsOthers DEF IInv

LEMMA StartKeepsIInv ==
  ASSUME IInv, NEW p \in Procs, Start(p)
  PROVE  IInv'
<1>1. SoundStep(p)
  BY StartIsSound
<1>2. life'[p] = life[p] + 1 /\ \A q \in Procs \ {p} : life'[q] = life[q]
  BY DEF IInv, TypeOK, Start
<1>3. slot' = slot /\ pc'[p] = "idle" /\ life[p] \in 1..MaxLives
  BY DEF IInv, TypeOK, Start, Goto
<1>4. SlotIsPast'
  BY <1>2, <1>3 DEF IInv, TypeOK, SlotIsPast, Programs
<1>5. WillDetach(p)'
  BY <1>2, <1>3 DEF IInv, TypeOK, SlotIsPast, Programs, WillDetach, Attached
<1>6. \A q \in Procs \ {p} : WillDetach(q)'
  BY <1>1, <1>3 DEF IInv, WillDetach, Attached, MayFail, SoundStep, Undisturbed
<1>7. ListensToOwnProgram'
  <2>1. ring'[p] = 0 /\ MayHaveDetached(p)'
    BY <1>2, <1>3, BoundsAssumption DEF IInv, TypeOK, Start, MayHaveDetached
  <2> QED
    BY <1>3, <2>1 DEF ListensToOwnProgram, Listening, OthersMayHaveDetached
<1>8. OneConsumer(p)'
  BY DEF IInv, TypeOK, Start, OneConsumer
<1> QED
  BY <1>1, <1>4, <1>5, <1>6, <1>7, <1>8, SoundStepKeepsOthers DEF IInv

(* Every process keeps its state and no program of ours enters the slot.   *)
LEMMA ForeignStepKeepsIInv ==
  ASSUME IInv, UNCHANGED <<env, process>>,
         slot' \in {slot, NoProgram, ForeignGeneric, ForeignNative},
         slot' # slot => slot \notin Programs
  PROVE  IInv'
<1>1. TypeOK'
  BY DEF IInv, TypeOK, process, members, handles
<1>2. \A q \in Procs : Undisturbed(q)
  BY DEF Undisturbed, process, members, handles
<1>3. \A q \in Procs : Local(q)'
  BY <1>2, OthersKeepLocal DEF IInv
<1>4. life' = life /\ env' = env
  BY DEF process
<1>5. slot' = slot \/ (slot \notin Programs /\ slot' \notin Programs)
  BY SlotAssumption
<1>6. \A q \in Procs : Attached(q)' <=> Attached(q)
  BY <1>4, <1>5 DEF Attached
<1>7. SlotIsPast'
  BY <1>4, <1>5 DEF IInv, SlotIsPast
<1>8. \A q \in Procs : WillDetach(q)'
  BY <1>2, <1>4, <1>6 DEF IInv, WillDetach, MayFail, Undisturbed
<1>9. \A q \in Procs : OthersMayHaveDetached(q)' <=> OthersMayHaveDetached(q)
  BY <1>2 DEF Undisturbed, MayHaveDetached, OthersMayHaveDetached
<1>10. \A q \in Procs : OneConsumer(q)'
  BY <1>2, <1>9 DEF IInv, OneConsumer, Undisturbed
<1>11. ListensToOwnProgram'
  <2>1. \A q \in Procs : Listening(q) => ProgramOf(q, ring[q]) \in Programs
    BY DEF IInv, TypeOK, Listening, ProgramOf, Programs
  <2>2. \A q \in Procs : pc[q] = "open" => ProgramOf(q, runs[q]) \in Programs
    BY DEF IInv, TypeOK, Local, Progress, SetUp, ProgramOf, Programs
  <2>3. \A q \in Procs : /\ Listening(q)' <=> Listening(q)
                         /\ pc'[q] = pc[q] /\ ring'[q] = ring[q] /\ runs'[q] = runs[q]
    BY <1>2 DEF Undisturbed, Listening
  <2> QED
    BY <1>4, <1>5, <1>9, <2>1, <2>2, <2>3 DEF IInv, ListensToOwnProgram, ProgramOf
<1> QED
  BY <1>1, <1>3, <1>7, <1>8, <1>10, <1>11 DEF IInv

-----------------------------------------------------------------------------
LEMMA NextIInv == IInv /\ [Next]_vars => IInv'
<1> SUFFICES ASSUME IInv, [Next]_vars PROVE IInv'
  OBVIOUS
<1>1. ASSUME NEW p \in Procs, RunStep(p) PROVE IInv'
  <2>1. AttachXdpProgram(p) \/ QuietStep(p)
    BY <1>1, ResolveIsQuiet, LoadIsQuiet, FindIsQuiet, OpenIsQuiet, CheckIsQuiet,
       FallAsleepIsQuiet, WaitReadyIsQuiet, TimeoutIsQuiet, DrainEndsIsQuiet
    DEF RunStep
  <2> QED
    BY <2>1, AttachKeepsIInv, QuietStepKeepsIInv
<1>2. ASSUME NEW p \in Procs, DestructorStep(p) PROVE IInv'
  <2>1. DetachXdpProgram(p) \/ QuietStep(p)
    BY <1>2, FreeIsQuiet, CloseIsQuiet DEF DestructorStep
  <2> QED
    BY <2>1, DetachKeepsIInv, QuietStepKeepsIInv
<1>3. ASSUME NEW p \in Procs, ClientStep(p) PROVE IInv'
  <2>1. QuietStep(p)
    BY <1>3, CallRunIsQuiet, PollOnceIsQuiet, DestroyIsQuiet DEF ClientStep
  <2> QED
    BY <2>1, QuietStepKeepsIInv
<1>4. ASSUME NEW p \in Procs, Disturbance(p) PROVE IInv'
  <2>1. Start(p) \/ QuietStep(p)
    BY <1>4, WaitFailsIsQuiet, SignalIsQuiet, KillIsQuiet DEF Disturbance
  <2> QED
    BY <2>1, StartKeepsIInv, QuietStepKeepsIInv
<1>5. CASE OtherToolAttaches
  <2>1. slot \notin Programs
    BY <1>5, SlotAssumption DEF OtherToolAttaches
  <2> QED
    BY <1>5, <2>1, ForeignStepKeepsIInv DEF OtherToolAttaches
<1>6. CASE OtherToolDetaches
  <2>1. slot \notin Programs
    BY <1>6, SlotAssumption DEF OtherToolDetaches
  <2> QED
    BY <1>6, <2>1, ForeignStepKeepsIInv DEF OtherToolDetaches
<1>7. CASE UNCHANGED vars
  BY <1>7, ForeignStepKeepsIInv DEF vars
<1> QED
  BY <1>1, <1>2, <1>3, <1>4, <1>5, <1>6, <1>7 DEF Next

-----------------------------------------------------------------------------
(* The invariant holds in every behaviour of the monitors of one interface. *)
THEOREM Invariance == Spec => []IInv
<1> QED
  BY InitIInv, NextIInv, PTL DEF Spec

(* Every variable of the lifecycle keeps its type, with any number of      *)
(* processes, runs and restarts.                                           *)
THEOREM TypeCorrect == Spec => []TypeOK
<1>1. IInv => TypeOK
  BY DEF IInv
<1> QED
  BY <1>1, Invariance, PTL

(* A process that left through the destructor of ~XdpMonitor after one     *)
(* run() has not left its program on the interface.                        *)
THEOREM StraysNever == Spec => []NoStrayProgram
<1>1. IInv => NoStrayProgram
  BY DEF IInv, WillDetach, NoStrayProgram, Waiting
<1> QED
  BY <1>1, Invariance, PTL

(* The destructor closes what the last run() opened, and a consumer leaks  *)
(* only when another monitor's destructor had emptied the slot.            *)
THEOREM LeaksAreOverwritten == Spec => []OnlyOverwrittenLeaks
<1>1. ASSUME IInv, NEW p \in Procs, pc[p] = "exited"
      PROVE  /\ objects[p] \cup rings[p] \subseteq 1..(runs[p] - 1)
             /\ rings[p] = {} \/ OthersMayHaveDetached(p)
  <2>1. Owned(p) /\ Settled(p) /\ obj[p] = 0 /\ ring[p] = 0
    BY <1>1 DEF IInv, Local, Teardown
  <2>2. objects[p] \cup rings[p] \subseteq 1..MaxRuns /\ runs[p] \in 0..MaxRuns
    BY <1>1 DEF IInv, TypeOK
  <2>3. runs[p] \notin objects[p] \cup rings[p]
    BY <2>1, <2>2, BoundsAssumption DEF Owned
  <2>4. objects[p] \cup rings[p] \subseteq 1..(runs[p] - 1)
    BY <2>1, <2>2, <2>3, BoundsAssumption DEF Owned
  <2> QED
    BY <1>1, <2>1, <2>2, <2>4 DEF IInv, OneConsumer
<1>2. IInv => OnlyOverwrittenLeaks
  BY <1>1 DEF OnlyOverwrittenLeaks
<1> QED
  BY <1>2, Invariance, PTL

(* Through every retry of run() and every step of the destructor the       *)
(* monitor has open what it can still use.                                 *)
THEOREM NoUseAfterClose == Spec => []HandlesStayValid
<1>1. IInv => HandlesStayValid
  BY DEF IInv, Local, HandlesStayValid
<1> QED
  BY <1>1, Invariance, PTL

(* A run() that polls, or that returned 0, is one whose five set-up steps  *)
(* all succeeded: no step that failed in a retry hides behind what an      *)
(* earlier run() had opened.                                               *)
THEOREM ZeroIsEarned == Spec => []NoFailureBehindZero
<1>1. ASSUME IInv, NEW p \in Procs,
             \/ pc[p] = "idle" /\ code[p] = 0
             \/ pc[p] \in {"check"} \cup Waiting /\ InRun(p)
      PROVE  /\ ifindex[p] = 1
             /\ ring[p] # 0 /\ fd[p] = ring[p] /\ obj[p] = ring[p]
  <2>1. Progress(p) /\ Settled(p)
    BY <1>1 DEF IInv, Local
  <2>2. CASE pc[p] = "idle" /\ code[p] = 0
    BY <2>1, <2>2 DEF Settled, InRun
  <2>3. CASE pc[p] \in {"check"} \cup Waiting /\ InRun(p)
    BY <2>1, <2>3 DEF Progress, InLoop, Waiting
  <2> QED
    BY <1>1, <2>2, <2>3
<1>2. IInv => NoFailureBehindZero
  BY <1>1 DEF NoFailureBehindZero
<1> QED
  BY <1>2, Invariance, PTL

(* Consumer and attached program are of the same run(), unless another     *)
(* monitor's destructor emptied the slot of the interface.                 *)
THEOREM HearsItsOwnTraffic == Spec => []ListensToOwnProgram
<1>1. IInv => ListensToOwnProgram
  BY DEF IInv
<1> QED
  BY <1>1, Invariance, PTL

-----------------------------------------------------------------------------
(* The program on the interface and the consumer.                          *)

OwnStep(p) == RunStep(p) \/ DestructorStep(p) \/ ClientStep(p) \/ Disturbance(p)

LEMMA KindsOfSteps ==
  ASSUME IInv, NEW p \in Procs, OwnStep(p)
  PROVE  /\ SoundStep(p)
         /\ \/ QuietStep(p)
            \/ AttachXdpProgram(p)
            \/ DetachXdpProgram(p)
            \/ Start(p)
<1>1. QuietStep(p) \/ AttachXdpProgram(p) \/ DetachXdpProgram(p) \/ Start(p)
  BY ResolveIsQuiet, LoadIsQuiet, FindIsQuiet, OpenIsQuiet, CheckIsQuiet,
     FallAsleepIsQuiet, WaitReadyIsQuiet, TimeoutIsQuiet, DrainEndsIsQuiet,
     FreeIsQuiet, CloseIsQuiet, CallRunIsQuiet, PollOnceIsQuiet, DestroyIsQuiet,
     WaitFailsIsQuiet, SignalIsQuiet, KillIsQuiet
  DEF OwnStep, RunStep, DestructorStep, ClientStep, Disturbance
<1> QED
  BY <1>1, AttachIsSound, DetachIsSound, StartIsSound DEF QuietStep

(* Only a call of run() begins a new one, and it begins the next.          *)
LEMMA RunsGrow ==
  ASSUME IInv, NEW p \in Procs, OwnStep(p), ~Start(p)
  PROVE  runs'[p] \in {runs[p], runs[p] + 1}
<1>1. CASE RunStep(p)
  BY <1>1 DEF RunStep, ResolveInterfaceIndex, LoadBpfObject, FindBpfProgramAndMap,
     AttachXdpProgram, OpenRingBuffer, CheckStopRequested, FallAsleep, WaitReady,
     WaitTimesOut, DrainEnds, PollReturns, members
<1>2. CASE DestructorStep(p)
  BY <1>2 DEF DestructorStep, DetachXdpProgram, CloseRingBuffer, CloseBpfObject
<1>3. CASE ClientStep(p)
  BY <1>3 DEF IInv, TypeOK, ClientStep, CallRun, PollRingBufferOnce, Destroy, members
<1>4. CASE Disturbance(p)
  BY <1>4 DEF Disturbance, WaitFails, HandleInterruptSignal, Kill, members
<1> QED
  BY <1>1, <1>2, <1>3, <1>4 DEF OwnStep

(* What is attached belongs to the run() whose consumer is being opened or *)
(* was opened last.                                                        *)
RunOfProgram(p) ==
  Attached(p) =>
    /\ runs[p] >= 1
    /\ pc[p] = "open" \/ (Listening(p) /\ ring[p] = runs[p]) => slot.run = runs[p]

RunsInv == \A p \in Procs : RunOfProgram(p)

LEMMA AttachKeepsRuns ==
  ASSUME IInv, NEW p \in Procs, RunOfProgram(p), AttachXdpProgram(p)
  PROVE  /\ RunOfProgram(p)'
         /\ \A q \in Procs \ {p} : Attached(q)' => Attached(q) /\ slot' = slot
<1>1. /\ UNCHANGED <<life, runs, ring>> /\ pc[p] = "attach"
      /\ fd[p] = runs[p] /\ ring[p] < runs[p] /\ runs[p] \in 1..MaxRuns
  BY DEF IInv, TypeOK, Local, Progress, SetUp, AttachXdpProgram, members
<1>2. CASE slot' = ProgramOf(p, fd[p])
  <2>1. slot'.proc = p /\ slot'.run = runs[p]
    BY <1>1, <1>2 DEF ProgramOf
  <2> QED
    BY <1>1, <2>1 DEF RunOfProgram, Attached
<1>3. CASE slot' = slot
  <2>1. slot # ProgramOf(p, fd[p]) => pc'[p] = "idle"
    BY <1>1, <1>3 DEF IInv, TypeOK, AttachXdpProgram, Return, SetUpFails, Goto
  <2>2. pc'[p] \in {"idle", "open"}
    BY DEF IInv, TypeOK, AttachXdpProgram, Return, SetUpFails, Goto
  <2>3. slot = ProgramOf(p, fd[p]) => slot.run = runs[p]
    BY <1>1 DEF ProgramOf
  <2> QED
    BY <1>1, <1>3, <2>1, <2>2, <2>3 DEF IInv, TypeOK, RunOfProgram, Attached, Listening
<1> QED
  BY <1>2, <1>3 DEF AttachXdpProgram

LEMMA NextKeepsRuns == IInv /\ RunsInv /\ [Next]_vars => RunsInv'
<1> SUFFICES ASSUME IInv, \A p \in Procs : RunOfProgram(p), [Next]_vars, NEW q \in Procs
             PROVE  RunOfProgram(q)'
  BY DEF RunsInv
<1>1. ASSUME NEW p \in Procs, OwnStep(p) PROVE RunOfProgram(q)'
  <2>1. SoundStep(p)
    BY <1>1, KindsOfSteps
  <2>2. CASE QuietStep(p)
    <3>1. slot' = slot /\ life' = life
      BY <2>2 DEF QuietStep
    <3>2. CASE q # p
      BY <2>1, <3>1, <3>2 DEF SoundStep, Undisturbed, RunOfProgram, Attached, Listening
    <3>3. CASE q = p /\ ~Start(p)
      <4>1. SameConsumer(p) /\ runs'[p] \in {runs[p], runs[p] + 1}
            /\ ring[p] <= runs[p] /\ runs[p] \in Nat /\ ring[p] \in Nat
        BY <1>1, <2>2, <3>3, RunsGrow DEF QuietStep, IInv, TypeOK, Local, Settled
      <4>2. Listening(p)' /\ ring'[p] = runs'[p] =>
              runs'[p] = runs[p] /\ (pc[p] = "open" \/ (Listening(p) /\ ring[p] = runs[p]))
        <5>1. CASE runs'[p] = runs[p]
          BY <4>1, <5>1 DEF SameConsumer
        <5>2. CASE runs'[p] = runs[p] + 1
          BY <4>1, <5>2 DEF SameConsumer
        <5> QED
          BY <4>1, <5>1, <5>2
      <4> QED
        BY <3>1, <3>3, <4>1, <4>2 DEF RunOfProgram, Attached, SameConsumer
    <3>4. CASE q = p /\ Start(p)
      <4>1. life'[p] = life[p] + 1 /\ life[p] \in Nat
        BY <3>4 DEF IInv, TypeOK, Start
      <4> QED
        BY <3>1, <4>1
    <3> QED
      BY <3>2, <3>3, <3>4
  <2>3. CASE AttachXdpProgram(p)
    <3>1. CASE q = p
      BY <2>3, <3>1, AttachKeepsRuns
    <3>2. CASE q # p
      <4>1. Attached(q)' => Attached(q) /\ slot' = slot
        BY <2>3, <3>2, AttachKeepsRuns
      <4> QED
        BY <2>1, <3>2, <4>1 DEF SoundStep, Undisturbed, RunOfProgram, Listening
    <3> QED
      BY <3>1, <3>2
  <2>4. CASE DetachXdpProgram(p)
    <3>1. slot' = slot \/ slot' = NoProgram
      BY <2>4 DEF DetachXdpProgram, SlotAfterDetach
    <3>2. Attached(q)' => Attached(q) /\ slot' = slot
      BY <2>4, <3>1, SlotAssumption DEF Attached, DetachXdpProgram
    <3>3. CASE q = p
      BY <2>4, <3>2, <3>3
      DEF IInv, TypeOK, DetachXdpProgram, Goto, TeardownOrder, RunOfProgram, Listening
    <3>4. CASE q # p
      BY <2>1, <3>2, <3>4 DEF SoundStep, Undisturbed, RunOfProgram, Listening
    <3> QED
      BY <3>3, <3>4
  <2>5. CASE Start(p)
    <3>1. slot' = slot /\ life'[p] = life[p] + 1
      BY <2>5 DEF IInv, TypeOK, Start
    <3>2. CASE q = p
      BY <3>1, <3>2 DEF IInv, TypeOK, SlotIsPast, Programs, RunOfProgram, Attached
    <3>3. CASE q # p
      BY <2>1, <3>1, <3>3 DEF SoundStep, Undisturbed, RunOfProgram, Attached, Listening
    <3> QED
      BY <3>2, <3>3
  <2> QED
    BY <1>1, <2>2, <2>3, <2>4, <2>5, KindsOfSteps
<1>2. CASE OtherToolAttaches \/ OtherToolDetaches \/ UNCHANGED vars
  <2>1. UNCHANGED process /\ (slot' = slot \/ slot' \in {NoProgram, ForeignGeneric, ForeignNative})
    BY <1>2 DEF OtherToolAttaches, OtherToolDetaches, vars
  <2>2. Attached(q)' => Attached(q) /\ slot' = slot
    BY <2>1, SlotAssumption DEF Attached, process
  <2> QED
    BY <2>1, <2>2 DEF process, members, RunOfProgram, Listening
<1> QED
  BY <1>1, <1>2 DEF Next, OwnStep

(* As long as a monitor's program is on the interface and run() did not    *)
(* report an error, its own consumer reads what the program captures.      *)
THEOREM NothingCapturedUnread == Spec => []CapturedForReader
<1>1. Init => RunsInv
  BY SlotAssumption DEF Init, RunsInv, RunOfProgram, Attached
<1>2. IInv /\ RunsInv => CapturedForReader
  <2> SUFFICES ASSUME IInv, NEW p \in Procs, RunOfProgram(p), Attached(p), code[p] # 1,
                      pc[p] \in {"idle", "check"} \cup Waiting
               PROVE  ring[p] = slot.run
    BY DEF CapturedForReader, RunsInv
  <2>1. Progress(p) /\ Settled(p) /\ code[p] \in {-1, 0, 1} /\ runs[p] >= 1
    BY DEF IInv, TypeOK, Local, RunOfProgram
  <2>2. ring[p] = runs[p]
    BY <2>1 DEF IInv, TypeOK, Progress, Settled, InLoop, InRun, Waiting
  <2>3. Listening(p)
    BY <2>1, <2>2 DEF IInv, TypeOK, Listening, Waiting, Dead
  <2> QED
    BY <2>2, <2>3 DEF RunOfProgram
<1> QED
  BY <1>1, <1>2, Invariance, NextKeepsRuns, PTL DEF Spec

-----------------------------------------------------------------------------
(* A stop request and the steps that are left.                             *)

(* The place of a process decides, with "idle" before and behind the run() *)
(* told apart.                                                             *)
StepsByPlace(p) ==
  /\ pc[p] \in Dead => StepsLeft(p) = 0
  /\ pc[p] = "close" => StepsLeft(p) = 1
  /\ pc[p] = "free" => StepsLeft(p) = 2
  /\ pc[p] = "detach" => StepsLeft(p) = 3
  /\ pc[p] = "idle" => StepsLeft(p) = IF runs[p] = 0 THEN 11 ELSE 4
  /\ pc[p] = "check" => StepsLeft(p) = 5
  /\ pc[p] \in {"drain", "open"} => StepsLeft(p) = 6
  /\ pc[p] \in {"wait", "attach"} => StepsLeft(p) = 7
  /\ pc[p] \in {"call", "find"} => StepsLeft(p) = 8
  /\ pc[p] = "load" => StepsLeft(p) = 9
  /\ pc[p] = "resolve" => StepsLeft(p) = 10

LEMMA StepsLeftByPlace ==
  ASSUME NEW p \in Procs
  PROVE  StepsByPlace(p) /\ StepsByPlace(p)'
<1>1. StepsByPlace(p)
  BY DEF StepsByPlace, StepsLeft, Dead
<1>2. StepsByPlace(p)'
  BY DEF StepsByPlace, StepsLeft, Dead
<1> QED
  BY <1>1, <1>2

(* A process between the call of run() and its end has a run() behind it.  *)
LEMMA RunIsCounted ==
  ASSUME IInv, NEW p \in Procs, pc[p] \in SetUp \cup {"check"} \cup Waiting
  PROVE  runs[p] # 0
<1>1. Progress(p) /\ Settled(p) /\ runs[p] \in Nat /\ ring[p] \in Nat
  BY DEF IInv, TypeOK, Local
<1> QED
  BY <1>1 DEF Progress, Settled

LEMMA StepsDecrease ==
  ASSUME IInv, IInv', NEW p \in Procs, OwnStep(p), env.client = "main",
         stop[p], stop'[p], pc'[p] # pc[p]
  PROVE  StepsLeft(p)' < StepsLeft(p)
<1> USE DEF Goto, Return, SetUpFails, NewConsumer
<1>0. pc \in [Procs -> Labels]
  BY DEF IInv, TypeOK
<1>1. CASE RunStep(p)
  <2>1. runs' = runs
    BY <1>1 DEF RunStep, ResolveInterfaceIndex, LoadBpfObject, FindBpfProgramAndMap,
       AttachXdpProgram, OpenRingBuffer, CheckStopRequested, FallAsleep, WaitReady,
       WaitTimesOut, DrainEnds, PollReturns, members
  <2>2. pc[p] \in SetUp \cup {"check"} \cup Waiting
    BY <1>1 DEF RunStep, ResolveInterfaceIndex, LoadBpfObject, FindBpfProgramAndMap,
       AttachXdpProgram, OpenRingBuffer, CheckStopRequested, FallAsleep, WaitReady,
       WaitTimesOut, DrainEnds, SetUp, Waiting
  <2>3. runs[p] # 0
    BY <2>2, RunIsCounted
  <2>4. \/ pc'[p] = "idle"
        \/ pc[p] = "resolve" /\ pc'[p] = "load"
        \/ pc[p] = "load" /\ pc'[p] = "find"
        \/ pc[p] = "find" /\ pc'[p] = "attach"
        \/ pc[p] = "attach" /\ pc'[p] = "open"
        \/ pc[p] = "open" /\ pc'[p] = "check"
        \/ pc[p] = "call" /\ pc'[p] = "wait"
        \/ pc[p] \in {"call", "wait"} /\ pc'[p] = "drain"
        \/ pc[p] \in {"wait", "drain"} /\ pc'[p] = "check"
    BY <1>0, <1>1 DEF RunStep, ResolveInterfaceIndex, LoadBpfObject, FindBpfProgramAndMap,
       AttachXdpProgram, OpenRingBuffer, CheckStopRequested, StopSeen, FallAsleep, WaitReady,
       WaitTimesOut, DrainEnds, PollReturns
  <2>5. CASE pc'[p] = "idle"
    <3>1. StepsLeft(p)' = 4
      BY <2>1, <2>3, <2>5, StepsLeftByPlace DEF StepsByPlace, Dead
    <3> QED
      BY <2>2, <3>1, StepsLeftByPlace DEF StepsByPlace, SetUp, Waiting
  <2>6. CASE pc'[p] # "idle"
    BY <2>4, <2>6, StepsLeftByPlace DEF StepsByPlace, Dead
  <2> QED
    BY <2>5, <2>6
<1>2. CASE DestructorStep(p)
  <2>1. \/ pc[p] = "detach" /\ pc'[p] = "free"
        \/ pc[p] = "free" /\ pc'[p] = "close"
        \/ pc[p] = "close" /\ pc'[p] = "exited"
    BY <1>0, <1>2 DEF DestructorStep, DetachXdpProgram, CloseRingBuffer, CloseBpfObject,
       TeardownOrder
  <2> QED
    BY <2>1, StepsLeftByPlace DEF StepsByPlace, Dead
<1>3. CASE ClientStep(p)
  <2>1. \/ pc[p] = "idle" /\ runs[p] = 0 /\ pc'[p] = "resolve"
        \/ pc[p] = "idle" /\ pc'[p] = "detach"
    BY <1>0, <1>3 DEF ClientStep, CallRun, PollRingBufferOnce, Destroy
  <2> QED
    BY <2>1, StepsLeftByPlace DEF StepsByPlace, Dead
<1>4. CASE WaitFails(p) \/ HandleInterruptSignal(p)
  <2>1. pc[p] = "wait" /\ pc'[p] = "idle" /\ runs' = runs
    BY <1>0, <1>4 DEF WaitFails, HandleInterruptSignal, PollFails, members
  <2>2. runs[p] # 0
    BY <2>1, RunIsCounted DEF Waiting
  <2>3. StepsLeft(p)' = 4
    BY <2>1, <2>2, StepsLeftByPlace DEF StepsByPlace
  <2> QED
    BY <2>1, <2>3, StepsLeftByPlace DEF StepsByPlace
<1>5. CASE Kill(p)
  <2>1. pc[p] \notin Dead /\ pc'[p] \in Dead
    BY <1>0, <1>5 DEF Kill, Dead
  <2>2. StepsLeft(p) > 0
    BY <1>0, <2>1, StepsLeftByPlace DEF StepsByPlace, Labels, SetUp, Waiting, Teardowns
  <2>3. StepsLeft(p)' = 0
    BY <2>1, StepsLeftByPlace DEF StepsByPlace
  <2> QED
    BY <2>2, <2>3
<1>6. CASE Start(p)
  BY <1>6 DEF IInv, TypeOK, Start
<1> QED
  BY <1>1, <1>2, <1>3, <1>4, <1>5, <1>6 DEF OwnStep, Disturbance

(* Once the handler has run, every step of the process brings the end of   *)
(* main() nearer, wherever in run() the signal found it and whatever fails *)
(* then: no poll begins but the one already decided on.                    *)
THEOREM ExitComesNearer == Spec => StopBringsExitNearer
<1>1. ASSUME IInv, IInv', [Next]_vars, NEW p \in Procs,
             env.client = "main", stop[p], stop'[p], pc'[p] # pc[p]
      PROVE  StepsLeft(p)' < StepsLeft(p)
  <2>1. CASE OwnStep(p)
    BY <1>1, <2>1, StepsDecrease
  <2>2. ASSUME NEW q \in Procs \ {p}, OwnStep(q) PROVE FALSE
    BY <1>1, <2>2, KindsOfSteps DEF SoundStep, Undisturbed
  <2>3. CASE OtherToolAttaches \/ OtherToolDetaches \/ UNCHANGED vars
    BY <1>1, <2>3 DEF OtherToolAttaches, OtherToolDetaches, vars, process
  <2> QED
    BY <1>1, <2>1, <2>2, <2>3 DEF Next, OwnStep
<1>2. IInv /\ IInv' /\ [Next]_vars =>
        [\A p \in Procs :
           env.client = "main" /\ stop[p] /\ stop'[p] /\ pc'[p] # pc[p] =>
             StepsLeft(p)' < StepsLeft(p)]_vars
  BY <1>1
<1> QED
  BY <1>2, Invariance, PTL DEF Spec, StopBringsExitNearer
=============================================================================
