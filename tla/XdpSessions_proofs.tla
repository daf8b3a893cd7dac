------------------------- MODULE XdpSessions_proofs -------------------------
(* The monitors of one interface, whatever fails and whoever is killed,    *)
(* implement the sessions of CaptureSessions.                              *)
EXTENDS XdpMonitor_proofs

-----------------------------------------------------------------------------
(* What a step of one process shows.                                       *)

(* The place of a process and the result of its run() decide on the phase. *)
PhaseByPlace(p) ==
  /\ pc[p] = "exited" => Phase(p) = "gone"
  /\ pc[p] = "killed" => Phase(p) = "killed"
  /\ pc[p] \in {"detach", "free", "close"} => Phase(p) = "leaving"
  /\ pc[p] \in SetUp => Phase(p) = "starting"
  /\ pc[p] \in {"idle", "check"} \cup Waiting =>
       /\ runs[p] = 0 => Phase(p) = "ready"
       /\ runs[p] # 0 /\ code[p] = -1 => Phase(p) = "polling"
       /\ runs[p] # 0 /\ code[p] = 0 => Phase(p) = "stopped"
       /\ runs[p] # 0 /\ code[p] = 1 => Phase(p) = "failed"

LEMMA PhasesByPlace ==
  ASSUME NEW p \in Procs
  PROVE  PhaseByPlace(p) /\ PhaseByPlace(p)'
<1>1. PhaseByPlace(p)
  BY DEF PhaseByPlace, Phase, Result, SetUp, Teardowns, Waiting
<1>2. PhaseByPlace(p)'
  BY DEF PhaseByPlace, Phase, Result, SetUp, Teardowns, Waiting
<1> QED
  BY <1>1, <1>2

(* The session of p changes, and no other.                                 *)
OwnSession(p) ==
  /\ phase' = [phase EXCEPT ![p] = Phase(p)']
  /\ consumers' = IF ring'[p] # 0 /\ Alive(p)' THEN consumers \cup {p} ELSE consumers \ {p}
  /\ retried' = IF runs'[p] > 1 THEN retried \cup {p} ELSE retried \ {p}
  /\ departed' = IF MayHaveDetached(p)' THEN departed \cup {p} ELSE departed \ {p}
  /\ UNCHANGED stubborn

LEMMA StepIsOwn ==
  ASSUME IInv, NEW p \in Procs, SoundStep(p)
  PROVE  OwnSession(p)
<1>1. \A q \in Procs \ {p} : Phase(q)' = Phase(q)
  BY DEF SoundStep, Undisturbed, Phase
<1>2. phase' = [phase EXCEPT ![p] = Phase(p)']
  BY <1>1 DEF phase
<1>3. \A q \in Procs \ {p} : Undisturbed(q)
  BY DEF SoundStep
<1>4. consumers' = IF ring'[p] # 0 /\ Alive(p)' THEN consumers \cup {p} ELSE consumers \ {p}
  BY <1>3 DEF Undisturbed, consumers, Alive
<1>5. retried' = IF runs'[p] > 1 THEN retried \cup {p} ELSE retried \ {p}
  BY <1>3 DEF Undisturbed, retried
<1>6. departed' = IF MayHaveDetached(p)' THEN departed \cup {p} ELSE departed \ {p}
  BY <1>3 DEF Undisturbed, departed, MayHaveDetached
<1>7. UNCHANGED stubborn
  BY DEF SoundStep, stubborn, MayFail
<1> QED
  BY <1>2, <1>4, <1>5, <1>6, <1>7 DEF OwnSession

LEMMA SameInterface ==
  ASSUME UNCHANGED <<slot, life>>
  PROVE  UNCHANGED <<holder, free>>
  BY DEF holder, free, Attached

-----------------------------------------------------------------------------
(* Steps that touch neither the slot nor what counts the runs of p.        *)

Kept(p) ==
  /\ UNCHANGED <<slot, life>>
  /\ runs'[p] = runs[p]
  /\ MayHaveDetached(p)' <=> MayHaveDetached(p)

KeepsConsumer(p) == (ring'[p] # 0 /\ Alive(p)') <=> (ring[p] # 0 /\ Alive(p))

Visible == [Sessions!Next]_(Sessions!session)

LEMMA KeptSession ==
  ASSUME IInv, NEW p \in Procs, SoundStep(p), Kept(p)
  PROVE  /\ Sessions!Become(p, Phase(p)')
         /\ UNCHANGED <<Sessions!interface, retried, departed, stubborn>>
         /\ KeepsConsumer(p) => consumers' = consumers
<1>1. OwnSession(p) /\ UNCHANGED <<holder, free>>
  BY StepIsOwn, SameInterface DEF Kept
<1>2. UNCHANGED retried
  BY <1>1 DEF OwnSession, Kept, retried
<1>3. UNCHANGED departed
  BY <1>1 DEF OwnSession, Kept, departed
<1>4. KeepsConsumer(p) => consumers' = consumers
  BY <1>1 DEF OwnSession, KeepsConsumer, consumers
<1> QED
  BY <1>1, <1>2, <1>3, <1>4 DEF OwnSession, Sessions!Become, Sessions!interface

LEMMA InvisibleStep ==
  ASSUME IInv, NEW p \in Procs, SoundStep(p), Kept(p), KeepsConsumer(p), Phase(p)' = Phase(p)
  PROVE  UNCHANGED Sessions!session
<1>1. phase' = phase
  BY KeptSession DEF Sessions!Become, phase
<1> QED
  BY <1>1, KeptSession DEF Sessions!session

(* The set-up steps go on, or run() returns 1.                             *)
LEMMA SetUpStep ==
  ASSUME IInv, NEW p \in Procs, SoundStep(p), UNCHANGED <<slot, life, runs, ring>>,
         pc[p] \in SetUp, pc'[p] \in SetUp \/ (pc'[p] = "idle" /\ code'[p] = 1)
  PROVE  Visible
<1>1. Kept(p) /\ KeepsConsumer(p)
  BY DEF Kept, KeepsConsumer, MayHaveDetached, Alive, SetUp, Dead
<1>2. Phase(p) = "starting"
  BY PhasesByPlace DEF PhaseByPlace
<1>3. CASE pc'[p] \in SetUp
  <2>1. Phase(p)' = Phase(p)
    BY <1>2, <1>3, PhasesByPlace DEF PhaseByPlace
  <2> QED
    BY <1>1, <2>1, InvisibleStep DEF Visible
<1>4. CASE pc'[p] = "idle" /\ code'[p] = 1
  <2>1. runs'[p] # 0
    BY RunIsCounted
  <2>2. Phase(p)' = "failed"
    BY <1>4, <2>1, PhasesByPlace DEF PhaseByPlace
  <2>3. Sessions!Fail(p)
    BY <1>1, <1>2, <2>2, KeptSession DEF Sessions!Fail, phase
  <2> QED
    BY <2>3 DEF Visible, Sessions!Next, Sessions!SessionStep
<1> QED
  BY <1>3, <1>4

(* The client polls, or the loop goes on or ends with 0.                   *)
Polls == {"idle", "check"} \cup Waiting

LEMMA PollStep ==
  ASSUME IInv, NEW p \in Procs, SoundStep(p), UNCHANGED <<slot, life, runs, ring>>,
         pc[p] \in Polls, pc'[p] \in Polls,
         code'[p] = code[p] \/ (runs[p] # 0 /\ code[p] = -1 /\ code'[p] = 0)
  PROVE  Visible
<1>1. Kept(p) /\ KeepsConsumer(p)
  BY DEF Kept, KeepsConsumer, MayHaveDetached, Alive, Polls, Waiting, Dead
<1>2. CASE code'[p] = code[p]
  <2>1. code[p] \in {-1, 0, 1}
    BY DEF IInv, TypeOK
  <2>2. Phase(p)' = Phase(p)
    BY <1>2, <2>1, PhasesByPlace DEF PhaseByPlace, Polls
  <2> QED
    BY <1>1, <2>2, InvisibleStep DEF Visible
<1>3. CASE runs[p] # 0 /\ code[p] = -1 /\ code'[p] = 0
  <2>1. Phase(p) = "polling" /\ Phase(p)' = "stopped"
    BY <1>3, PhasesByPlace DEF PhaseByPlace, Polls
  <2>2. Sessions!Stop(p)
    BY <1>1, <2>1, KeptSession DEF Sessions!Stop, phase
  <2> QED
    BY <2>2 DEF Visible, Sessions!Next, Sessions!SessionStep
<1> QED
  BY <1>2, <1>3

-----------------------------------------------------------------------------
(* The steps that the others see.                                          *)

LEMMA CallRunIsVisible ==
  ASSUME IInv, NEW p \in Procs, CallRun(p)
  PROVE  Sessions!Run(p)
<1>1. OwnSession(p) /\ UNCHANGED <<holder, free>>
  BY CallRunIsQuiet, StepIsOwn, SameInterface DEF QuietStep
<1>2. /\ pc[p] = "idle" /\ pc'[p] = "resolve"
      /\ runs[p] \in Nat /\ runs'[p] = runs[p] + 1 /\ ring' = ring /\ life' = life
  BY DEF IInv, TypeOK, CallRun, Goto
<1>3. Phase(p)' = "starting"
  BY <1>2, PhasesByPlace DEF PhaseByPlace, SetUp
<1>4. runs[p] = 0 => Phase(p) = "ready"
  BY <1>2, PhasesByPlace DEF PhaseByPlace
<1>5. runs[p] # 0 => Phase(p) \in {"stopped", "failed"}
  <2>1. Settled(p) /\ code[p] \in {-1, 0, 1}
    BY DEF IInv, TypeOK, Local
  <2> QED
    BY <1>2, <2>1, PhasesByPlace DEF PhaseByPlace, Settled, InRun
<1>6. UNCHANGED <<consumers, departed>>
  BY <1>1, <1>2 DEF OwnSession, consumers, departed, Alive, Dead, MayHaveDetached
<1>7. retried' = IF phase[p] = "ready" THEN retried ELSE retried \cup {p}
  <2>1. runs[p] = 0 => retried' = retried
    BY <1>1, <1>2 DEF OwnSession, retried
  <2>2. runs[p] # 0 => retried' = retried \cup {p}
    BY <1>1, <1>2 DEF OwnSession
  <2> QED
    BY <1>4, <1>5, <2>1, <2>2 DEF phase
<1>8. phase[p] \in Sessions!Resting
  BY <1>4, <1>5 DEF phase, Sessions!Resting
<1> QED
  BY <1>1, <1>3, <1>6, <1>7, <1>8
  DEF OwnSession, Sessions!Run, Sessions!Become, Sessions!interface

LEMMA AttachIsVisible ==
  ASSUME IInv, NEW p \in Procs, AttachXdpProgram(p)
  PROVE  Visible
<1>1. /\ SoundStep(p) /\ pc[p] = "attach"
      /\ UNCHANGED <<life, runs, ring>>
      /\ fd[p] = runs[p] /\ runs[p] \in 1..MaxRuns /\ life[p] \in 1..MaxLives
  BY AttachIsSound DEF IInv, TypeOK, Local, Progress, AttachXdpProgram, members
<1>2. CASE slot = NoProgram /\ slot' = ProgramOf(p, fd[p]) /\ Goto(p, "open")
  <2>1. OwnSession(p) /\ pc'[p] = "open"
    BY <1>1, <1>2, StepIsOwn DEF IInv, TypeOK, Goto
  <2>2. Phase(p) = "starting" /\ Phase(p)' = "starting"
    BY <1>1, <2>1, PhasesByPlace DEF PhaseByPlace, SetUp
  <2>3. slot' \in Programs /\ slot'.proc = p /\ slot'.life = life[p]
    BY <1>1, <1>2 DEF ProgramOf, Programs
  <2>4. holder' = {p}
    BY <1>1, <2>3 DEF holder, Attached
  <2>5. free /\ ~free'
    BY <1>2, <2>3, SlotAssumption DEF free
  <2>6. UNCHANGED <<consumers, retried, departed, stubborn>>
    BY <1>1, <2>1
    DEF OwnSession, consumers, retried, departed, Alive, Dead, MayHaveDetached
  <2>7. UNCHANGED phase
    BY <2>1, <2>2 DEF OwnSession, phase
  <2>8. phase[p] = "starting"
    BY <2>2 DEF phase
  <2>9. free' = FALSE
    BY <2>5 DEF free
  <2>10. Sessions!Attach(p)
    BY <2>4, <2>5, <2>6, <2>7, <2>8, <2>9 DEF Sessions!Attach
  <2> QED
    BY <2>10 DEF Visible, Sessions!Next, Sessions!SessionStep
<1>3. CASE slot' = slot /\ Return(p, 1)
  <2>1. pc'[p] = "idle" /\ code'[p] = 1
    BY <1>3 DEF IInv, TypeOK, Return, Goto
  <2> QED
    BY <1>1, <1>3, <2>1, SetUpStep DEF SetUp
<1> QED
  BY <1>2, <1>3 DEF AttachXdpProgram, SlotAccepts, SetUpFails

LEMMA OpenIsVisible ==
  ASSUME IInv, NEW p \in Procs, OpenRingBuffer(p)
  PROVE  Visible
<1>1. SoundStep(p) /\ UNCHANGED <<slot, life, runs>> /\ pc[p] = "open"
  BY OpenIsQuiet DEF QuietStep, OpenRingBuffer
<1>2. runs[p] \in 1..MaxRuns /\ InRun(p) /\ ring[p] < runs[p]
  BY <1>1 DEF IInv, TypeOK, Local, Progress, SetUp
<1>3. phase[p] = "starting"
  BY <1>1, PhasesByPlace DEF PhaseByPlace, SetUp, phase
<1>4. OwnSession(p)
  BY <1>1, StepIsOwn
<1>5. CASE ring' = [ring EXCEPT ![p] = runs[p]] /\ Goto(p, "check") /\ UNCHANGED code
  <2>1. pc'[p] = "check" /\ ring'[p] # 0 /\ code'[p] = -1
    BY <1>2, <1>5 DEF IInv, TypeOK, Goto, InRun
  <2>2. Kept(p)
    BY <1>1, <2>1 DEF Kept, MayHaveDetached, Dead
  <2>3. Phase(p)' = "polling"
    BY <1>1, <1>2, <2>1, PhasesByPlace DEF PhaseByPlace
  <2>4. consumers' = consumers \cup {p}
    BY <1>4, <2>1 DEF OwnSession, Alive, Dead
  <2>5. p \in holder \/ departed \ {p} # {}
    <3>1. slot = ProgramOf(p, runs[p]) => p \in holder
      BY <1>2 DEF IInv, TypeOK, holder, Attached, ProgramOf, Programs
    <3>2. OthersMayHaveDetached(p) => departed \ {p} # {}
      BY DEF OthersMayHaveDetached, departed
    <3> QED
      BY <1>1, <3>1, <3>2 DEF IInv, ListensToOwnProgram
  <2>6. Sessions!Open(p)
    BY <1>1, <1>3, <2>2, <2>3, <2>4, <2>5, KeptSession DEF Sessions!Open
  <2> QED
    BY <2>6 DEF Visible, Sessions!Next, Sessions!SessionStep
<1>6. CASE Return(p, 1) /\ ring' \in {ring, [ring EXCEPT ![p] = 0]}
  <2>1. pc'[p] = "idle" /\ code'[p] = 1
    BY <1>6 DEF IInv, TypeOK, Return, Goto
  <2>2. Kept(p)
    BY <1>1, <2>1 DEF Kept, MayHaveDetached, Dead
  <2>3. Phase(p)' = "failed"
    BY <1>1, <1>2, <2>1, PhasesByPlace DEF PhaseByPlace
  <2>4. consumers' \in {consumers, consumers \ {p}}
    BY <1>1, <1>4, <1>6, <2>1 DEF IInv, TypeOK, OwnSession, consumers, Alive, Dead
  <2>5. Sessions!Fail(p)
    BY <1>1, <1>3, <2>2, <2>3, <2>4, KeptSession DEF Sessions!Fail
  <2> QED
    BY <2>5 DEF Visible, Sessions!Next, Sessions!SessionStep
<1> QED
  BY <1>5, <1>6 DEF OpenRingBuffer, NewConsumer, SetUpFails

-----------------------------------------------------------------------------
(* The destructor.                                                         *)

LEMMA DestroyIsVisible ==
  ASSUME IInv, NEW p \in Procs, Destroy(p)
  PROVE  Sessions!Destroy(p)
<1>1. /\ SoundStep(p) /\ UNCHANGED <<slot, life, runs, ring>>
      /\ pc[p] = "idle" /\ pc'[p] = "detach"
  BY DestroyIsQuiet DEF IInv, TypeOK, QuietStep, Destroy, Goto, members
<1>2. Kept(p) /\ KeepsConsumer(p)
  BY <1>1 DEF Kept, KeepsConsumer, MayHaveDetached, Alive, Dead
<1>3. Phase(p) \in Sessions!Resting
  <2>1. Settled(p) /\ code[p] \in {-1, 0, 1} /\ runs[p] \in Nat
    BY DEF IInv, TypeOK, Local
  <2> QED
    BY <1>1, <2>1, PhasesByPlace DEF PhaseByPlace, Settled, InRun, Sessions!Resting
<1>4. Phase(p)' = "leaving"
  BY <1>1, PhasesByPlace DEF PhaseByPlace
<1> QED
  BY <1>1, <1>2, <1>3, <1>4, KeptSession DEF Sessions!Destroy, phase

LEMMA DetachIsVisible ==
  ASSUME IInv, NEW p \in Procs, DetachXdpProgram(p)
  PROVE  Sessions!Detach(p)
<1>1. /\ OwnSession(p) /\ UNCHANGED <<life, runs, ring>>
      /\ pc[p] = "detach" /\ pc'[p] = "free"
  BY DetachIsSound, StepIsOwn DEF IInv, TypeOK, DetachXdpProgram, Goto, TeardownOrder
<1>2. Phase(p) = "leaving" /\ Phase(p)' = "leaving"
  BY <1>1, PhasesByPlace DEF PhaseByPlace
<1>3. UNCHANGED phase /\ phase[p] = "leaving"
  BY <1>1, <1>2 DEF OwnSession, phase
<1>4. (holder' = {} /\ free' = TRUE) \/ UNCHANGED Sessions!interface
  <2>1. slot' = slot \/ slot' = NoProgram
    BY DEF DetachXdpProgram, SlotAfterDetach
  <2>2. CASE slot' = slot
    BY <1>1, <2>2, SameInterface DEF Sessions!interface
  <2>3. CASE slot' = NoProgram
    BY <2>3, SlotAssumption DEF holder, free, Attached
  <2> QED
    BY <2>1, <2>2, <2>3
<1>5. departed' = departed \cup {p}
  BY <1>1 DEF OwnSession, MayHaveDetached
<1>6. UNCHANGED <<consumers, retried, stubborn>>
  BY <1>1 DEF OwnSession, consumers, retried, Alive, Dead
<1> QED
  BY <1>3, <1>4, <1>5, <1>6 DEF Sessions!Detach

LEMMA FreeIsVisible ==
  ASSUME IInv, NEW p \in Procs, CloseRingBuffer(p)
  PROVE  Sessions!Free(p)
<1>1. /\ SoundStep(p) /\ UNCHANGED <<slot, life, runs>>
      /\ pc[p] = "free" /\ pc'[p] = "close" /\ ring'[p] = 0
  BY FreeIsQuiet DEF IInv, TypeOK, QuietStep, CloseRingBuffer, Goto, TeardownOrder
<1>2. Kept(p)
  BY <1>1 DEF Kept, MayHaveDetached
<1>3. Phase(p) = "leaving" /\ Phase(p)' = "leaving"
  BY <1>1, PhasesByPlace DEF PhaseByPlace
<1>4. UNCHANGED phase /\ phase[p] = "leaving"
  BY <1>1, <1>2, <1>3, KeptSession DEF Sessions!Become, phase
<1>5. consumers' = consumers \ {p}
  BY <1>1, StepIsOwn DEF OwnSession
<1> QED
  BY <1>1, <1>2, <1>4, <1>5, KeptSession DEF Sessions!Free

LEMMA CloseIsVisible ==
  ASSUME IInv, NEW p \in Procs, CloseBpfObject(p)
  PROVE  Sessions!Leave(p)
<1>1. /\ SoundStep(p) /\ UNCHANGED <<slot, life, runs, ring>>
      /\ pc[p] = "close" /\ pc'[p] = "exited"
  BY CloseIsQuiet DEF IInv, TypeOK, QuietStep, CloseBpfObject, Goto, TeardownOrder
<1>2. ring[p] = 0 /\ p \notin consumers
  BY <1>1 DEF IInv, Local, Teardown, consumers
<1>3. Kept(p) /\ KeepsConsumer(p)
  BY <1>1, <1>2 DEF Kept, KeepsConsumer, MayHaveDetached, Dead
<1>4. phase[p] = "leaving" /\ Phase(p)' = "gone"
  BY <1>1, PhasesByPlace DEF PhaseByPlace, phase
<1>5. p \notin holder \/ p \in retried \/ stubborn
  BY <1>1 DEF IInv, TypeOK, WillDetach, Waiting, holder, retried, stubborn
<1> QED
  BY <1>1, <1>2, <1>3, <1>4, <1>5, KeptSession DEF Sessions!Leave

-----------------------------------------------------------------------------
(* Death, a new start and the other tools.                                 *)

LEMMA KillIsVisible ==
  ASSUME IInv, NEW p \in Procs, Kill(p)
  PROVE  Sessions!Die(p)
<1>1. OwnSession(p) /\ UNCHANGED <<holder, free>>
  BY KillIsQuiet, StepIsOwn, SameInterface DEF QuietStep
<1>2. /\ pc[p] \in Labels \ Dead /\ pc'[p] = "killed"
      /\ runs' = runs /\ code[p] \in {-1, 0, 1}
  BY DEF IInv, TypeOK, Kill, Goto, members
<1>3. Phase(p) \notin Sessions!Dead
  BY <1>2, PhasesByPlace DEF PhaseByPlace, Labels, SetUp, Teardowns, Waiting, Dead, Sessions!Dead
<1>4. Phase(p)' = "killed"
  BY <1>2, PhasesByPlace DEF PhaseByPlace
<1>5. consumers' = consumers \ {p} /\ departed' = departed \cup {p}
  BY <1>1, <1>2 DEF OwnSession, Alive, MayHaveDetached, Dead
<1>6. UNCHANGED retried
  BY <1>1, <1>2 DEF OwnSession, retried
<1> QED
  BY <1>1, <1>3, <1>4, <1>5, <1>6
  DEF OwnSession, phase, Sessions!Die, Sessions!Become, Sessions!interface

LEMMA StartIsVisible ==
  ASSUME IInv, NEW p \in Procs, Start(p)
  PROVE  Sessions!Restart(p)
<1>1. OwnSession(p)
  BY StartIsSound, StepIsOwn
<1>2. /\ pc[p] \in Dead /\ pc'[p] = "idle" /\ runs'[p] = 0 /\ ring'[p] = 0
      /\ life' = [life EXCEPT ![p] = @ + 1] /\ life[p] \in 1..MaxLives /\ slot' = slot
  BY DEF IInv, TypeOK, Start, Goto
<1>3. phase[p] \in Sessions!Dead /\ Phase(p)' = "ready"
  BY <1>2, PhasesByPlace DEF PhaseByPlace, Dead, Sessions!Dead, phase
<1>4. holder' = holder \ {p}
  <2>1. ~Attached(p)'
    BY <1>2 DEF IInv, TypeOK, SlotIsPast, Programs, Attached
  <2>2. \A q \in Procs \ {p} : Attached(q)' <=> Attached(q)
    BY <1>2 DEF IInv, TypeOK, Attached
  <2> QED
    BY <2>1, <2>2 DEF holder
<1>5. UNCHANGED free
  BY <1>2 DEF free
<1>6. retried' = retried \ {p}
  BY <1>1, <1>2 DEF OwnSession
<1>7. UNCHANGED consumers
  BY <1>1, <1>2 DEF OwnSession, consumers, Alive
<1>8. UNCHANGED departed
  <2>1. p \in departed
    BY <1>2 DEF departed, MayHaveDetached
  <2>2. MayHaveDetached(p)'
    BY <1>2 DEF IInv, TypeOK, MayHaveDetached
  <2> QED
    BY <1>1, <2>1, <2>2 DEF OwnSession
<1> QED
  BY <1>1, <1>3, <1>4, <1>5, <1>6, <1>7, <1>8
  DEF OwnSession, Sessions!Restart, Sessions!Become

LEMMA SameProcesses ==
  ASSUME UNCHANGED <<env, process>>
  PROVE  UNCHANGED <<phase, consumers, retried, departed, stubborn>>
<1>1. UNCHANGED <<pc, life, runs, ring, code, env>>
  BY DEF process, members
<1>2. UNCHANGED <<consumers, retried, departed, stubborn>>
  BY <1>1 DEF consumers, Alive, retried, departed, MayHaveDetached, stubborn, MayFail
<1>3. UNCHANGED phase
  BY <1>1 DEF phase, Phase
<1> QED
  BY <1>2, <1>3

LEMMA ForeignIsVisible ==
  ASSUME OtherToolAttaches \/ OtherToolDetaches
  PROVE  Sessions!Stranger
<1>1. UNCHANGED <<phase, consumers, retried, departed, stubborn>>
  BY SameProcesses DEF OtherToolAttaches, OtherToolDetaches
<1>2. slot \notin Programs /\ slot' \notin Programs
  BY SlotAssumption DEF OtherToolAttaches, OtherToolDetaches
<1>3. holder = {} /\ holder' = {}
  BY <1>2 DEF holder, Attached
<1>4. (slot' = NoProgram) <=> (slot # NoProgram)
  BY SlotAssumption DEF OtherToolAttaches, OtherToolDetaches
<1>5. free' = ~free
  BY <1>4, Zenon DEF free
<1> QED
  BY <1>1, <1>3, <1>5 DEF Sessions!Stranger

-----------------------------------------------------------------------------
LEMMA OwnStepIsVisible ==
  ASSUME IInv, NEW p \in Procs, OwnStep(p)
  PROVE  Visible
<1>1. CASE \/ ResolveInterfaceIndex(p) \/ LoadBpfObject(p) \/ FindBpfProgramAndMap(p)
  <2>1. SoundStep(p)
    BY <1>1, KindsOfSteps DEF OwnStep, RunStep
  <2>2. UNCHANGED <<slot, life, runs, ring>> /\ pc[p] \in SetUp
    BY <1>1 DEF ResolveInterfaceIndex, LoadBpfObject, FindBpfProgramAndMap, SetUp
  <2>3. pc'[p] \in SetUp \/ (pc'[p] = "idle" /\ code'[p] = 1)
    BY <1>1 DEF IInv, TypeOK, ResolveInterfaceIndex, LoadBpfObject, FindBpfProgramAndMap,
       SetUp, Goto, Return, SetUpFails
  <2> QED
    BY <2>1, <2>2, <2>3, SetUpStep
<1>2. CASE \/ CheckStopRequested(p) \/ FallAsleep(p) \/ WaitReady(p) \/ WaitTimesOut(p)
           \/ DrainEnds(p) \/ PollRingBufferOnce(p) \/ WaitFails(p)
  <2>1. SoundStep(p)
    BY <1>2, KindsOfSteps DEF OwnStep, RunStep, ClientStep, Disturbance
  <2>2. UNCHANGED <<slot, life, runs, ring>> /\ pc[p] \in Polls
    BY <1>2 DEF CheckStopRequested, FallAsleep, WaitReady, WaitTimesOut, DrainEnds, PollReturns,
       PollRingBufferOnce, WaitFails, members, Polls, Waiting
  <2>3. pc'[p] \in Polls
    BY <1>2 DEF IInv, TypeOK, CheckStopRequested, FallAsleep, WaitReady, WaitTimesOut, DrainEnds,
       PollReturns, PollRingBufferOnce, WaitFails, PollFails, Goto, Return, Polls, Waiting
  <2>4. code'[p] = code[p] \/ (runs[p] # 0 /\ code[p] = -1 /\ code'[p] = 0)
    <3>1. pc[p] \in {"check"} \cup Waiting => runs[p] # 0
      BY RunIsCounted
    <3>2. pc[p] = "check" => code[p] = -1
      BY DEF IInv, Local, Progress, InRun
    <3> QED
      BY <1>2, <3>1, <3>2
      DEF IInv, TypeOK, CheckStopRequested, FallAsleep, WaitReady, WaitTimesOut, DrainEnds,
       PollReturns, PollRingBufferOnce, WaitFails, PollFails, InRun, Return, Waiting
  <2> QED
    BY <2>1, <2>2, <2>3, <2>4, PollStep
<1>3. CASE HandleInterruptSignal(p)
  <2>1. SoundStep(p) /\ UNCHANGED <<slot, life, runs, ring>>
    BY <1>3, KindsOfSteps DEF OwnStep, Disturbance, HandleInterruptSignal, members
  <2>2. CASE pc[p] = "wait" /\ PollFails(p)
    <3>1. runs[p] # 0
      BY <2>2, RunIsCounted DEF Waiting
    <3>2. code'[p] = code[p] \/ (code[p] = -1 /\ code'[p] = 0)
      BY <2>2 DEF IInv, TypeOK, PollFails, InRun
    <3>3. pc'[p] = "idle"
      BY <2>2 DEF IInv, TypeOK, PollFails, Goto
    <3> QED
      BY <2>1, <2>2, <3>1, <3>2, <3>3, PollStep DEF Polls, Waiting
  <2>3. CASE UNCHANGED <<pc, code>>
    <3>1. Kept(p) /\ KeepsConsumer(p)
      BY <2>1, <2>3 DEF Kept, KeepsConsumer, MayHaveDetached, Alive
    <3>2. Phase(p)' = Phase(p)
      BY <2>1, <2>3 DEF Phase
    <3> QED
      BY <2>1, <3>1, <3>2, InvisibleStep DEF Visible
  <2> QED
    BY <1>3, <2>2, <2>3 DEF HandleInterruptSignal
<1>4. CASE AttachXdpProgram(p) \/ OpenRingBuffer(p)
  BY <1>4, AttachIsVisible, OpenIsVisible
<1>5. CASE CallRun(p) \/ Destroy(p)
  BY <1>5, CallRunIsVisible, DestroyIsVisible DEF Visible, Sessions!Next, Sessions!SessionStep
<1>6. CASE DestructorStep(p)
  BY <1>6, DetachIsVisible, FreeIsVisible, CloseIsVisible
  DEF DestructorStep, Visible, Sessions!Next, Sessions!SessionStep
<1>7. CASE Kill(p) \/ Start(p)
  BY <1>7, KillIsVisible, StartIsVisible DEF Visible, Sessions!Next, Sessions!SessionStep
<1> QED
  BY <1>1, <1>2, <1>3, <1>4, <1>5, <1>6, <1>7
  DEF OwnStep, RunStep, ClientStep, Disturbance

LEMMA NextIsVisible ==
  ASSUME IInv, [Next]_vars
  PROVE  Visible
<1>1. ASSUME NEW p \in Procs, OwnStep(p) PROVE Visible
  BY <1>1, OwnStepIsVisible
<1>2. CASE OtherToolAttaches \/ OtherToolDetaches
  BY <1>2, ForeignIsVisible DEF Visible, Sessions!Next
<1>3. CASE UNCHANGED vars
  <2>1. UNCHANGED <<env, process>> /\ UNCHANGED <<slot, life>>
    BY <1>3 DEF vars, process
  <2> QED
    BY <2>1, SameProcesses, SameInterface DEF Visible, Sessions!session, Sessions!interface
<1> QED
  BY <1>1, <1>2, <1>3 DEF Next, OwnStep

LEMMA InitIsVisible == Init => Sessions!Init
<1> SUFFICES ASSUME Init PROVE Sessions!Init
  OBVIOUS
<1>1. \A p \in Procs : Phase(p) = "ready"
  BY PhasesByPlace DEF Init, PhaseByPlace
<1>2. phase = [p \in Procs |-> "ready"]
  BY <1>1 DEF phase
<1>3. consumers = {} /\ retried = {} /\ departed = {}
  BY DEF Init, consumers, retried, departed, MayHaveDetached, Dead
<1>4. holder = {} /\ free = TRUE
  BY SlotAssumption DEF Init, holder, Attached, free
<1>5. stubborn \in BOOLEAN
  BY DEF stubborn, MayFail
<1> QED
  BY <1>2, <1>3, <1>4, <1>5 DEF Sessions!Init

(* Monitors that share an interface, with any number of processes, runs    *)
(* and restarts and with every failure and signal, are sessions: see       *)
(* ImplementsSessions for what that promises.                              *)
THEOREM MonitorsAreSessions == Spec => ImplementsSessions
<1>1. IInv /\ [Next]_vars => [Sessions!Next]_(Sessions!session)
  BY NextIsVisible DEF Visible
<1> QED
  BY <1>1, InitIsVisible, Invariance, PTL DEF Spec, Sessions!Spec, ImplementsSessions
=============================================================================
