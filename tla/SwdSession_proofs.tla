-------------------------- MODULE SwdSession_proofs --------------------------
(***************************************************************************)
(* Proofs about SwdSession, for any set of tasks, any affinity, any of the *)
(* four backends and any bounds.                                           *)
(***************************************************************************)
EXTENDS SwdSession, TLAPS

Starts    == {"init", "debug"}
LoopSteps == Stages \union PortSteps \union
             {"top", "resetLow", "portPins", "setupData", "setupClk"}
OffSteps  == {"offData", "offClk", "give"}

NestedInit == PortSteps \union {"portPins", "setupData", "setupClk"}

\* Which call a position belongs to, and its loops: a connection step always
\* has an attempt left.
LoopInv ==
  \A t \in Tasks :
    /\ pc[t] \in {"take", "portPins"} \union PortSteps => api[t] \in Starts
    /\ pc[t] \in Stages \union {"bootPin", "top", "resetLow"} => api[t] = "debug"
    /\ pc[t] = "nrstLow" => api[t] = "nrst"
    /\ pc[t] \in LoopSteps /\ api[t] = "debug" => retries[t] \in 1..MaxAttempts
    /\ pc[t] = "poll" => polls[t] < PollLimit

\* Who may be inside the owner's part of the code.
OwnerInv ==
  \A t \in Tasks :
    /\ pc[t] \in OwnedSteps => holder = t
    /\ pc[t] = "take" => holder # t

\* What the owner's position says about the wires.
WiresInv ==
  /\ holder = NoTask => ~Driven
  /\ clkOn \/ resetOn \/ dataOn => inited
  /\ \A t \in Tasks :
       /\ pc[t] = "give" => ~Driven
       /\ pc[t] = "offClk" => inited /\ (phaseOk => ~dataOn)
       /\ pc[t] \in {"setupClk", "link"} => (phaseOk => dataOn)
       /\ pc[t] \in Stages => clkOn
       /\ pc[t] \in {"setupData", "setupClk", "resetLow", "nrstLow"} \union Stages
            => inited
       /\ pc[t] = "top" /\ doAbort[t] => inited
       /\ pc[t] = "idle" /\ holder = t => inited

\* A start call that is winding down has an error to report.
ResultInv ==
  \A t \in Tasks : pc[t] \in OffSteps /\ api[t] \in Starts => err[t] # "OK"

\* The reset pulses of a connection loop count its failed attempts.
AttemptInv ==
  \A t \in Tasks :
    /\ pc[t] \in NestedInit \union Stages \union {"resetLow"} /\ api[t] = "debug"
         => resets[t] = MaxAttempts - retries[t]
    /\ pc[t] = "top" => resets[t] = MaxAttempts - retries[t] - (IF doAbort[t] THEN 1 ELSE 0)
    /\ pc[t] \in Stages \union {"setupClk"} => ~resetOn

\* The bundles allocated at each position of swd_esp_port_init.
ResourceInv ==
  /\ \A t \in Tasks :
       /\ pc[t] \in PortSteps => ~inited
       /\ pc[t] \in {"portAffinity", "portOut", "portDma"} => bundles = {}
       /\ pc[t] = "portAffinity" => backend \in {"dedicated", "spi"}
       /\ pc[t] = "portOut" => backend \in {"dedicated", "spi"}
       /\ pc[t] = "portDma" => backend = "parlio"
       /\ pc[t] = "portOutOffset" => bundles = {"out"} /\ backend \in {"dedicated", "spi"}
       /\ pc[t] = "portIn" => bundles = {"out"} /\ backend = "dedicated"
       /\ pc[t] = "portInOffset" => bundles = {"out", "in"} /\ backend = "dedicated"
       /\ pc[t] = "portBackend" => bundles = Resources /\ backend \in {"spi", "parlio"}
       /\ pc[t] = "portDone" => bundles = Resources
  /\ ResourcesMatchPort

IInv == /\ TypeOK /\ LoopInv /\ OwnerInv /\ WiresInv /\ ResultInv
        /\ AttemptInv /\ ResourceInv /\ ReturnContract

-----------------------------------------------------------------------------
\* A counter may be reset to zero.
LEMMA ZeroCounters == 0 \in 0..MaxAttempts /\ 0 \in 0..PollLimit
  BY BoundsAssumption

\* The initial state satisfies the invariant.
LEMMA InitIInv == Init => IInv
<1> SUFFICES ASSUME Init PROVE IInv
  OBVIOUS
<1>0. SharedTypes
  <2>1. dmaUsed \in 0..DmaPairs
    BY BoundsAssumption DEF Init
  <2> QED
    BY <2>1 DEF Init, SharedTypes
<1>1. CallTypes
  BY DEF Init, CallTypes, Codes, Apis
<1>2. LoopTypes
  BY BoundsAssumption DEF Init, LoopTypes
<1>3. LoopInv /\ OwnerInv /\ ResultInv /\ AttemptInv /\ ReturnContract
  BY DEF Init, LoopInv, OwnerInv, ResultInv, AttemptInv, ReturnContract, Stages,
         PortSteps, LoopSteps, OwnedSteps, OffSteps, Starts, NestedInit
<1>4. WiresInv
  BY TasksAssumption DEF Init, WiresInv, Driven, Stages, PortSteps
<1>5. ResourceInv
  BY DEF Init, ResourceInv, ResourcesMatchPort, PortSteps
<1> QED
  BY <1>0, <1>1, <1>2, <1>3, <1>4, <1>5 DEF IInv, TypeOK

\* Every step is a step of one of these groups of actions.
LEMMA StepCases ==
  ASSUME [Next]_vars
  PROVE  \/ UNCHANGED vars
         \/ \E t \in Tasks, a \in Starts, w \in {"bounded", "forever"} :
              BeginSession(t, a, w)
         \/ \E t \in Tasks :
              \/ Take(t) \/ TakeTimeout(t)
              \/ PortInit(t)
              \/ SetupData(t) \/ SetupClk(t)
              \/ Connect(t)
              \/ OffCall(t) \/ OffData(t) \/ OffClk(t) \/ Give(t)
              \/ DapConnect(t) \/ DapDisconnect(t) \/ TriggerNrst(t) \/ NrstRelease(t)
  BY DEF Next, Run, Start, Starts

\* The port and the wires keep their types.
LEMMA SharedTypesStep == IInv /\ [Next]_vars => SharedTypes'
<1> SUFFICES ASSUME IInv, [Next]_vars PROVE SharedTypes'
  OBVIOUS
<1>0. SharedTypes
  BY DEF IInv, TypeOK
<1>1. CASE UNCHANGED vars
  BY <1>0, <1>1 DEF SharedTypes, vars, port, pins
<1>2. ASSUME NEW t \in Tasks, NEW from, NEW got \in SUBSET {"out", "in"}, NEW to,
             DriverCall(t, from, got, to)
      PROVE  SharedTypes'
  BY <1>0, <1>2, AffinityAssumption DEF DriverCall, SharedTypes, pins
<1>3. ASSUME NEW t \in Tasks, PortInit(t)
      PROVE  SharedTypes'
  <2>1. CASE PortDma(t)
    BY <1>0, <2>1, BoundsAssumption DEF PortDma, SharedTypes, pins
  <2>2. CASE PortPins(t) \/ PortAffinity(t) \/ PortDone(t)
    BY <1>0, <2>2 DEF PortPins, PortAffinity, PortDone, SharedTypes, port, pins
  <2> QED
    BY <1>2, <1>3, <2>1, <2>2 DEF PortInit, PortOut, PortOutOffset, PortIn,
                                  PortInOffset, PortBackend
<1>4. ASSUME NEW t \in Tasks, Run(t) \/ Start(t), ~PortInit(t)
      PROVE  SharedTypes'
  BY <1>0, <1>4
  DEF SharedTypes, port, pins, Run, Start, BeginSession, Take, TakeTimeout,
      SetupData, SetupClk, Connect, BootPin, LoopTop, ResetRelease, LinkStage,
      PowerPoll, Unselect, OffCall, OffData, OffClk, Give, NrstRelease, DapConnect,
      DapDisconnect, TriggerNrst, OwnerCall, DataWires, TransferDone, TransferFailed
<1> QED
  BY <1>1, <1>3, <1>4 DEF Next

\* The positions, calls and results keep their types: every error a call can
\* meet is one of the codes it may return.
LEMMA CallTypesStep == IInv /\ [Next]_vars => CallTypes'
<1> SUFFICES ASSUME IInv, [Next]_vars PROVE CallTypes'
  OBVIOUS
<1> USE DEF IInv, TypeOK, SharedTypes, CallTypes, LoopTypes,
             Goto, Transition, Return, Abandon, Enter, port, pins, call, loop,
             Stages, PortSteps, OwnedSteps, LoopSteps, OffSteps, Starts, Failures,
             NestedInit, Codes, Apis, LoopInv
<1>1. CASE UNCHANGED vars
  BY <1>1 DEF vars
<1>2. ASSUME NEW t \in Tasks, NEW a \in Starts,
              NEW w \in {"bounded", "forever"}, BeginSession(t, a, w)
      PROVE  CallTypes'
  BY <1>2 DEF BeginSession
<1>3. ASSUME NEW t \in Tasks, Take(t) \/ TakeTimeout(t)
      PROVE  CallTypes'
  BY <1>3 DEF Take, TakeTimeout
<1>4. ASSUME NEW t \in Tasks, PortInit(t)
      PROVE  CallTypes'
  BY <1>4 DEF PortInit, PortPins, PortAffinity, PortOut, PortOutOffset, PortIn,
             PortInOffset, PortDma, PortBackend, PortDone, DriverCall
<1>5. ASSUME NEW t \in Tasks, SetupData(t) \/ SetupClk(t)
      PROVE  CallTypes'
  BY <1>5 DEF SetupData, SetupClk, DataWires
<1>6. ASSUME NEW t \in Tasks, Connect(t)
      PROVE  CallTypes'
  BY <1>6 DEF Connect, BootPin, LoopTop, ResetRelease, LinkStage, PowerPoll,
             Unselect, AttemptFails, NextStage, DataWires, TransferDone, TransferFailed
<1>7. ASSUME NEW t \in Tasks, OffCall(t) \/ OffData(t) \/ OffClk(t) \/ Give(t)
      PROVE  CallTypes'
  BY <1>7 DEF OffCall, OffData, OffClk, Give, DataWires
<1>8. ASSUME NEW t \in Tasks, DapConnect(t) \/ DapDisconnect(t)
                                 \/ TriggerNrst(t) \/ NrstRelease(t)
      PROVE  CallTypes'
  BY <1>8 DEF DapConnect, DapDisconnect, TriggerNrst, NrstRelease, OwnerCall
<1> QED
  BY StepCases, <1>1, <1>2, <1>3, <1>4, <1>5, <1>6, <1>7, <1>8

\* Leaving a call, or failing an attempt, keeps the types of the loop counters.
LEMMA ReturnTypes ==
  ASSUME NEW t \in Tasks, NEW c, LoopTypes, Return(t, c)
  PROVE  LoopTypes'
  BY ZeroCounters DEF LoopTypes, Return

\* A failed attempt keeps the types of the loop variables.
LEMMA AttemptFailsTypes ==
  ASSUME NEW t \in Tasks, NEW c, LoopTypes, retries[t] \in 1..MaxAttempts,
         AttemptFails(t, c)
  PROVE  /\ retries' \in [Tasks -> 0..MaxAttempts]
         /\ doAbort' \in [Tasks -> BOOLEAN]
         /\ resets' \in [Tasks -> Nat]
  BY BoundsAssumption DEF LoopTypes, AttemptFails

\* The loop counters stay within their bounds: no attempt is counted below zero
\* and no poll beyond the limit.
LEMMA LoopTypesStep == IInv /\ [Next]_vars => LoopTypes'
<1> SUFFICES ASSUME IInv, [Next]_vars PROVE LoopTypes'
  OBVIOUS
<1>0. LoopTypes
  BY DEF IInv, TypeOK
<1>1. ASSUME UNCHANGED loop PROVE LoopTypes'
  BY <1>0, <1>1 DEF LoopTypes, loop
<1>2. ASSUME NEW t \in Tasks, LinkStage(t) \/ PowerPoll(t) \/ Unselect(t)
      PROVE  LoopTypes'
  <2>1. retries[t] \in 1..MaxAttempts /\ (pc[t] = "poll" => polls[t] < PollLimit)
    BY <1>2 DEF LinkStage, NextStage, PowerPoll, Unselect, IInv, LoopInv, LoopSteps,
                Stages
  <2>2. CASE LinkStage(t)
    <3>1. polls' \in [Tasks -> 0..PollLimit]
      BY <1>0, <2>2, ZeroCounters DEF LoopTypes, LinkStage
    <3> QED
      BY <1>0, <2>1, <2>2, <3>1, AttemptFailsTypes DEF LinkStage, LoopTypes
  <2>3. CASE PowerPoll(t)
    <3>1. polls' \in [Tasks -> 0..PollLimit]
      BY <1>0, <2>1, <2>3, BoundsAssumption DEF LoopTypes, PowerPoll, loop
    <3> QED
      BY <1>0, <2>1, <2>3, <3>1, AttemptFailsTypes DEF PowerPoll, LoopTypes, loop
  <2>4. CASE Unselect(t)
    BY <1>0, <2>1, <2>4, ReturnTypes, AttemptFailsTypes DEF Unselect, LoopTypes
  <2> QED
    BY <1>2, <2>2, <2>3, <2>4
<1>3. ASSUME NEW t \in Tasks, BootPin(t)
      PROVE  LoopTypes'
  <2>1. MaxAttempts \in 0..MaxAttempts
    BY BoundsAssumption
  <2>2. \/ /\ retries' = [retries EXCEPT ![t] = MaxAttempts]
           /\ doAbort' = [doAbort EXCEPT ![t] = FALSE]
           /\ resets' = [resets EXCEPT ![t] = 0]
        \/ UNCHANGED <<retries, doAbort, resets>>
    BY <1>3, Zenon DEF BootPin
  <2>3. UNCHANGED polls
    BY <1>3 DEF BootPin
  <2>4. retries' \in [Tasks -> 0..MaxAttempts]
    BY <1>0, <2>1, <2>2 DEF LoopTypes
  <2>5. doAbort' \in [Tasks -> BOOLEAN]
    BY <1>0, <2>2 DEF LoopTypes
  <2>6. resets' \in [Tasks -> Nat]
    BY <1>0, <2>2 DEF LoopTypes
  <2> QED
    BY <1>0, <2>3, <2>4, <2>5, <2>6 DEF LoopTypes
<1>4. ASSUME NEW t \in Tasks, LoopTop(t)
      PROVE  LoopTypes'
  BY <1>0, <1>4 DEF LoopTop, LoopTypes
<1>5. ASSUME NEW t \in Tasks, ResetRelease(t)
      PROVE  LoopTypes'
  BY <1>0, <1>5 DEF ResetRelease, LoopTypes
<1>6. ASSUME NEW t \in Tasks,
             \/ PortInit(t) \/ SetupData(t) \/ SetupClk(t) \/ Take(t) \/ TakeTimeout(t)
             \/ OffData(t) \/ OffClk(t) \/ Give(t) \/ NrstRelease(t) \/ Start(t)
      PROVE  LoopTypes'
  <2>1. UNCHANGED loop \/ \E c : Return(t, c)
    BY <1>6 DEF PortInit, PortPins, PortAffinity, PortOut, PortOutOffset, PortIn,
                PortInOffset, PortDma, PortBackend, PortDone, DriverCall, SetupData,
                SetupClk, Take, TakeTimeout, OffData, OffClk, Give, NrstRelease,
                Start, BeginSession, OffCall, DapConnect, DapDisconnect,
                TriggerNrst, OwnerCall
  <2> QED
    BY <1>0, <1>1, <2>1, ReturnTypes
<1> QED
  BY <1>1, <1>2, <1>3, <1>4, <1>5, <1>6 DEF Next, Run, Connect, vars, loop

\* A step keeps every position inside the call it belongs to.
LEMMA LoopInvStep == IInv /\ [Next]_vars => LoopInv'
<1> SUFFICES ASSUME IInv, [Next]_vars PROVE LoopInv'
  OBVIOUS
<1> USE BoundsAssumption DEF IInv, TypeOK, SharedTypes, CallTypes, LoopTypes,
             Goto, Transition, Return, Abandon, Enter, port, pins, call, loop,
             Stages, PortSteps, OwnedSteps, LoopSteps, OffSteps, Starts, Failures,
             NestedInit, LoopInv
<1>1. CASE UNCHANGED vars
  BY <1>1 DEF vars
<1>2. ASSUME NEW t \in Tasks, NEW a \in Starts,
              NEW w \in {"bounded", "forever"}, BeginSession(t, a, w)
      PROVE  LoopInv'
  BY <1>2 DEF BeginSession
<1>3. ASSUME NEW t \in Tasks, Take(t) \/ TakeTimeout(t)
      PROVE  LoopInv'
  BY <1>3 DEF Take, TakeTimeout
<1>4. ASSUME NEW t \in Tasks, PortInit(t)
      PROVE  LoopInv'
  BY <1>4 DEF PortInit, PortPins, PortAffinity, PortOut, PortOutOffset, PortIn,
             PortInOffset, PortDma, PortBackend, PortDone, DriverCall
<1>5. ASSUME NEW t \in Tasks, SetupData(t) \/ SetupClk(t)
      PROVE  LoopInv'
  BY <1>5 DEF SetupData, SetupClk, DataWires
<1>6. ASSUME NEW t \in Tasks, Connect(t)
      PROVE  LoopInv'
  BY <1>6 DEF Connect, BootPin, LoopTop, ResetRelease, LinkStage, PowerPoll,
             Unselect, AttemptFails, NextStage, DataWires, TransferDone, TransferFailed
<1>7. ASSUME NEW t \in Tasks, OffCall(t) \/ OffData(t) \/ OffClk(t) \/ Give(t)
      PROVE  LoopInv'
  BY <1>7 DEF OffCall, OffData, OffClk, Give, DataWires
<1>8. ASSUME NEW t \in Tasks, DapConnect(t) \/ DapDisconnect(t)
                                 \/ TriggerNrst(t) \/ NrstRelease(t)
      PROVE  LoopInv'
  BY <1>8 DEF DapConnect, DapDisconnect, TriggerNrst, NrstRelease, OwnerCall
<1> QED
  BY StepCases, <1>1, <1>2, <1>3, <1>4, <1>5, <1>6, <1>7, <1>8

\* A step keeps the owner's part of the code to the owner.
LEMMA OwnerInvStep == IInv /\ [Next]_vars => OwnerInv'
<1> SUFFICES ASSUME IInv, [Next]_vars PROVE OwnerInv'
  OBVIOUS
<1> USE TasksAssumption DEF IInv, TypeOK, SharedTypes, CallTypes, LoopTypes,
             Goto, Transition, Return, Abandon, Enter, port, pins, call, loop,
             Stages, PortSteps, OwnedSteps, LoopSteps, OffSteps, Starts, Failures,
             NestedInit, OwnerInv
<1>1. CASE UNCHANGED vars
  BY <1>1 DEF vars
<1>2. ASSUME NEW t \in Tasks, NEW a \in Starts,
              NEW w \in {"bounded", "forever"}, BeginSession(t, a, w)
      PROVE  OwnerInv'
  BY <1>2 DEF BeginSession
<1>3. ASSUME NEW t \in Tasks, Take(t) \/ TakeTimeout(t)
      PROVE  OwnerInv'
  BY <1>3 DEF Take, TakeTimeout
<1>4. ASSUME NEW t \in Tasks, PortInit(t)
      PROVE  OwnerInv'
  BY <1>4 DEF PortInit, PortPins, PortAffinity, PortOut, PortOutOffset, PortIn,
             PortInOffset, PortDma, PortBackend, PortDone, DriverCall
<1>5. ASSUME NEW t \in Tasks, SetupData(t) \/ SetupClk(t)
      PROVE  OwnerInv'
  BY <1>5 DEF SetupData, SetupClk, DataWires
<1>6. ASSUME NEW t \in Tasks, Connect(t)
      PROVE  OwnerInv'
  BY <1>6 DEF Connect, BootPin, LoopTop, ResetRelease, LinkStage, PowerPoll,
             Unselect, AttemptFails, NextStage, DataWires, TransferDone, TransferFailed
<1>7. ASSUME NEW t \in Tasks, OffCall(t) \/ OffData(t) \/ OffClk(t) \/ Give(t)
      PROVE  OwnerInv'
  BY <1>7 DEF OffCall, OffData, OffClk, Give, DataWires
<1>8. ASSUME NEW t \in Tasks, DapConnect(t) \/ DapDisconnect(t)
                                 \/ TriggerNrst(t) \/ NrstRelease(t)
      PROVE  OwnerInv'
  BY <1>8 DEF DapConnect, DapDisconnect, TriggerNrst, NrstRelease, OwnerCall
<1> QED
  BY StepCases, <1>1, <1>2, <1>3, <1>4, <1>5, <1>6, <1>7, <1>8

\* A step keeps the owner's position and the wires in agreement.
LEMMA WiresInvStep == IInv /\ [Next]_vars => WiresInv'
<1> SUFFICES ASSUME IInv, [Next]_vars PROVE WiresInv'
  OBVIOUS
<1> USE TasksAssumption DEF IInv, TypeOK, SharedTypes, CallTypes, LoopTypes,
             Goto, Transition, Return, Abandon, Enter, port, pins, call, loop,
             Stages, PortSteps, OwnedSteps, LoopSteps, OffSteps, Starts, Failures,
             NestedInit, WiresInv, OwnerInv, Driven
<1>1. CASE UNCHANGED vars
  BY <1>1 DEF vars
<1>2. ASSUME NEW t \in Tasks, NEW a \in Starts,
              NEW w \in {"bounded", "forever"}, BeginSession(t, a, w)
      PROVE  WiresInv'
  BY <1>2 DEF BeginSession
<1>3. ASSUME NEW t \in Tasks, Take(t) \/ TakeTimeout(t)
      PROVE  WiresInv'
  BY <1>3 DEF Take, TakeTimeout
<1>4. ASSUME NEW t \in Tasks, PortInit(t)
      PROVE  WiresInv'
  BY <1>4 DEF PortInit, PortPins, PortAffinity, PortOut, PortOutOffset, PortIn,
             PortInOffset, PortDma, PortBackend, PortDone, DriverCall
<1>5. ASSUME NEW t \in Tasks, SetupData(t) \/ SetupClk(t)
      PROVE  WiresInv'
  BY <1>5 DEF SetupData, SetupClk, DataWires
<1>6. ASSUME NEW t \in Tasks, Connect(t)
      PROVE  WiresInv'
  BY <1>6 DEF Connect, BootPin, LoopTop, ResetRelease, LinkStage, PowerPoll,
             Unselect, AttemptFails, NextStage, DataWires, TransferDone, TransferFailed
<1>7. ASSUME NEW t \in Tasks, OffCall(t) \/ OffData(t) \/ OffClk(t) \/ Give(t)
      PROVE  WiresInv'
  BY <1>7 DEF OffCall, OffData, OffClk, Give, DataWires
<1>8. ASSUME NEW t \in Tasks, DapConnect(t) \/ DapDisconnect(t)
                                 \/ TriggerNrst(t) \/ NrstRelease(t)
      PROVE  WiresInv'
  BY <1>8 DEF DapConnect, DapDisconnect, TriggerNrst, NrstRelease, OwnerCall
<1> QED
  BY StepCases, <1>1, <1>2, <1>3, <1>4, <1>5, <1>6, <1>7, <1>8

\* A step that starts to wind a start call down leaves it an error.
LEMMA ResultInvStep == IInv /\ [Next]_vars => ResultInv'
<1> SUFFICES ASSUME IInv, [Next]_vars PROVE ResultInv'
  OBVIOUS
<1> USE ErrorsAssumption DEF IInv, TypeOK, SharedTypes, CallTypes, LoopTypes,
             Goto, Transition, Return, Abandon, Enter, port, pins, call, loop,
             Stages, PortSteps, OwnedSteps, LoopSteps, OffSteps, Starts, Failures,
             NestedInit, ResultInv, OwnerInv
<1>1. CASE UNCHANGED vars
  BY <1>1 DEF vars
<1>2. ASSUME NEW t \in Tasks, NEW a \in Starts,
              NEW w \in {"bounded", "forever"}, BeginSession(t, a, w)
      PROVE  ResultInv'
  BY <1>2 DEF BeginSession
<1>3. ASSUME NEW t \in Tasks, Take(t) \/ TakeTimeout(t)
      PROVE  ResultInv'
  BY <1>3 DEF Take, TakeTimeout
<1>4. ASSUME NEW t \in Tasks, PortInit(t)
      PROVE  ResultInv'
  BY <1>4 DEF PortInit, PortPins, PortAffinity, PortOut, PortOutOffset, PortIn,
             PortInOffset, PortDma, PortBackend, PortDone, DriverCall
<1>5. ASSUME NEW t \in Tasks, SetupData(t) \/ SetupClk(t)
      PROVE  ResultInv'
  BY <1>5 DEF SetupData, SetupClk, DataWires
<1>6. ASSUME NEW t \in Tasks, Connect(t)
      PROVE  ResultInv'
  BY <1>6 DEF Connect, BootPin, LoopTop, ResetRelease, LinkStage, PowerPoll,
             Unselect, AttemptFails, NextStage, DataWires, TransferDone, TransferFailed
<1>7. ASSUME NEW t \in Tasks, OffCall(t) \/ OffData(t) \/ OffClk(t) \/ Give(t)
      PROVE  ResultInv'
  BY <1>7 DEF OffCall, OffData, OffClk, Give, DataWires
<1>8. ASSUME NEW t \in Tasks, DapConnect(t) \/ DapDisconnect(t)
                                 \/ TriggerNrst(t) \/ NrstRelease(t)
      PROVE  ResultInv'
  BY <1>8 DEF DapConnect, DapDisconnect, TriggerNrst, NrstRelease, OwnerCall
<1> QED
  BY StepCases, <1>1, <1>2, <1>3, <1>4, <1>5, <1>6, <1>7, <1>8

\* A step keeps the reset pulses in line with the failed attempts.
LEMMA AttemptInvStep == IInv /\ [Next]_vars => AttemptInv'
<1> SUFFICES ASSUME IInv, [Next]_vars PROVE AttemptInv'
  OBVIOUS
<1> USE BoundsAssumption, TasksAssumption DEF IInv, TypeOK, SharedTypes, CallTypes, LoopTypes,
             Goto, Transition, Return, Abandon, Enter, port, pins, call, loop,
             Stages, PortSteps, OwnedSteps, LoopSteps, OffSteps, Starts, Failures,
             NestedInit, AttemptInv, OwnerInv, LoopInv
<1>1. CASE UNCHANGED vars
  BY <1>1 DEF vars
<1>2. ASSUME NEW t \in Tasks, NEW a \in Starts,
              NEW w \in {"bounded", "forever"}, BeginSession(t, a, w)
      PROVE  AttemptInv'
  BY <1>2 DEF BeginSession
<1>3. ASSUME NEW t \in Tasks, Take(t) \/ TakeTimeout(t)
      PROVE  AttemptInv'
  BY <1>3 DEF Take, TakeTimeout
<1>4. ASSUME NEW t \in Tasks, PortInit(t)
      PROVE  AttemptInv'
  BY <1>4 DEF PortInit, PortPins, PortAffinity, PortOut, PortOutOffset, PortIn,
             PortInOffset, PortDma, PortBackend, PortDone, DriverCall
<1>5. ASSUME NEW t \in Tasks, SetupData(t) \/ SetupClk(t)
      PROVE  AttemptInv'
  BY <1>5 DEF SetupData, SetupClk, DataWires
<1>6. ASSUME NEW t \in Tasks, Connect(t)
      PROVE  AttemptInv'
  BY <1>6 DEF Connect, BootPin, LoopTop, ResetRelease, LinkStage, PowerPoll,
             Unselect, AttemptFails, NextStage, DataWires, TransferDone, TransferFailed
<1>7. ASSUME NEW t \in Tasks, OffCall(t) \/ OffData(t) \/ OffClk(t) \/ Give(t)
      PROVE  AttemptInv'
  BY <1>7 DEF OffCall, OffData, OffClk, Give, DataWires
<1>8. ASSUME NEW t \in Tasks, DapConnect(t) \/ DapDisconnect(t)
                                 \/ TriggerNrst(t) \/ NrstRelease(t)
      PROVE  AttemptInv'
  BY <1>8 DEF DapConnect, DapDisconnect, TriggerNrst, NrstRelease, OwnerCall
<1> QED
  BY StepCases, <1>1, <1>2, <1>3, <1>4, <1>5, <1>6, <1>7, <1>8

\* A step keeps the allocated bundles at what the position in
\* swd_esp_port_init says.
LEMMA ResourceInvStep == IInv /\ [Next]_vars => ResourceInv'
<1> SUFFICES ASSUME IInv, [Next]_vars PROVE ResourceInv'
  OBVIOUS
<1> USE BackendAssumption DEF IInv, TypeOK, SharedTypes, CallTypes, LoopTypes,
             Goto, Transition, Return, Abandon, Enter, port, pins, call, loop,
             Stages, PortSteps, OwnedSteps, LoopSteps, OffSteps, Starts, Failures,
             NestedInit, ResourceInv, OwnerInv, WiresInv, Resources,
                ResourcesMatchPort
<1>1. CASE UNCHANGED vars
  BY <1>1 DEF vars
<1>2. ASSUME NEW t \in Tasks, NEW a \in Starts,
              NEW w \in {"bounded", "forever"}, BeginSession(t, a, w)
      PROVE  ResourceInv'
  BY <1>2 DEF BeginSession
<1>3. ASSUME NEW t \in Tasks, Take(t) \/ TakeTimeout(t)
      PROVE  ResourceInv'
  BY <1>3 DEF Take, TakeTimeout
<1>4. ASSUME NEW t \in Tasks, PortInit(t)
      PROVE  ResourceInv'
  BY <1>4 DEF PortInit, PortPins, PortAffinity, PortOut, PortOutOffset, PortIn,
             PortInOffset, PortDma, PortBackend, PortDone, DriverCall
<1>5. ASSUME NEW t \in Tasks, SetupData(t) \/ SetupClk(t)
      PROVE  ResourceInv'
  BY <1>5 DEF SetupData, SetupClk, DataWires
<1>6. ASSUME NEW t \in Tasks, Connect(t)
      PROVE  ResourceInv'
  BY <1>6 DEF Connect, BootPin, LoopTop, ResetRelease, LinkStage, PowerPoll,
             Unselect, AttemptFails, NextStage, DataWires, TransferDone, TransferFailed
<1>7. ASSUME NEW t \in Tasks, OffCall(t) \/ OffData(t) \/ OffClk(t) \/ Give(t)
      PROVE  ResourceInv'
  BY <1>7 DEF OffCall, OffData, OffClk, Give, DataWires
<1>8. ASSUME NEW t \in Tasks, DapConnect(t) \/ DapDisconnect(t)
                                 \/ TriggerNrst(t) \/ NrstRelease(t)
      PROVE  ResourceInv'
  BY <1>8 DEF DapConnect, DapDisconnect, TriggerNrst, NrstRelease, OwnerCall
<1> QED
  BY StepCases, <1>1, <1>2, <1>3, <1>4, <1>5, <1>6, <1>7, <1>8

\* A step that ends a start call keeps the contract, and no other task's step
\* breaks it.
LEMMA ReturnContractStep == IInv /\ [Next]_vars => ReturnContract'
<1> SUFFICES ASSUME IInv, [Next]_vars PROVE ReturnContract'
  OBVIOUS
<1> USE ErrorsAssumption, TasksAssumption DEF IInv, TypeOK, SharedTypes, CallTypes, LoopTypes,
             Goto, Transition, Return, Abandon, Enter, port, pins, call, loop,
             Stages, PortSteps, OwnedSteps, LoopSteps, OffSteps, Starts, Failures,
             NestedInit, ReturnContract, LoopInv, OwnerInv, WiresInv, ResultInv
<1>1. CASE UNCHANGED vars
  BY <1>1 DEF vars
<1>2. ASSUME NEW t \in Tasks, NEW a \in Starts,
              NEW w \in {"bounded", "forever"}, BeginSession(t, a, w)
      PROVE  ReturnContract'
  BY <1>2 DEF BeginSession
<1>3. ASSUME NEW t \in Tasks, Take(t) \/ TakeTimeout(t)
      PROVE  ReturnContract'
  BY <1>3 DEF Take, TakeTimeout
<1>4. ASSUME NEW t \in Tasks, PortInit(t)
      PROVE  ReturnContract'
  BY <1>4 DEF PortInit, PortPins, PortAffinity, PortOut, PortOutOffset, PortIn,
             PortInOffset, PortDma, PortBackend, PortDone, DriverCall
<1>5. ASSUME NEW t \in Tasks, SetupData(t) \/ SetupClk(t)
      PROVE  ReturnContract'
  BY <1>5 DEF SetupData, SetupClk, DataWires
<1>6. ASSUME NEW t \in Tasks, Connect(t)
      PROVE  ReturnContract'
  BY <1>6 DEF Connect, BootPin, LoopTop, ResetRelease, LinkStage, PowerPoll,
             Unselect, AttemptFails, NextStage, DataWires, TransferDone, TransferFailed
<1>7. ASSUME NEW t \in Tasks, OffCall(t) \/ OffData(t) \/ OffClk(t) \/ Give(t)
      PROVE  ReturnContract'
  BY <1>7 DEF OffCall, OffData, OffClk, Give, DataWires
<1>8. ASSUME NEW t \in Tasks, DapConnect(t) \/ DapDisconnect(t)
                                 \/ TriggerNrst(t) \/ NrstRelease(t)
      PROVE  ReturnContract'
  BY <1>8 DEF DapConnect, DapDisconnect, TriggerNrst, NrstRelease, OwnerCall
<1> QED
  BY StepCases, <1>1, <1>2, <1>3, <1>4, <1>5, <1>6, <1>7, <1>8

-----------------------------------------------------------------------------
\* The invariant is inductive, so it holds in every reachable state.
THEOREM SpecIInv == Spec => []IInv
<1>1. IInv /\ [Next]_vars => IInv'
  BY SharedTypesStep, CallTypesStep, LoopTypesStep, LoopInvStep, OwnerInvStep,
     WiresInvStep, ResultInvStep, AttemptInvStep, ResourceInvStep,
     ReturnContractStep
  DEF IInv, TypeOK
<1> QED
  BY InitIInv, <1>1, PTL DEF Spec

\* Every variable keeps its type.
THEOREM SpecTypeOK == Spec => []TypeOK
  BY SpecIInv, PTL DEF IInv

\* Reset is released, the clock translator isolated, and so is the data translator
\* unless its PARLIO phase failed, whenever the lock is free.
THEOREM SpecFreeBusIsolated == Spec => []FreeBusIsolated
<1>1. IInv => FreeBusIsolated
  BY DEF IInv, WiresInv, FreeBusIsolated
<1> QED
  BY <1>1, SpecIInv, PTL

\* A start call that returned ESP_OK left its caller with the session and the
\* wires connected (but for a failed set-up phase of swd_init in a PARLIO build),
\* one that returned an error left it without.
THEOREM SpecReturnContract == Spec => []ReturnContract
  BY SpecIInv, PTL DEF IInv

\* No path through swd_esp_port_init leaks a bundle or forgets one.
THEOREM SpecResourcesMatchPort == Spec => []ResourcesMatchPort
<1>1. IInv => ResourcesMatchPort
  BY DEF IInv, ResourceInv
<1> QED
  BY <1>1, SpecIInv, PTL

\* Every repeated connection attempt starts from an aborted, reset target.
THEOREM SpecAttemptsStartFromReset == Spec => []AttemptsStartFromReset
<1>1. IInv => AttemptsStartFromReset
  BY DEF IInv, LoopInv, AttemptInv, AttemptsStartFromReset, Stages
<1> QED
  BY <1>1, SpecIInv, PTL

\* A task without the lock can only ask for it, time out, or have swd_off refuse.
LEMMA OutsiderSteps ==
  ASSUME IInv, NEW t \in Tasks, holder # t, Run(t) \/ Start(t)
  PROVE  /\ UNCHANGED <<port, pins>>
         /\ ~Take(t) => UNCHANGED holder
<1>1. pc[t] \in {"idle", "take"}
  BY DEF IInv, TypeOK, CallTypes, OwnerInv
<1>2. \/ \E a \in {"init", "debug"}, w \in {"bounded", "forever"} :
           BeginSession(t, a, w)
      \/ Take(t) \/ TakeTimeout(t) \/ OffCall(t)
  BY <1>1 DEF Run, Start, PortInit, PortPins, PortAffinity, PortOut,
              PortOutOffset, PortIn, PortInOffset, PortDma, PortBackend,
              PortDone, DriverCall, Transition, SetupData, SetupClk, Connect,
              BootPin, LoopTop, ResetRelease, LinkStage, NextStage, PowerPoll,
              Unselect, OffData, OffClk, Give, NrstRelease, DapConnect,
              DapDisconnect, TriggerNrst, OwnerCall
<1> QED
  BY <1>2 DEF BeginSession, Take, TakeTimeout, OffCall

\* A step of a task without the lock leaves the pins and the port alone.
THEOREM SpecOnlyHolderTouchesBus == Spec => OnlyHolderTouchesBus
<1>1. IInv /\ [Next]_vars =>
        [\A t \in Tasks : holder # t /\ (Run(t) \/ Start(t)) =>
            UNCHANGED <<port, pins>>]_vars
  BY OutsiderSteps
<1> QED
  BY <1>1, SpecIInv, PTL DEF Spec, OnlyHolderTouchesBus

-----------------------------------------------------------------------------
\* The session layer implements the lease, a data translator apart whose PARLIO
\* phase failed: it starts free and isolated, and
\* every step is a step of the lease under the mapping owner <- holder,
\* driven <- Driven.
THEOREM SpecLease == Spec => LeaseSpec
<1>1. Init => Lease!Init
  BY DEF Init, Lease!Init, Driven
<1>2. IInv /\ [Next]_vars => [Lease!Next]_(Lease!vars)
  <2> SUFFICES ASSUME IInv, [Next]_vars
               PROVE  [Lease!Next]_(Lease!vars)
    OBVIOUS
  <2>1. CASE UNCHANGED vars
    BY <2>1 DEF vars, pins, Lease!vars, Driven
  <2>2. ASSUME NEW t \in Tasks, Take(t)
        PROVE  Lease!Acquire(t)
    BY <2>2 DEF Take, Lease!Acquire, Driven, pins
  <2>3. ASSUME NEW t \in Tasks, Give(t)
        PROVE  Lease!Release(t)
    BY <2>3 DEF Give, Lease!Release, Driven, pins, IInv, OwnerInv, WiresInv,
                OwnedSteps
  <2>4. ASSUME NEW t \in Tasks, Run(t) \/ Start(t), ~Take(t), ~Give(t), holder = t
        PROVE  Lease!Use(t)
    <3>1. UNCHANGED holder
      BY <2>4 DEF Run, Start, BeginSession, TakeTimeout, PortInit, PortPins,
                  PortAffinity, PortOut, PortOutOffset, PortIn, PortInOffset,
                  PortDma, PortBackend, PortDone, DriverCall, SetupData, SetupClk,
                  Connect, BootPin, LoopTop, ResetRelease, LinkStage, PowerPoll,
                  Unselect, OffCall, OffData, OffClk, NrstRelease, DapConnect,
                  DapDisconnect, TriggerNrst, OwnerCall
    <3> QED
      BY <2>4, <3>1 DEF Lease!Use, Driven
  <2>5. ASSUME NEW t \in Tasks, Run(t) \/ Start(t), ~Take(t), ~Give(t), holder # t
        PROVE  UNCHANGED Lease!vars
    BY <2>5, OutsiderSteps DEF Lease!vars, Driven, pins
  <2> QED
    BY <2>1, <2>2, <2>3, <2>4, <2>5 DEF Next, Lease!Next
<1> QED
  BY <1>1, <1>2, SpecIInv, PTL DEF Spec, LeaseSpec, Lease!Spec
=============================================================================
