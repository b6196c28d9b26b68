----------------------------- MODULE SwdSession -----------------------------
(***************************************************************************)
(* The session layer of interface/swd_host.c, AXC2T245 build: the mutex    *)
(* that reserves the bus, the one-time port initialisation with its        *)
(* failure points, swd_init, swd_init_debug with its connection retries,   *)
(* swd_off, and the owner's calls that touch the same pins (DAP_Connect,   *)
(* DAP_Disconnect, swd_trigger_nrst).                                      *)
(*                                                                         *)
(* A task's pc names the statement it runs next; between two steps of one  *)
(* task FreeRTOS may run any other.  The wires are abstracted to "the      *)
(* data translator is enabled", "the clock translator is enabled" and      *)
(* "target reset is asserted"; SwdioBus.tla opens up the first.            *)
(***************************************************************************)
EXTENDS Naturals

CONSTANTS
  Tasks,        \* tasks that call the API
  NoTask,       \* xSemaphoreGetMutexHolder() of a free mutex
  Backends,     \* the wire engines that may be configured
  Affinity,     \* the core each task is pinned to (xTaskGetCoreID)
  Cores,
  NoAffinity,   \* tskNO_AFFINITY
  LinkErrors,   \* errors a transfer may return, ESP_ERR_TIMEOUT apart
  PortErrors,   \* errors of the GPIO, dedicated GPIO, SPI and PARLIO drivers
  DmaPairs,     \* GDMA channel pairs of the chip (PARLIO backend)
  MaxAttempts,  \* retries in swd_init_debug, 4 in the code
  PollLimit     \* timeout in swd_init_debug, 100 in the code

ASSUME TasksAssumption    == NoTask \notin Tasks
ASSUME BackendAssumption  == Backends \subseteq {"gpio", "dedicated", "spi", "parlio"}
ASSUME AffinityAssumption == /\ Affinity \in [Tasks -> Cores \union {NoAffinity}]
                             /\ NoAffinity \notin Cores
ASSUME ErrorsAssumption   == "OK" \notin LinkErrors \union PortErrors
ASSUME BoundsAssumption   == /\ MaxAttempts \in Nat \ {0}
                             /\ PollLimit \in Nat \ {0}
                             /\ DmaPairs \in Nat \ {0}

VARIABLES
  backend,     \* the configured wire engine, the same in a whole behaviour
  holder,      \* holder of swd_lock
  inited,      \* swd_port_initialized
  bundles,     \* dedicated GPIO bundles now allocated
  bundleCore,  \* the core that created the output bundle
  dmaUsed,     \* GDMA channel pairs taken from the driver
  dataOn,      \* data translator enabled (SWDATA_nOE low)
  phaseOk,     \* history: the phase that was to set SWDATA_nOE has been played
  clkOn,       \* clock translator enabled (SWCLK_nOE low)
  resetOn,     \* HOST_SW_RST high: target reset asserted
  pc,          \* per task: the statement to run, "idle" outside a call
  api,         \* per task: the call it is in, or was in last
  ticks,       \* per task: ticks_to_wait, "bounded" or "forever"
  err,         \* per task: the local err
  ret,         \* per task: what its last call returned
  retries,     \* per task: retries of swd_init_debug
  polls,       \* per task: i of the power-up poll
  doAbort,     \* per task: do_abort of swd_init_debug
  resets       \* per task: history, reset pulses given in this call

port   == <<backend, inited, bundles, bundleCore, dmaUsed>>
pins   == <<dataOn, phaseOk, clkOn, resetOn>>
call   == <<api, ticks, ret>>
loop   == <<retries, polls, doAbort, resets>>
vars   == <<holder, port, pins, pc, call, err, loop>>

Stages     == {"link", "clear", "select", "power", "poll", "trn", "unselect"}
PortSteps  == {"portAffinity", "portOut", "portOutOffset", "portIn",
               "portInOffset", "portDma", "portBackend", "portDone"}
OwnedSteps == Stages \union PortSteps \union
              {"bootPin", "top", "resetLow", "portPins", "setupData", "setupClk",
               "offData", "offClk", "give", "nrstLow"}
Apis       == {"none", "init", "debug", "off", "connect", "disconnect", "nrst"}
Codes      == {"OK", "TIMEOUT", "INVALID_STATE"} \union LinkErrors \union PortErrors
Failures   == LinkErrors \union {"TIMEOUT"}

\* The bundles a completed swd_esp_port_init holds, for each backend.
Resources == CASE backend = "dedicated" -> {"out", "in"}
               [] backend = "spi"       -> {"out"}
               [] OTHER                 -> {}

\* What the session drives, as far as it knows: of a data translator whose phase
\* has failed it has only a log message.
Driven == clkOn \/ resetOn \/ (dataOn /\ phaseOk)

SharedTypes ==
  /\ backend \in Backends
  /\ holder \in Tasks \union {NoTask}
  /\ inited \in BOOLEAN
  /\ bundles \in SUBSET {"out", "in"}
  /\ bundleCore \in Cores \union {NoAffinity}
  /\ dmaUsed \in 0..DmaPairs
  /\ dataOn \in BOOLEAN /\ phaseOk \in BOOLEAN
  /\ clkOn \in BOOLEAN /\ resetOn \in BOOLEAN

CallTypes ==
  /\ pc \in [Tasks -> {"idle", "take"} \union OwnedSteps]
  /\ api \in [Tasks -> Apis]
  /\ ticks \in [Tasks -> {"bounded", "forever"}]
  /\ err \in [Tasks -> Codes]
  /\ ret \in [Tasks -> Codes]

LoopTypes ==
  /\ retries \in [Tasks -> 0..MaxAttempts]
  /\ polls \in [Tasks -> 0..PollLimit]
  /\ doAbort \in [Tasks -> BOOLEAN]
  /\ resets \in [Tasks -> Nat]

TypeOK == SharedTypes /\ CallTypes /\ LoopTypes

Init ==
  /\ backend \in Backends
  /\ holder = NoTask
  /\ inited = FALSE /\ bundles = {} /\ bundleCore = NoAffinity /\ dmaUsed = 0
  /\ dataOn = FALSE /\ phaseOk = TRUE /\ clkOn = FALSE /\ resetOn = FALSE
  /\ pc = [t \in Tasks |-> "idle"]
  /\ api = [t \in Tasks |-> "none"]
  /\ ticks = [t \in Tasks |-> "bounded"]
  /\ err = [t \in Tasks |-> "OK"]
  /\ ret = [t \in Tasks |-> "OK"]
  /\ retries = [t \in Tasks |-> 0]
  /\ polls = [t \in Tasks |-> 0]
  /\ doAbort = [t \in Tasks |-> FALSE]
  /\ resets = [t \in Tasks |-> 0]

-----------------------------------------------------------------------------
Goto(t, to) == pc' = [pc EXCEPT ![t] = to]

Transition(t, from, to) == pc[t] = from /\ Goto(t, to)

\* Leaving a call: the result is handed over and the locals are gone.
Return(t, code) ==
  /\ Goto(t, "idle")
  /\ ret' = [ret EXCEPT ![t] = code]
  /\ err' = [err EXCEPT ![t] = "OK"]
  /\ retries' = [retries EXCEPT ![t] = 0]
  /\ polls' = [polls EXCEPT ![t] = 0]
  /\ doAbort' = [doAbort EXCEPT ![t] = FALSE]
  /\ resets' = [resets EXCEPT ![t] = 0]
  /\ UNCHANGED <<api, ticks>>

\* swd_off() on a setup failure; err is returned when it is done.
Abandon(t, code) ==
  /\ Goto(t, "offData")
  /\ err' = [err EXCEPT ![t] = code]

Enter(t, a) == Goto(t, IF a = "init" THEN "portPins" ELSE "bootPin")

(***************************************************************************)
(* swd_begin_session: the owner goes straight in, anybody else takes the   *)
(* mutex, waiting at most ticks_to_wait.                                   *)
(***************************************************************************)
BeginSession(t, a, wait) ==
  /\ pc[t] = "idle"
  /\ api' = [api EXCEPT ![t] = a]
  /\ ticks' = [ticks EXCEPT ![t] = wait]
  /\ IF holder = t THEN Enter(t, a) ELSE Goto(t, "take")
  /\ UNCHANGED <<holder, port, pins, ret, err, loop>>

\* Mutant: a failed xSemaphoreTake is taken for the lock.
TakeBusy(t) ==
  /\ pc[t] = "take"
  /\ holder' = t
  /\ Enter(t, api[t])
  /\ UNCHANGED <<port, pins, call, err, loop>>

Take(t) ==
  /\ pc[t] = "take" /\ holder = NoTask
  /\ holder' = t
  /\ Enter(t, api[t])
  /\ UNCHANGED <<port, pins, call, err, loop>>

TakeTimeout(t) ==
  /\ pc[t] = "take" /\ holder # NoTask /\ ticks[t] = "bounded"
  /\ Return(t, "TIMEOUT")
  /\ UNCHANGED <<holder, port, pins>>

(***************************************************************************)
(* swd_esp_port_init, run once: it loads the safe latch levels, configures *)
(* the pins, then allocates what the backend needs; a failure gives back   *)
(* what was allocated before it.                                           *)
(***************************************************************************)
PortPins(t) ==
  /\ pc[t] = "portPins"
  /\ \/ /\ inited
        /\ Goto(t, "setupData")
        /\ UNCHANGED <<err, pins>>
     \/ /\ ~inited
        /\ dataOn' = FALSE /\ clkOn' = FALSE /\ resetOn' = FALSE
        /\ UNCHANGED phaseOk
        /\ \/ /\ Goto(t, CASE backend = "gpio"   -> "portDone"
                           [] backend = "parlio" -> "portDma"
                           [] OTHER              -> "portAffinity")
              /\ UNCHANGED err
           \/ \E e \in PortErrors : Abandon(t, e)
  /\ UNCHANGED <<holder, port, call, loop>>

\* A bundle belongs to the CPU that creates it, so the caller must be pinned.
\* A pinned task runs on its core: the second test of the code cannot fail.
PortAffinity(t) ==
  /\ pc[t] = "portAffinity"
  /\ IF Affinity[t] = NoAffinity
       THEN Abandon(t, "INVALID_STATE")
       ELSE Goto(t, "portOut") /\ UNCHANGED err
  /\ UNCHANGED <<holder, port, pins, call, loop>>

\* Mutant: a failure keeps the bundles allocated before it.
DriverCallLeaks(t, from, got, to) ==
  /\ pc[t] = from
  /\ \/ /\ Goto(t, to)
        /\ bundles' = bundles \union got
        /\ UNCHANGED err
     \/ /\ \E e \in PortErrors : Abandon(t, e)
        /\ UNCHANGED bundles
  /\ UNCHANGED <<holder, backend, inited, bundleCore, dmaUsed, pins, call, loop>>

\* dedic_gpio_new_bundle and dedic_gpio_get_*_offset: one driver call that
\* allocates `got`, or fails and deletes the bundles allocated before it.
DriverCall(t, from, got, to) ==
  /\ pc[t] = from
  /\ \/ /\ Goto(t, to)
        /\ bundles' = bundles \union got
        /\ bundleCore' = IF "out" \in got THEN Affinity[t] ELSE bundleCore
        /\ UNCHANGED err
     \/ /\ \E e \in PortErrors : Abandon(t, e)
        /\ bundles' = {}
        /\ bundleCore' = NoAffinity
  /\ UNCHANGED <<holder, backend, inited, dmaUsed, pins, call, loop>>

PortOut(t)       == DriverCall(t, "portOut", {"out"}, "portOutOffset")
PortOutOffset(t) == DriverCall(t, "portOutOffset", {},
                               IF backend = "spi" THEN "portBackend" ELSE "portIn")
PortIn(t)        == DriverCall(t, "portIn", {"in"}, "portInOffset")
PortInOffset(t)  == DriverCall(t, "portInOffset", {}, "portDone")

\* swd_esp_spi_init, or what follows the channels in swd_esp_parlio_init: that
\* one returns without freeing them, and its next run takes another pair.
PortBackend(t)   == DriverCall(t, "portBackend", {}, "portDone")

PortDma(t) ==
  /\ pc[t] = "portDma"
  /\ \/ /\ dmaUsed < DmaPairs
        /\ dmaUsed' = dmaUsed + 1
        /\ Goto(t, "portBackend")
        /\ UNCHANGED err
     \/ /\ \E e \in PortErrors : Abandon(t, e)
        /\ UNCHANGED dmaUsed
  /\ UNCHANGED <<holder, backend, inited, bundles, bundleCore, pins, call, loop>>

PortDone(t) ==
  /\ Transition(t, "portDone", "setupData")
  /\ inited' = TRUE
  /\ UNCHANGED <<holder, backend, bundles, bundleCore, dmaUsed, pins, call, err, loop>>

(***************************************************************************)
(* The data translator.  GPIO writes and SPI transactions leave it as they *)
(* are told to.  In a PARLIO build /OE is a lane of the transmitter: a     *)
(* phase may time out and leave it as it was or at any word of the phase,  *)
(* and swd_esp_parlio_setup and swd_esp_parlio_off only log that; with the *)
(* bus in hand set-up plays no phase at all and only sets the idle level.  *)
(***************************************************************************)
DataWires(on) ==
  \/ dataOn' = on /\ phaseOk' = TRUE
  \/ backend = "parlio" /\ dataOn' \in BOOLEAN /\ phaseOk' = FALSE

\* A transfer that was answered OK has ended with the host driving SWDIO; one that
\* was not may have failed on the wire.
TransferDone   == dataOn' = TRUE /\ phaseOk' = TRUE
TransferFailed == DataWires(TRUE)

(***************************************************************************)
(* swd_esp_port_setup, run by DAP_Setup and again by PORT_SWD_SETUP with   *)
(* the same effect: the host drives SWDIO, then the clock is let through.  *)
(***************************************************************************)
SetupData(t) ==
  /\ Transition(t, "setupData", "setupClk")
  /\ DataWires(TRUE) /\ resetOn' = FALSE
  /\ UNCHANGED <<holder, port, clkOn, call, err, loop>>

SetupClk(t) ==
  /\ pc[t] = "setupClk"
  /\ clkOn' = TRUE
  /\ IF api[t] = "debug"
       THEN Goto(t, "link") /\ UNCHANGED <<call, err, loop>>
       ELSE Return(t, "OK")
  /\ UNCHANGED <<holder, port, dataOn, phaseOk, resetOn>>

(***************************************************************************)
(* swd_init_debug: up to MaxAttempts connection attempts, every one but    *)
(* the first after an ABORT write and a target reset.                      *)
(***************************************************************************)
BootPin(t) ==
  /\ pc[t] = "bootPin"
  /\ \/ /\ Goto(t, "top")
        /\ retries' = [retries EXCEPT ![t] = MaxAttempts]
        /\ doAbort' = [doAbort EXCEPT ![t] = FALSE]
        /\ resets' = [resets EXCEPT ![t] = 0]
        /\ UNCHANGED err
     \/ /\ \E e \in PortErrors : Abandon(t, e)
        /\ UNCHANGED <<retries, doAbort, resets>>
  /\ UNCHANGED <<holder, port, pins, call, polls>>

\* The result of the ABORT write is dropped; nRESET goes low for 20 ms.
LoopTop(t) ==
  /\ pc[t] = "top"
  /\ IF doAbort[t]
       THEN /\ TransferFailed /\ resetOn' = TRUE
            /\ resets' = [resets EXCEPT ![t] = @ + 1]
            /\ Goto(t, "resetLow")
       ELSE /\ Goto(t, "portPins")
            /\ UNCHANGED <<dataOn, phaseOk, resetOn, resets>>
  /\ UNCHANGED <<holder, port, clkOn, call, err, retries, polls, doAbort>>

ResetRelease(t) ==
  /\ Transition(t, "resetLow", "portPins")
  /\ resetOn' = FALSE
  /\ doAbort' = [doAbort EXCEPT ![t] = FALSE]
  /\ UNCHANGED <<holder, port, dataOn, phaseOk, clkOn, call, err, retries, polls, resets>>

\* Mutant: the next attempt starts without the abort and the reset.
AttemptFailsNoAbort(t, code) ==
  /\ err' = [err EXCEPT ![t] = code]
  /\ retries' = [retries EXCEPT ![t] = @ - 1]
  /\ Goto(t, IF retries[t] = 1 THEN "offData" ELSE "top")
  /\ UNCHANGED <<doAbort, resets>>

\* do_abort = 1; continue: the loop condition decrements retries.
AttemptFails(t, code) ==
  /\ err' = [err EXCEPT ![t] = code]
  /\ doAbort' = [doAbort EXCEPT ![t] = TRUE]
  /\ retries' = [retries EXCEPT ![t] = @ - 1]
  /\ Goto(t, IF retries[t] = 1 THEN "offData" ELSE "top")
  /\ UNCHANGED resets

NextStage == [link |-> "clear", clear |-> "select", select |-> "power",
              power |-> "poll", trn |-> "unselect"]

\* JTAG2SWD, swd_clear_errors and the four writes: one transfer (or a line
\* reset and the IDCODE read) each, that succeeds or ends the attempt.
LinkStage(t) ==
  /\ pc[t] \in DOMAIN NextStage
  /\ \/ /\ Goto(t, NextStage[pc[t]]) /\ TransferDone
        /\ UNCHANGED <<err, retries, doAbort, resets>>
     \/ TransferFailed /\ \E e \in Failures : AttemptFails(t, e)
  /\ polls' = [polls EXCEPT ![t] = 0]
  /\ UNCHANGED <<holder, port, clkOn, resetOn, call>>

\* Mutant: a poll that never gives up.
PowerPollForever(t) ==
  /\ pc[t] = "poll"
  /\ polls' = [polls EXCEPT ![t] = 1 - @]
  /\ UNCHANGED <<holder, port, pins, pc, call, err, retries, doAbort, resets>>

PowerPoll(t) ==
  /\ pc[t] = "poll"
  /\ \/ /\ Goto(t, "trn") /\ TransferDone              \* both ACK bits are set
        /\ UNCHANGED <<err, loop>>
     \/ /\ polls' = [polls EXCEPT ![t] = @ + 1]         \* not powered up yet
        /\ TransferDone
        /\ IF polls[t] + 1 = PollLimit
             THEN AttemptFails(t, "TIMEOUT")
             ELSE Goto(t, "poll") /\ UNCHANGED <<err, retries, doAbort, resets>>
     \/ /\ \E e \in Failures : AttemptFails(t, e)      \* the read failed
        /\ TransferFailed /\ UNCHANGED polls
  /\ UNCHANGED <<holder, port, clkOn, resetOn, call>>

Unselect(t) ==
  /\ pc[t] = "unselect"
  /\ \/ Return(t, "OK") /\ TransferDone
     \/ /\ \E e \in Failures : AttemptFails(t, e)
        /\ TransferFailed /\ UNCHANGED <<call, polls>>
  /\ UNCHANGED <<holder, port, clkOn, resetOn, api, ticks>>

(***************************************************************************)
(* swd_off, called by the application or on a failure, and the calls that  *)
(* share its pins: DAP_Disconnect runs PORT_OFF and keeps the lock.        *)
(***************************************************************************)
\* Mutant: swd_off does not ask who holds the lock.
OffCallUnchecked(t) ==
  /\ pc[t] = "idle"
  /\ api' = [api EXCEPT ![t] = "off"]
  /\ Goto(t, "offData")
  /\ UNCHANGED <<holder, port, pins, ticks, ret, err, loop>>

OffCall(t) ==
  /\ pc[t] = "idle"
  /\ api' = [api EXCEPT ![t] = "off"]
  /\ IF holder = t
       THEN Goto(t, "offData") /\ UNCHANGED ret
       ELSE UNCHANGED pc /\ ret' = [ret EXCEPT ![t] = "INVALID_STATE"]
  /\ UNCHANGED <<holder, port, pins, ticks, err, loop>>

\* Mutant: swd_esp_port_off leaves the clock translator on.
OffDataOnly(t) ==
  /\ Transition(t, "offData", "give")
  /\ DataWires(FALSE)
  /\ UNCHANGED <<holder, port, clkOn, resetOn, call, err, loop>>

OffData(t) ==
  /\ pc[t] = "offData"
  /\ IF inited
       THEN DataWires(FALSE) /\ Goto(t, "offClk")
       ELSE UNCHANGED <<dataOn, phaseOk>> /\ Goto(t, "give")
  /\ UNCHANGED <<holder, port, clkOn, resetOn, call, err, loop>>

OffClk(t) ==
  /\ pc[t] = "offClk"
  /\ clkOn' = FALSE /\ resetOn' = FALSE
  /\ IF api[t] = "disconnect"
       THEN Return(t, "OK")
       ELSE Goto(t, "give") /\ UNCHANGED <<call, err, loop>>
  /\ UNCHANGED <<holder, port, dataOn, phaseOk>>

\* Mutant: a failed start returns the ESP_OK of its swd_off.
GiveOffResult(t) ==
  /\ pc[t] = "give"
  /\ holder' = NoTask
  /\ Return(t, "OK")
  /\ UNCHANGED <<port, pins>>

Give(t) ==
  /\ pc[t] = "give"
  /\ holder' = NoTask
  /\ Return(t, IF api[t] = "off" THEN "OK" ELSE err[t])
  /\ UNCHANGED <<port, pins>>

\* "All operations must run in the owning task": swd_host.h's contract is the
\* guard holder = t of the calls that do not test it themselves.
OwnerCall(t, a, to) ==
  /\ pc[t] = "idle" /\ holder = t
  /\ api' = [api EXCEPT ![t] = a]
  /\ Goto(t, to)
  /\ UNCHANGED <<holder, port, pins, ticks, ret, err, loop>>

DapConnect(t)    == OwnerCall(t, "connect", "setupData")
DapDisconnect(t) == OwnerCall(t, "disconnect", "offData")

TriggerNrst(t) ==
  /\ pc[t] = "idle" /\ holder = t
  /\ api' = [api EXCEPT ![t] = "nrst"]
  /\ resetOn' = TRUE
  /\ Goto(t, "nrstLow")
  /\ UNCHANGED <<holder, port, dataOn, phaseOk, clkOn, ticks, ret, err, loop>>

NrstRelease(t) ==
  /\ pc[t] = "nrstLow"
  /\ resetOn' = FALSE
  /\ Return(t, "OK")
  /\ UNCHANGED <<holder, port, dataOn, phaseOk, clkOn>>

-----------------------------------------------------------------------------
\* A task inside a call runs on; an idle one may start a call.
PortInit(t) == \/ PortPins(t) \/ PortAffinity(t) \/ PortOut(t) \/ PortOutOffset(t)
               \/ PortIn(t) \/ PortInOffset(t) \/ PortDma(t) \/ PortBackend(t) \/ PortDone(t)
Connect(t)  == \/ BootPin(t) \/ LoopTop(t) \/ ResetRelease(t)
               \/ LinkStage(t) \/ PowerPoll(t) \/ Unselect(t)
Run(t)      == \/ Take(t) \/ TakeTimeout(t) \/ PortInit(t)
               \/ SetupData(t) \/ SetupClk(t) \/ Connect(t)
               \/ OffData(t) \/ OffClk(t) \/ Give(t) \/ NrstRelease(t)
Start(t)    == \/ \E a \in {"init", "debug"}, wait \in {"bounded", "forever"} :
                    BeginSession(t, a, wait)
               \/ OffCall(t) \/ DapConnect(t) \/ DapDisconnect(t) \/ TriggerNrst(t)

Next == \E t \in Tasks : Run(t) \/ Start(t)

\* FreeRTOS runs every ready task in the end; nothing makes a task call.
Fairness == \A t \in Tasks : WF_vars(Run(t))

Spec == Init /\ [][Next]_vars /\ Fairness

-----------------------------------------------------------------------------
\* Whenever no task holds swd_lock, reset is released, the clock translator is
\* isolated, and so is the data translator unless a PARLIO phase that was to
\* isolate it has failed: swd_off and every failure path disconnect before they
\* give.
FreeBusIsolated == holder = NoTask => ~Driven

\* swd_host.h 53-65: a start call returns ESP_OK with the session owned and the
\* wires connected, or an error (lock timeout, setup failure, exhausted
\* retries) without the session, also when the caller had one before.  The data
\* wire of swd_init is left out when the set-up phase of a PARLIO build failed;
\* swd_init_debug has made transfers over it by then.
ReturnContract ==
  \A t \in Tasks :
    pc[t] = "idle" /\ api[t] \in {"init", "debug"} =>
      IF ret[t] = "OK" THEN /\ holder = t /\ inited /\ clkOn
                            /\ dataOn \/ (api[t] = "init" /\ ~phaseOk)
                       ELSE holder # t

\* A failed swd_esp_port_init leaves no GPIO bundle allocated and a completed
\* one exactly those its backend needs, so the next session neither leaks one
\* nor uses a deleted one.
ResourcesMatchPort ==
  (\A t \in Tasks : pc[t] \notin PortSteps) =>
    bundles = IF inited THEN Resources ELSE {}

\* Every connection attempt but the first starts from a target that was
\* aborted and reset since the failure, and the reset is over by then.
AttemptsStartFromReset ==
  \A t \in Tasks : pc[t] \in Stages =>
    resets[t] = MaxAttempts - retries[t] /\ ~resetOn

\* No step of a task that does not hold the lock moves a pin or the port state
\* of the session another task has: a lock timeout or a stray swd_off leaves
\* the other session untouched.
OnlyHolderTouchesBus ==
  [][\A t \in Tasks : holder # t /\ (Run(t) \/ Start(t)) =>
        UNCHANGED <<port, pins>>]_vars

\* Any call that does not ask to wait forever for the lock returns: the retry
\* and poll loops are bounded and no failure path loops or blocks.
CallReturns ==
  \A t \in Tasks : (pc[t] # "idle" /\ ticks[t] = "bounded") ~> (pc[t] = "idle")

Lease == INSTANCE BusLease WITH owner <- holder, driven <- Driven

\* The session layer implements the bus lease: whoever releases it has isolated the
\* wires before, but for a data translator whose PARLIO phase failed.
LeaseSpec == Lease!Spec

\* README 339-340: a caller that is not pinned is rejected when the wires are
\* on dedicated GPIO.
UnpinnedRejected ==
  \A t \in Tasks :
    pc[t] = "idle" /\ api[t] \in {"init", "debug"} /\ ret[t] = "OK" =>
      Affinity[t] # NoAffinity
=============================================================================
