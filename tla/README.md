# swd-esp in TLA+

A verification development for the SWD host of this repository: an ESP32
component that drives the SWD port of an ARM target through a bus translator,
for an application (`interface/swd_host.c`) and for a CMSIS-DAP debugger
(`cmsis_dap/`).  Line numbers below are those of `src/`.

## The system

| Component | State | Operations | Hard part |
|---|---|---|---|
| Session layer (`swd_host.c` 46-539, 1345-1487) | `swd_lock`, `swd_port_initialized`, bundles, GDMA pair, translator pins | `swd_init`, `swd_init_debug`, `swd_off`, `swd_trigger_nrst` | tasks racing for the bus; initialisation that fails half way; four connection attempts; leaving the wires isolated |
| DP/AP access (`swd_host.c` 407-840) | `dap_state.select`, `dap_state.csw` | `swd_read/write_dp`, `_ap`, `swd_transfer_retry`, `swd_clear_errors` | cached registers that must stay those of the target over failures; posted writes and reads |
| Target memory (`swd_host.c` 681-1019) | loop variables | `swd_read/write_memory`, `_word`, `_byte`, blocks | alignment, auto-increment pages, partial completion |
| SWDIO ownership and bit engine (`SW_DP.c`, `DAP_config.h`) | SWCLK, SWDIO latch and pad, `/OE`, `DIR1` | `SWD_Transfer`, `SWJ_Sequence`, handoffs, port set-up and port-off | one driver at a time; no stray clock edge; every turnaround, answer and data phase |
| CMSIS-DAP commands (`DAP.c`) | `DAP_Data`, `DAP_TransferAbort` | `DAP_Connect` ... `DAP_ExecuteCommand` | the read pipeline of `DAP_Transfer`; retries; abort from another task; request parsing |
| Core registers and flash calls (`swd_host.c` 1022-1250, 1489-1564) | target core | `swd_write_debug_state`, `swd_wait_until_halted`, `swd_flash_syscall_*` | a core that does not halt; calls between start and result |
| Response queue (`DAP_queue.c`) | ring of slots, two indices, two counts | `DAP_queue_execute_buf`, `DAP_queue_get_send_buf` | a slot that counts as free while it is being sent; wrap-around |
| SPI engine (`SW_DP_SPI.c`) | SPI controller, idle level of its data line | `swd_esp_spi_transfer`, sequences, set-up, off | ACK, data and parity cut out of two receptions, at two alignments; the level before the first bit |
| PARLIO engine (`SW_DP_PARLIO.c`) | transmitter, receiver, two phase buffers, `host_owns_bus` | `swd_esp_parlio_transfer`, sequences, `_setup`, `_off` | CPU and DMA work at the same time; a phase may be given up at any word |
| Performance counters, build configuration, host tests | | | observe only, or give constants their values |

The application calls the session layer, then the memory and register calls;
they, and the CMSIS-DAP command handlers, call `SWD_Transfer`, which one of the
wire engines carries out: pin writes (GPIO and dedicated GPIO), SPI
transactions or PARLIO phases.  Only the session layer locks: the other calls
rely on the contract of `swd_host.h` 52-86, that the task which owns the
session makes them.  `DAP_TransferAbort` is the one variable another task may
write at any time.

## Modules

| Module | Models | Composition |
|---|---|---|
| `BusLease` | what the session layer promises: one lessee, wires driven only under a lease | abstract |
| `SwdSession` | session layer, one `pc` per task | implements `BusLease` |
| `MemAp` | the MEM-AP of the target (external) | operators |
| `SwdMemory` | DP/AP access and memory calls against `MemAp` | extends `MemAp` |
| `BusTurns` | one driver on SWDIO, released between two | abstract |
| `SwdioBus` | single pin writes of the GPIO backends and the target that counts clock edges (external) | implements `BusTurns` |
| `SwdTarget` | the target of the two burst engines (external): edge count, ACK, data | operators |
| `ParlioBus` | PARLIO engine: CPU and DMA as two actors, phase by phase and word by word | extends `SwdTarget`, implements `BusTurns` |
| `SpiBus` | SPI engine: transactions clock by clock | extends `SwdTarget`, implements `BusTurns` |
| `DapTransfer` | the access commands of a CMSIS-DAP debugger and an abort from another task | |
| `DapCommands` | every other command as a function: effect on `DAP_Data`, answer, bytes consumed | operators |
| `DapService` | what a CMSIS-DAP client may rely on: each request answered once, in order, by its own commands run in turn | abstract, extends `DapCommands` |
| `DapServer` | response queue and `DAP_ExecuteCommand` | extends `DapCommands`, implements `DapService` |
| `FlashSyscall` | core registers, halting and the three flash calls against a core that runs on its own (external) | |
| `MC*` | instances for TLC | |
| `*_proofs` | theorems checked by TLAPS | |

### SwdSession

`pc[t]` is the statement task `t` runs next, and every statement that changes
shared state is an action: `Take` and `TakeTimeout` are the two ends of
`xSemaphoreTake`, `PortPins` ... `PortDone` the driver calls of
`swd_esp_port_init`, each of which may fail and then gives back the bundles
allocated before it, `SetupData` and `SetupClk` the two groups of pin writes of
`swd_esp_port_setup`, `BootPin` ... `Unselect` the statements of
`swd_init_debug`, `OffData`, `OffClk` and `Give` those of `swd_off`.  The wires
are three booleans: data translator on, clock translator on, reset asserted.  The
data translator of a PARLIO build is a lane of the transmitter: `DataWires` leaves it
either way when the phase that was to set it has failed, which
`swd_esp_parlio_setup` and `swd_esp_parlio_off` only log and the session never learns
(`phaseOk` is the history of it); a transfer of `swd_init_debug` that is answered OK
has set it again (`TransferDone`).  What the session claims of its wires is
therefore claimed of reset and the clock translator always, and of the data translator
when its phase was played (`Driven`, `ReturnContract`).
`swd_init` runs `swd_esp_port_setup` twice (from `DAP_Setup` and from
`PORT_SWD_SETUP`); the second run writes the same values and is not a step of
its own.  A call whose transfers fail takes any of `LinkErrors`.

Abstracted: the transfers of a connection attempt (one step per stage, it
succeeds or fails), those the owner makes between two of the calls above (whatever
they leave on the data lanes, `swd_esp_parlio_off` plays a phase of its own), delays, the BOOT pin's level.  `backend` is the wire engine
the build was configured for: any of `Backends` at first, and the same for the
whole of a behaviour.  Each has its own driver calls in `swd_esp_port_init`, its own
bundles, and PARLIO the GDMA pair that a failed initialisation keeps.  `OwnerCall` has the contract
of `swd_host.h` as its guard, because `DAP_Connect`, `DAP_Disconnect` and
`swd_trigger_nrst` do not test the owner themselves.

### SwdMemory

One step is one `swd_transfer_retry`.  It succeeds, it is refused (100 WAITs, a
FAULT, no ACK; the target did nothing), or it is garbled: the target did it and
the host got an error.  Garbled writes happen only with the PARLIO engine (a
phase that fails after the write) and are switched by `GarbledWrites`.  Posted
writes may hit a bus error that sets the sticky flag, and every later AP
transfer is refused until `ClearErrors` or `Connect`.  `NextChunk` is the loop
of `swd_read_memory` and `swd_write_memory` (bytes to a boundary, words to the
end of the page, the last bytes); `SelectBank0`, `WriteCsw`, `CswDone`,
`WriteTar`, `DrwWrite`, `DrwRead`, `Flush` are the transfers of one byte or block
access.  `TargetReset` is what may happen to the target between sessions.

Memory holds, at each address, its own address until a call writes it, and then
the position in the caller's buffer: a byte that is lost, doubled, shifted or
written next to its place is visible.  `torn` is a history flag: the target took
a SELECT or CSW value and the host was told that the write failed.

### SwdioBus

One step is one pin write.  `at` is the place in the bit, in the handoff or in
the port-off, `phase` and `n` the part of the transfer and the bits left in it.
The target counts rising edges from the start bit, drives ACK and read data at
its edges, may ignore a request, and answers OK, WAIT or FAULT; the host may
misread an ACK.  DIR2 is constant and the input buffer of the pad is not
modelled.  The delays of the turnaround guard have no clock here: what is shown
is the order of the writes.

### SwdTarget, ParlioBus, SpiBus

The two burst engines share a target, which counts rising edges of SWCLK from
the start bit.  The line carries labels: what the target drives is named by the
edge it is driven before, and write data by its position, so that a bit taken at
the wrong edge is visible in the value it ends up in.  The target is configured
with the turnaround and data phase of the host, it may ignore a request or
answer OK, WAIT or FAULT.  A phase broken off half way leaves it where it was, and
driving SWDIO if it did: it is `lost` to the host, and `stray` says whether it
drives.  At each later edge it may begin or cease to drive, until the next line reset.

`ParlioBus` has two actors.  The CPU takes one step per statement of a phase:
`HostBits` and `TargetBits` prepare a buffer and choose the direction, `AcquirePad`
and `Release` are the two writes to the pad, `Start` starts the transmitter (and
the receiver), `PrepareAhead` fills the other buffer while the ACK plays, `Wait`,
`Timeout` and `Finish` end the phase, `NextPhase` is the control flow of
`swd_esp_parlio_transfer`.  The DMA (`Play`, `PlayEnds`) puts one word after
another on the lanes: data, `/OE`, `DIR1` and the clock gate.  `Timeout` may come
at any word, and also after the phase has ended, for the code reads the status
before the clock.  `swd_parlio_abort` stops the transmitter and gives the lanes no word:
they hold the one they show, or the transmitter falls back to its idle word.  The
repository does not say which, so `Aborts` allows both, and `held` is the history of the
first until a word is played.  While it is held the lanes do not follow a new idle word
for certain either (`SetIdle`).  The receiver may store its samples late, or report an
error.

`SpiBus` has one: a transaction is `Turn` (the handoff of `SW_DP.c` before it),
`Start` (the level of the data line is set and CS0 enables the translator),
`Clock` for each clock, and `Finish`.  `AckShift`, `PrefixCount`, `ParityShift`
and `ReadValue` are the arithmetic by which `swd_esp_spi_transfer` finds its bits.
The controller is waited for without a deadline, so that only safety is stated.

Abstracted: read data and parity are compared by label instead of computed;
descriptors, cache maintenance and peripheral registers; the debug capture of
the SPI engine; the loop of guard words (they fit: a phase has at most 352 bits,
65 words lead it and the buffer has 512).  A buffer that
has been played is blank.  Sequences are sent whether the port is set up or off, for
neither `DAP.c` nor the engines look; a transfer needs a port.  `DIR1` and `/OE` belong to
the lanes in a PARLIO build, so that the handoffs of `SW_DP.c`
(`OutDisable`, `OutEnable`) change only the pad there.

### DapTransfer

One step is one `SWD_Transfer`, or the reading of one request.  `pc` names the
transfer that `DAP_SWD_Transfer` makes next: `pipe`, `fetch`, `post`, `read`,
`matchPost`, `match` and `write` in the loop over the requests, `lastFetch` and
`checkWrite` after it, `block...` those of `DAP_SWD_TransferBlock`; `i`, `retry`,
`mretry`, `post` and `check` are its locals.  `SWD_Transfer(from, ...)` is one
round of the retry loop that the code writes out at each of these places.
`SetAbort` is the transport, which may set `DAP_TransferAbort` between any two
steps.  Data are names: an access the target makes for request `j` delivers `j`,
so that a value stored twice, lost or belonging to another request is visible.
The target posts AP accesses, and a bus error sets its sticky flag, with which
it refuses everything but a read of CTRL/STAT (`dpRead`) and an ABORT write.
`Respond` sends the response; `log` is the history of the accesses made.

Abstracted: time stamps (four more bytes of a response), values and masks (a
match succeeds or not), the answers to `DAP_Transfer` without a port, and the
MISMATCH bit beside another error, which the code takes from a value it may not
have read.

### DapCommands, DapService, DapServer

A command is its name and its parameters.  `Effect` is what it leaves in
`DAP_Data`, `Answer` what kind of answer it gives, `Consumed` the bytes of the
request it reports, translated from the arithmetic of `DAP.c`; `Bytes` are the
bytes the client really wrote (external).  `DAP_ExecuteCommand` finds the next
command behind the bytes the one before has reported, and so does
`DAP_ProcessCommand` here: when `cursor` is not where a command starts, the
answer is `"garbage"`.

`DapServer` follows a request from the transport (`pending`) through
`DAP_queue_execute_buf` (it takes a slot), its commands one by one, `Executed`
(the slot is ready) and `DAP_queue_get_send_buf` (the slot counts as free and is
being sent) to the client (`Sent`).  The refinement maps the request that runs
and those in front of the queue to `waiting`, the slot being sent and those
behind it to `ready`, and `before`, `DAP_Data` as it was when the running request
began, to `conf`: a request takes effect at once.

Nothing in the repository calls the queue.  What the model assumes of its user
is what the code needs: both functions are called by one task (they share two
counters), a client has no more requests under way than `DAP_Info` reported
packets, and a response fits in a packet.  Another client follows the one that has
all its answers.

### FlashSyscall

One step is one access to a debug register of the core: it is done, it failed, or
it was done and reported as failed.  `select` ... `regrdy` are the four accesses
of `swd_write_debug_state` and `swd_write_core_register`, for each of the nine
registers of `Order`; `halt` and `unhalt` are the two DHCSR writes that mask
the interrupts and let the core run; `poll` is the loop of
`swd_wait_until_halted`, and `DeadlinePasses` its timer; `rsel`, `rrdy`, `rdata`
read R0; `unmask` and `diag` end `swd_flash_syscall_exec` and
`swd_flash_syscall_wait_result`.  `kind` says which call it is.

The core halts by itself, at the breakpoint the function returns to or at
another (`Breakpoint`), or because C_HALT is set (`Stop`), at any time or never.
A register transfer of a running core does nothing, and S_REGRDY is then
unknown; a write that changes C_MASKINTS in a running core may or may not take
effect, as the architecture leaves it open.  `own` is the set of registers that
hold the values of the call, so that `run` tells a core that runs the whole
call from one that runs on with some of its registers.  `clean`, `started` and
`r0own` are history: the core was halted when the call began, the last
`exec_async` returned `ESP_OK`, R0 is the result of that function.

Abstracted: register values (of this call or not), the return value (good or bad
for its type); a halted core has done a register transfer when DCRSR is
written and only S_REGRDY may lag; the three register reads for the log are one
step; `swd_read_core_register` is modelled for R0.  The stages of the target reset
belong to `SwdSession`.

## Runs

| Run | Bounds | Shows |
|---|---|---|
| `session` | 2 tasks, one of them unpinned, the four backends, `MaxAttempts` 4 as in the code, `PollLimit` 2, 2 GDMA pairs | every invariant of the session layer, that it implements `BusLease`, and that calls return; a data translator whose PARLIO phase failed is excepted from what is said of the wires |
| `session_unpinned` | one backend, `MaxAttempts` 2 | finding: an unpinned task gets a session |
| `memory` | 20 bytes, page of 8, calls of 0, 1, 4, 11, 15 bytes | what a memory call reports is what it did |
| `memory_stale` | short calls, no garbled writes | finding: a stale CSW makes a byte write store a word |
| `bus` | turnaround 1..4, idle cycles 0..2, 33 data bits | pins, edges and handoffs of every transfer |
| `parlio` | turnaround 1, 2, 4, idle cycles 0 and 3, 5 data bits, phases of 2 bits, sequences of 3 | the PARLIO engine with a timeout, an abort or a receive error anywhere: no word that is played or idle drives the translator against the pad, no overwritten phase, OK is exact, the target keeps in step, and host and target take turns until a phase fails in the middle of a transfer and again from the next line reset |
| `parlio_off` | one bit of everything | finding: the pad stays driven after the port is off |
| `spi` | turnaround 1..4, both alignments, idle cycles 0 and 12, 7 data bits, phases of 11, sequences of 13 | the SPI engine: bits where they belong, levels and pad as the phase means |
| `dap` | every list of up to 3 requests of 7 kinds, every block of up to 3, retry limits 0 and 1 | what a response says is what was done and its data are those of the reads |
| `dap_consumed` | single requests | finding: a request that fails makes the command report more bytes than it has |
| `server` | 2 packets, 4 requests of a client, five batches with every command, two clocks | requests are answered once and in order by their own commands; SWCLK is not too fast |
| `syscall` | `PollLimit` 3, the nine registers of the code | what ESP_OK of a flash call says about the core and the result |

The bounds: the locks and ports of two tasks show every conflict of owner and
stranger; a poll limit of 2 has a first, a last and a failed poll; two GDMA pairs
let one failed PARLIO initialisation be repaired by the next and a second exhaust
the chip.  A call of 15 bytes from address 3
takes a byte, a block to the end of the page, a block of two words on the next
page and bytes at the end, and memory beyond the call shows stray writes.  The `bus` run
has the code's own numbers.  In `parlio` and `spi` the phases are shorter than in
the code, in the same relations: idle cycles and sequences that need a
second phase with a part of one left over, data bits that do not, read data
of which a turnaround's worth arrives with the ACK and more remains; the places of
the bits are those of the code because every turnaround occurs.  Three requests of
`dap` are a read in the pipeline, what ends it and what comes after; a limit of 1
has a retry and a last one.  With two packets the ring of `server` wraps at every other request,
and four requests fill it twice; every command occurs in a batch in front of
one whose answer shows whether it was found.  Its clock (half a period is at most
13 cycles, a write takes 2) has frequencies that divide it, that do not, and
that are too fast to be delayed.

Fairness: `SwdSession` assumes that a task inside a call runs on
(`WF_vars(Run(t))` for each task, as FreeRTOS schedules ready tasks); nothing
makes a task start a call.  The mutex is not assumed to be fair: `CallReturns`
speaks only of calls that do not wait forever.  `SwdMemory` assumes that the
call in progress goes on, `DapTransfer` the same of the command task; there the
abort never comes or comes at any time.  `FlashSyscall` assumes that the call goes
on and that time passes (`WF_vars(DeadlinePasses)`), nothing of the core, which may
run for ever.  `ParlioBus` assumes it of the CPU only (`WF_vars(Cpu)`): its calls
return although the DMA may stop at any word, because a deadline ends every wait.
`DapServer` assumes that the task which serves the queue runs and that the
transport takes and sends what is ready.  `SwdioBus` and `SpiBus` have only
safety properties; the second waits for its controller without a deadline, and
nothing in the code justifies more.

`CHECK_DEADLOCK` is never switched off.

## Proofs

For every value of the constants allowed by the `ASSUME`s:

* `SwdSession_proofs`: type correctness, `FreeBusIsolated`, `ReturnContract`,
  `ResourcesMatchPort`, `AttemptsStartFromReset`, `OnlyHolderTouchesBus`, and
  that `SwdSession` implements `BusLease`.  The invariants say what holds while
  no task is inside a call, so the inductive one adds what each `pc` implies:
  who holds the lock there, whether the port is initialised, which wires are on
  and which bundles exist at each driver call.  `FreeBusIsolated`, `ReturnContract`
  and the lease say nothing of a data translator whose PARLIO phase has failed, for
  the code does not guarantee it (findings 5 and 6).
* `SwdMemory_proofs`: type correctness, `CacheCoherent`, `AccessAsMeant`,
  `BlockInPage`, `OkWriteIsExact`, `OkReadIsExact`, `PartialWrite`, for every page
  size that is a multiple of four and every call.  The inductive invariant relates
  TAR to the loop's place (`tar` is the page offset of the next word) and memory to
  the bytes written so far, one word further while a posted write is on its way.
  For reads it relates the buffer to the bytes read so far and RDBUFF to the word
  the next transfer returns.  `OkReadIsExact` speaks of the addresses there are:
  the bytes of a word read beyond the last one are whatever the target answers.
* `DapTransfer_proofs`: type correctness, `OnceInOrder`, `NothingBeyond`,
  `ReadsInOrder` and `OkAllDone`, for any lists of requests, any retry counts and
  any answers of the target.  The inductive invariant has four parts beside the
  types and places.  `CountInv`: what the response counts is every request before
  the one in hand.  `LogInv`: the target is ahead of the count by the posted
  access only.  `DataInv`: the values stored are those of the reads counted but for
  the posted one, and that one is what RDBUFF holds, unless a sticky error has
  come.  `DoneInv`: a request that is counted and not done has left a sticky error
  the host will meet, or is a posted write nobody has asked about yet (`Lost`,
  `Hidden`); this is what becomes of it when OK is answered.
* `SwdioBus_proofs`: type correctness, `PadMatchesTranslator`, `NoBusClash`,
  `IsolatedClockLow`, `BitsAligned`, `InSync`, `DirOnlyIsolated`, `StaysInStep`,
  and that the pins implement `BusTurns`, for every turnaround, idle count and
  data length.  The inductive invariant `IInv` has the place of the pins at every
  step of a handoff (`Placed`, `PinsPlaced`) and `InStep`: host and target agree
  on the edges that are left, for each phase and answer.
* `SpiBus_proofs`: type correctness, `OkIsExact`, `WireIsMeant`, `InStep`, and that
  the wire implements `BusTurns`, for either sampling alignment and any turnarounds
  and lengths with which an answer and a data phase fit into one transaction
  (`SpiAssumption`; in the code the turnaround is 1..4 and data have 33 bits).  The heart of the inductive invariant is `EdgeInv`: the clocks made in
  the transactions of a phase and the edges the target has counted are the same
  number from the base edge of the phase on (`Follows`), until the edge at which the
  target's transfer ends (`End`, which depends on the answer and on `dataPhase`).
  The samples are then named by their edges (`SampleInv`), and `ExactInv` keeps what
  the phases of a transfer have established until the call returns.  `CountInv`
  says that answer and data are one transaction each, which is why the first level
  of a phase may be set before its clock (`WireInv`).
* `ParlioBus_proofs`: type correctness, `NoContention`, `NoOverwrite`, `OkIsExact`,
  `InStep`, and that the wire implements `BusTurns`, for any turnarounds and any
  lengths of phases and guards.  There are two invariants.  `IInv` says that the
  lanes show a word of the phase that plays or the idle word of the last one, unless
  an aborted phase has left one of its own (`LanesInv`, `held`; so they
  point towards the ESP only in a phase of the target), which phase lies in which
  buffer from its preparation to its end, the next one always in the other
  (`StepPhase`, `Prepared`), and that the pad is released before the target's turn
  (`PadInv`).  `NoContention` is about pad and translator only, and excepts the word an
  aborted phase left (finding 7); that the wire implements `BusTurns` is about
  translator and target, and holds until a phase fails in the middle of a transfer and
  again from the next line reset: a target that was cut off may drive
  at any time in between, and no order of the host's writes can prevent a
  clash.  `Second` rests on `IInv` and relates the position of the DMA in the
  buffer to the edges of the target, as in `SpiBus`.  It needs `BufInv` (the buffer
  that plays holds the phase the CPU is at, although it was filled while the one
  before played) and `PosInv` (the DMA has stopped whenever the CPU is
  not waiting for it, also after the CPU has given up and aborted it).
* `DapServer_proofs`: type correctness, `ClockNotExceeded`, that the queue never
  refuses a client that keeps to the reported packets, that nobody writes to the
  slot being sent, and that `DapServer` implements `DapService`
  (`ServiceImplemented`).  For any packet count, batches of any length, CPU clock,
  cost of a pin write and frequency.  `RingInv` counts the slots: free, ready and
  the one being filled are all there are, they lie behind one another, the one
  being sent lies before them, and every request under way is in one of them or
  with the transport.  `ExecInv` says what has been done of the batch that runs:
  DAP_Data, the cursor and the answers are those of the commands run so far.  The
  recursive functions behind it (`Along`, `Ends`) are shown to exist with a lemma
  (`Inductive`) that stands in for induction over the naturals: a set that holds 0
  and the successor of each member below n holds n, because the successor would
  otherwise be an injection of a finite set into itself that misses 0.  That
  `cursor` finds every command rests on `ConsumesWhole`: the bytes each command
  says it has consumed are those the client has put into it, for commands that
  come with their parameters (`BatchAssumption`).  Steps map to stutters
  but for the last one of a batch (`Serve`), the end of a transmission (`Deliver`)
  and the client's request (`Ask`).
* `FlashSyscall_proofs`: type correctness, `RunsWhole`, `OwnResult`,
  `HaltedAfterOk` and `MaskChangesHalted`, for every poll limit; all but
  `HaltedAfterOk` speak of calls that began with a halted core (`clean`).  The inductive
  invariant says which steps each kind of call goes through (`KindInv`), that
  the registers before `idx` are those of the call and the core is halted while
  they are written (`Prepared`), what a halted core has run once the wait is
  over (`Ran`), and what DCRDR holds while R0 is read back (`ReadBack`).

Some theorems have no run of their own, because a run's properties have to be
worth their time: type correctness, `FreeBusIsolated`, `BlockInPage`,
`NoBusClash`, `IsolatedClockLow` and `StaysInStep`.

The SMT encoding of tlapm 1.4.5 takes the domain of every value for `1..Len` of it,
also that of a function on `{0, 1}` such as `buf`, so that a leaf which cites both
`Len` and such a function may be proved from a contradiction.  All proofs have also
been checked with that axiom weakened to what is true (a value whose domain is `1..n`
has length `n`); the leaves that rested on it cite what they need instead.

Left to TLC: liveness (`CallReturns`, `CommandReturns`, `EveryAnswered`), which is
out of reach of the provers, and the runs that end in a violation.  Every other
property of a passing run is the statement of a theorem.

## Findings

The first four have a run that ends in the violation.  The last three are the exceptions
in properties that are checked and proved; TLC shows each when the exception is taken out
of its definition.

1. `swd_host.c` 653-673: `dap_state.csw` is updated after the completion read of
   the CSW write, so a failed completion read leaves a size the target no
   longer has.  Run `memory_stale`.
2. `README.md` 339-340 says that an unpinned caller is rejected;
   `swd_esp_port_init` returns at its first line once the port is initialised
   (70).  Run `session_unpinned`.
3. `DAP.c` 657-661 says that the upper half of the result is the number of bytes
   in the request.  When the loop of 697-876 is left by a `break`, the request
   that broke it is still counted, and the loop of 878-891 skips one request
   too many.  Run `dap_consumed`.
4. `swd_host.c` 353-356 says that nothing drives the data line at the end of
   `swd_esp_port_off`, and enables a pull-down.  In a PARLIO build that is left to
   `swd_esp_parlio_off` (`SW_DP_PARLIO.c` 646), which asks
   `swd_parlio_host_owns_bus`; `swd_parlio_run_host_phase` drives the pad (254)
   before it plays a phase and sets the flag (262) after it, so that a phase
   which times out in between leaves a driven pad that the flag denies.  Run
   `parlio_off`.
5. `swd_host.h` 60-65 says that a setup failure is returned and ends the session.
   `swd_esp_parlio_setup` (`SW_DP_PARLIO.c` 627-636) returns nothing: when its phase
   times out it logs, and `swd_init` returns `ESP_OK` with the data translator
   isolated.  (`ReturnContract` without its `~phaseOk`.)
6. `swd_host.h` 70 says of `swd_off` that it disconnects the pins before it releases
   ownership.  `swd_esp_parlio_off` (638-657) only logs a phase that times out, and
   `swd_off` gives the lock with the translator as that phase left it.
   (`FreeBusIsolated` and `LeaseSpec` with `dataOn` alone in `Driven`.)
7. `README.md` 129-137 has the pad as an input whenever the translator drives towards
   the ESP.  `swd_parlio_abort` (`SW_DP_PARLIO.c` 130-140) gives `/OE` and `DIR1` no word.
   When a phase of the target times out and the stopped transmitter keeps the word it
   shows, the next call that takes the bus makes the pad an output (254, or
   `SW_DP.c` 199-204 in `DAP_SWD_Sequence`) against the translator.  What a stopped
   transmitter shows is the hardware's matter; the code does not isolate the lanes
   by other means.  (`NoContention` without `held`.)

## Not modelled

JTAG and SWO (compiled out), LED pins, the generic GPIO build (no translator),
delays, the wait loop of `SWJ_Pins` and the time of `DAP_Delay`, the texts of
`DAP_Info`, register layouts of the four chips, clock dividers and descriptors
of SPI and PARLIO beyond the steps of their initialisation in `SwdSession`, the
debug capture of the SPI engine, performance counters, read parity at the level
of bits in the GPIO engine, register numbers outside those of `Order`, and the
host tests, which compile single C functions.

In `FlashSyscall` a call made while the core runs may report a result that is
not its own: the registers are written (`swd_host.c` 1031-1057) before C_HALT is
(1059), neither looks at S_HALT, and the comment at 1180 does not say that the core
must be halted.  `OwnResult`, `RunsWhole` and `MaskChangesHalted` have the halted core
as their premise (`clean`), so that nothing is claimed of the registers, the result and
C_MASKINTS in a call that follows a timed-out one; `HaltedAfterOk` has no such premise.

In `ParlioBus` nothing is claimed of the wire between the translator and a target that
was cut off in the middle of a transfer (`stray`), up to the next line reset.  An abort that
arrives before its command has started is cleared by it (`DAP.c` 688): the model
allows it, and nothing in the repository says that it should not be.

## Plan

1. Lemmas that several proof modules state for themselves (edges of the target,
   places in a transfer) could move to where `SwdTarget` is extended.
2. Safety consequences of the liveness properties that a proof can reach: that no
   loop of a call passes its bound, whatever the target answers.
