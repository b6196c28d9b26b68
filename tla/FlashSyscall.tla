----------------------------- MODULE FlashSyscall -----------------------------
(***************************************************************************)
(* Calls of a flash algorithm on the target, interface/swd_host.c          *)
(* 1021-1250, 1469-1477 and 1489-1564: swd_flash_syscall_exec, its two     *)
(* asynchronous halves, the core register calls and halting.  One step is  *)
(* one access to a debug register of the core, by swd_write_word,          *)
(* swd_read_word or a DP call.                                             *)
(*                                                                         *)
(* The core is external.  A register transfer needs a halted core: with a  *)
(* running one it does nothing and S_REGRDY is unknown.  C_MASKINTS may    *)
(* be changed only in a halted core by a write that keeps C_HALT.          *)
(***************************************************************************)
EXTENDS Naturals, Sequences

CONSTANT PollLimit     \* timeout of the S_REGRDY loops

ASSUME PollLimitAssumption == PollLimit \in Nat \ {0}

VARIABLES
  \* the call in progress, or the last one
  pc, kind, rtype,
  idx,           \* the register of Order being written
  polls,
  late,          \* the deadline of swd_wait_until_halted has passed
  got,           \* state.r[0] as read back
  result,
  \* the core
  halted, chalt, \* S_HALT, C_HALT
  mask,          \* C_MASKINTS
  dcrdr,         \* the register of Order whose new value it holds, R0Copy, or 0
  own,           \* registers that hold the values of the call in progress
  run,           \* what it runs when it is not halted: the function of the last exec
                 \* or exec_async ("call") or anything else
  r0,
  \* history
  r0own,         \* R0 is the result of that call
  clean,         \* the core was halted when it began, nobody else interfered since
  started        \* it is an exec_async that returned ESP_OK

call == <<pc, kind, rtype, idx, polls, late, got, result>>
core == <<halted, chalt, mask, dcrdr, own, run, r0, r0own>>
hist == <<clean, started>>
vars == <<call, core, hist>>

Order   == <<0, 1, 2, 3, 9, 13, 14, 15, 16>>   \* of swd_write_debug_state
Regs    == DOMAIN Order
R0Copy  == Len(Order) + 1                      \* of the value that R0 has
RTypes  == {"BOOL", "POINTER", "VALUE"}
Values  == {"good", "bad"}      \* 0 for BOOL, the end of the buffer for POINTER
Kinds   == {"none", "exec", "async", "wait", "halted", "get", "set"}
Results == {"none", "OK", "FAIL", "ERROR", "TIMEOUT", "NOT_SUPPORTED"}
Steps   == {"select", "dcrdr", "dcrsr", "regrdy", "halt", "unhalt", "status", "poll",
            "rsel", "rrdy", "rdata", "unmask", "diag", "answer"}

CallTypes ==
  /\ pc \in Steps \union {"idle"} /\ kind \in Kinds /\ rtype \in RTypes
  /\ idx \in Regs /\ polls \in 0..(PollLimit - 1) /\ late \in BOOLEAN
  /\ got \in Values \union {"none"} /\ result \in Results
CoreTypes ==
  /\ halted \in BOOLEAN /\ chalt \in BOOLEAN /\ mask \in BOOLEAN
  /\ dcrdr \in 0..R0Copy /\ own \in SUBSET Regs
  /\ run \in {"call", "other"} /\ r0 \in Values
HistTypes == r0own \in BOOLEAN /\ clean \in BOOLEAN /\ started \in BOOLEAN
TypeOK == CallTypes /\ CoreTypes /\ HistTypes

Init ==
  /\ pc = "idle" /\ kind = "none" /\ rtype = "VALUE" /\ idx = 1 /\ polls = 0
  /\ late = FALSE /\ got = "none" /\ result = "none"
  /\ halted \in BOOLEAN /\ chalt = halted /\ mask = FALSE
  /\ dcrdr = 0 /\ own = {} /\ run = "other" /\ r0 \in Values
  /\ r0own = FALSE /\ clean = FALSE /\ started = FALSE

-----------------------------------------------------------------------------
(***************************************************************************)
(* The core                                                                *)
(***************************************************************************)
Untouched == UNCHANGED core

\* A write of DHCSR with C_HALT = c and C_MASKINTS = m.
Dhcsr(c, m) ==
  /\ chalt' = c
  /\ mask' \in IF (halted /\ c) \/ mask = m THEN {m} ELSE {mask, m}
  /\ halted' = (halted /\ c)
  /\ run' = IF halted /\ ~c THEN (IF own = Regs THEN "call" ELSE "other") ELSE run
  /\ UNCHANGED <<dcrdr, own, r0, r0own>>

Dcrdr == dcrdr' = idx /\ UNCHANGED <<halted, chalt, mask, own, run, r0, r0own>>

\* A write of DCRSR: register idx takes DCRDR; DCRDR takes R0.
RegisterIn ==
  /\ IF ~halted THEN UNCHANGED <<own, r0, r0own>>
     ELSE /\ own' = IF dcrdr = idx /\ kind # "set" THEN own \union {idx} ELSE own
          /\ IF Order[idx] = 0 THEN r0' \in Values /\ r0own' = FALSE
                               ELSE UNCHANGED <<r0, r0own>>
  /\ UNCHANGED <<halted, chalt, mask, dcrdr, run>>

RegisterOut ==
  /\ dcrdr' = IF halted THEN R0Copy ELSE 0
  /\ UNCHANGED <<halted, chalt, mask, own, run, r0, r0own>>

\* The core stops at a breakpoint, that of the function if it is what runs; or for
\* C_HALT, wherever it is.
Breakpoint ==
  /\ ~halted /\ halted' = TRUE /\ chalt' = TRUE
  /\ run' = "other" /\ own' = {} /\ r0' \in Values /\ r0own' = (run = "call")
  /\ UNCHANGED <<mask, dcrdr, call, hist>>

Stop ==
  /\ ~halted /\ chalt /\ halted' = TRUE
  /\ run' = "other" /\ own' = {} /\ r0' \in Values /\ r0own' = FALSE
  /\ UNCHANGED <<chalt, mask, dcrdr, call, hist>>

(***************************************************************************)
(* Accesses: done; failed; or done and reported as failed                  *)
(***************************************************************************)
Return(e) ==
  /\ pc' = "answer" /\ result' = e
  /\ started' = IF kind = "async" THEN e = "OK" ELSE started
  /\ UNCHANGED <<kind, rtype, idx, polls, late, got, clean>>

Go(step) ==
  /\ pc' = step /\ polls' = 0 /\ late' = FALSE
  /\ UNCHANGED <<kind, rtype, idx, got, result, hist>>

WriteWord(from, Done, next) ==
  /\ pc = from
  /\ \/ Done /\ next
     \/ (Done \/ Untouched) /\ Return("ERROR")

Read(from, next) ==
  /\ pc = from
  /\ next \/ Return("ERROR")
  /\ Untouched

\* The S_REGRDY loop.
Poll(from, next) ==
  Read(from, \/ next
             \/ IF polls = PollLimit - 1 THEN Return("TIMEOUT")
                ELSE polls' = polls + 1 /\ UNCHANGED <<pc, kind, rtype, idx, late, got, result, hist>>)

(***************************************************************************)
(* swd_write_debug_state, swd_write_core_register                          *)
(***************************************************************************)
Select == Read("select", Go("dcrdr"))

WriteDcrdr == WriteWord("dcrdr", Dcrdr, Go("dcrsr"))
WriteDcrsr == WriteWord("dcrsr", RegisterIn, Go("regrdy"))

NextRegister ==
  /\ pc' = "dcrdr" /\ idx' = idx + 1 /\ polls' = 0
  /\ UNCHANGED <<kind, rtype, late, got, result, hist>>

\* Mutant: xPSR is not written.
WrittenButLast == IF kind = "set" THEN Return("OK")
                  ELSE IF idx = Len(Order) - 1 THEN Go("halt") ELSE NextRegister

Written == IF kind = "set" THEN Return("OK")
           ELSE IF idx = Len(Order) THEN Go("halt") ELSE NextRegister

PollWritten == Poll("regrdy", Written)

\* Mutant: the interrupts are masked by the write that resumes.
HaltUnmasked == WriteWord("halt", Dhcsr(TRUE, mask), Go("unhalt"))

HaltMasked == WriteWord("halt", Dhcsr(TRUE, TRUE), Go("unhalt"))
Unhalt     == WriteWord("unhalt", Dhcsr(FALSE, TRUE), Go("status"))

\* CTRL/STAT may have a sticky error.
Status == Read("status",
            \/ IF kind = "async" THEN Return("OK") ELSE Go("poll")
            \/ Return("FAIL"))

(***************************************************************************)
(* swd_wait_until_halted, swd_read_core_register, the result               *)
(***************************************************************************)
DeadlinePasses ==
  /\ pc = "poll" /\ ~late /\ late' = TRUE
  /\ UNCHANGED <<pc, kind, rtype, idx, polls, got, result, hist, core>>

AfterHalt == IF kind = "halted" THEN Return("OK") ELSE Go("rsel")

\* Mutant: a core that does not halt is waited for.
PollForever ==
  /\ pc = "poll" /\ Untouched
  /\ (halted /\ AfterHalt) \/ (~late /\ Return("ERROR"))

\* Mutant: the deadline ends the wait like S_HALT.
LateIsHalted ==
  /\ pc = "poll" /\ Untouched
  /\ IF late THEN AfterHalt ELSE (halted /\ AfterHalt) \/ Return("ERROR")

WaitUntilHalted ==
  /\ pc = "poll" /\ Untouched
  /\ IF late THEN Return("TIMEOUT") ELSE (halted /\ AfterHalt) \/ Return("ERROR")

SelectR0  == WriteWord("rsel", RegisterOut, Go("rrdy"))
PollRead  == Poll("rrdy", Go("rdata"))
ReadDcrdr == Read("rdata",
               /\ got' \in IF dcrdr = R0Copy THEN {r0} ELSE Values
               /\ IF kind = "get" THEN pc' = "answer" /\ result' = "OK"
                                  ELSE pc' = "unmask" /\ UNCHANGED result
               /\ UNCHANGED <<kind, rtype, idx, polls, late, hist>>)

\* C_MASKINTS is removed, and the value judged.
Verdict ==
  IF kind = "wait" /\ rtype = "POINTER" THEN Return("NOT_SUPPORTED")
  ELSE IF rtype = "VALUE" \/ got = "good" THEN Return("OK")
  ELSE IF rtype = "BOOL" THEN Go("diag") ELSE Return("FAIL")

\* Mutant: the interrupts stay masked.
UnmaskForgotten == WriteWord("unmask", Dhcsr(TRUE, mask), Verdict)

Unmask == WriteWord("unmask", Dhcsr(TRUE, FALSE), Verdict)

\* R1, R2 and R15 for the log; errors are ignored.
Diag == pc = "diag" /\ dcrdr' \in {dcrdr, 0} /\ Return("FAIL")
        /\ UNCHANGED <<halted, chalt, mask, own, run, r0, r0own>>

-----------------------------------------------------------------------------
(***************************************************************************)
(* Calls                                                                   *)
(***************************************************************************)
Begin(k, first) ==
  /\ pc = "idle" /\ pc' = first /\ kind' = k
  /\ rtype' \in IF k \in {"exec", "wait"} THEN RTypes ELSE {"VALUE"}
  /\ polls' = 0 /\ late' = FALSE /\ got' = "none" /\ result' = "none"

\* (No function of this call has been started yet.)
Start(k) ==
  /\ Begin(k, "select") /\ idx' = 1
  /\ own' = {} /\ run' = "other" /\ r0own' = FALSE
  /\ clean' = halted /\ started' = FALSE
  /\ UNCHANGED <<halted, chalt, mask, dcrdr, r0>>

swd_flash_syscall_exec        == Start("exec")
swd_flash_syscall_exec_async  == Start("async")
swd_flash_syscall_wait_result == Begin("wait", "poll") /\ UNCHANGED <<idx, core, hist>>
swd_wait_until_halted         == Begin("halted", "poll") /\ UNCHANGED <<idx, core, hist>>
swd_read_core_register        == Begin("get", "rsel") /\ UNCHANGED <<idx, core, hist>>
swd_write_core_register ==
  /\ Begin("set", "dcrdr") /\ idx' \in Regs
  /\ clean' = FALSE
  /\ UNCHANGED <<started, core>>

swd_halt_target ==
  /\ pc = "idle"
  /\ Dhcsr(TRUE, FALSE) \/ Untouched
  /\ clean' = (clean /\ halted)
  /\ UNCHANGED <<call, started>>

\* The locals are gone.
Finish ==
  /\ pc = "answer" /\ pc' = "idle" /\ kind' = "none" /\ rtype' = "VALUE" /\ idx' = 1
  /\ polls' = 0 /\ late' = FALSE /\ got' = "none" /\ result' = "none" /\ own' = {}
  /\ UNCHANGED <<halted, chalt, mask, dcrdr, run, r0, r0own, hist>>

Run == \/ Select \/ WriteDcrdr \/ WriteDcrsr \/ PollWritten \/ HaltMasked \/ Unhalt \/ Status
       \/ WaitUntilHalted \/ SelectR0 \/ PollRead \/ ReadDcrdr \/ Unmask \/ Diag \/ Finish

Calls == \/ swd_flash_syscall_exec \/ swd_flash_syscall_exec_async
         \/ swd_flash_syscall_wait_result \/ swd_wait_until_halted
         \/ swd_read_core_register \/ swd_write_core_register \/ swd_halt_target

Next == Run \/ Calls \/ DeadlinePasses \/ Breakpoint \/ Stop

\* The task goes on with a call, and time passes.
Spec == Init /\ [][Next]_vars /\ WF_vars(Run) /\ WF_vars(DeadlinePasses)

-----------------------------------------------------------------------------
Asked == kind = "exec" \/ (kind = "wait" /\ started)

\* A call that began with a halted core lets it run only as a whole: with each of its
\* registers written, whichever access failed or was done and reported as failed.
RunsWhole == clean /\ ~halted => run = "call"

\* ESP_OK from exec, or from wait_result after an exec_async that returned it, is the
\* result of that call's own function, good where the return type tells: when the core
\* was halted as the call began and no other call has touched it since (clean).
OwnResult ==
  pc = "answer" /\ result = "OK" /\ Asked /\ clean =>
    r0own /\ got = r0 /\ (rtype # "VALUE" => got = "good")

\* After ESP_OK the core is halted, and its interrupts are no longer masked.
HaltedAfterOk ==
  pc = "answer" /\ result = "OK" /\ kind \in {"exec", "wait", "halted"} =>
    halted /\ (kind # "halted" => ~mask)

\* A call that began with a halted core, and that no other has interfered with, changes
\* C_MASKINTS only where the architecture defines it: in a halted core, by a write that
\* keeps C_HALT.
MaskChangesHalted == [][mask' # mask /\ clean' => halted /\ chalt']_vars

\* Every call returns, whatever the core does.
CallReturns == (pc # "idle") ~> (pc = "idle")
=============================================================================
