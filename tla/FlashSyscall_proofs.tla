------------------------- MODULE FlashSyscall_proofs -------------------------
(***************************************************************************)
(* Proofs about FlashSyscall, for any number of polls.                     *)
(***************************************************************************)
EXTENDS FlashSyscall, TLAPS

Starts  == {"exec", "async"}
Writing == {"dcrdr", "dcrsr", "regrdy"}
Before  == {"select", "halt", "unhalt"} \union Writing   \* the function was not started
Judging == {"unmask", "diag"}
Reading == {"rsel", "rrdy", "rdata"} \union Judging
After   == {"status", "poll"} \union Reading

\* Which call a step belongs to.
KindInv ==
  /\ pc \in {"select", "halt", "unhalt", "status"} => kind \in Starts
  /\ pc \in Writing => kind \in Starts \union {"set"}
  /\ pc = "poll" => kind \in {"exec", "wait", "halted"}
  /\ pc \in Reading => kind \in {"exec", "wait", "get"}
  /\ pc \in Judging => kind # "get"
  /\ pc # "answer" /\ kind \in Starts => ~started
  /\ kind = "exec" => ~started
  /\ kind = "set" => ~clean

\* How far the registers of an exec are written while the core waits for it, and that
\* it waits.
Prepared ==
  clean /\ pc \in Before /\ kind \in Starts =>
    /\ halted
    /\ pc = "select" => own = {} /\ idx = 1
    /\ pc \in Writing => 1..(idx - 1) \subseteq own
    /\ pc = "dcrsr" => dcrdr = idx
    /\ pc = "regrdy" => idx \in own
    /\ pc \in {"halt", "unhalt"} => own = Regs
    /\ pc = "unhalt" => mask

\* A core that was started whole runs until its own breakpoint, and R0 is the result.
Ran ==
  /\ halted => chalt
  /\ clean /\ ~halted => ~chalt
  /\ clean /\ halted /\ (started \/ (kind \in Starts /\ pc \in After)) => r0own

\* From S_HALT to the verdict.
ReadBack ==
  /\ pc \in Reading /\ kind # "get" => halted
  /\ pc \in {"rrdy", "rdata"} /\ kind # "get" => dcrdr = R0Copy
  /\ pc \in Judging => got = r0
  /\ pc = "diag" => got # "good"

IInv == TypeOK /\ KindInv /\ Prepared /\ Ran /\ ReadBack
        /\ RunsWhole /\ OwnResult /\ HaltedAfterOk

-----------------------------------------------------------------------------

\* The nine registers of an exec.
LEMMA RegsAre == Regs = 1..9 /\ R0Copy = 10 /\ Len(Order) = 9
<1>1. Len(Order) = 9
  BY DEF Order
<1>2. DOMAIN Order = 1..Len(Order)
  BY DEF Order
<1> QED
  BY <1>1, <1>2 DEF Regs, R0Copy

\* A write of DHCSR that asks for a halt, and the one that resumes.
LEMMA HaltWrite ==
  ASSUME CoreTypes, NEW m \in BOOLEAN, Dhcsr(TRUE, m)
  PROVE  /\ chalt' = TRUE /\ halted' = halted /\ run' = run
         /\ halted => mask' = m
         /\ mask' \in BOOLEAN
         /\ dcrdr' = dcrdr /\ own' = own /\ r0' = r0 /\ r0own' = r0own
  BY Zenon DEF Dhcsr, CoreTypes

LEMMA ResumeWrite ==
  ASSUME CoreTypes, Dhcsr(FALSE, TRUE)
  PROVE  /\ chalt' = FALSE /\ halted' = FALSE
         /\ halted /\ own = Regs => run' = "call"
         /\ ~halted => run' = run
         /\ run' \in {"call", "other"}
         /\ mask => mask' = TRUE
         /\ mask' \in BOOLEAN
         /\ dcrdr' = dcrdr /\ own' = own /\ r0' = r0 /\ r0own' = r0own
  BY Zenon DEF Dhcsr, CoreTypes

\* The parts of a call keep their types.
LEMMA Zeros == 0 \in 0..(PollLimit - 1) /\ 1 \in Regs
  BY PollLimitAssumption, RegsAre

LEMMA GoTypes == ASSUME CallTypes, NEW s \in Steps, Go(s) PROVE CallTypes'
  BY Zeros, Zenon DEF Go, CallTypes

LEMMA ReturnTypes == ASSUME CallTypes, NEW e \in Results, Return(e) PROVE CallTypes'
  BY Zenon DEF Return, CallTypes, Steps

LEMMA BeginTypes ==
  ASSUME CallTypes, NEW k \in Kinds, NEW s \in Steps, Begin(k, s), idx' \in Regs
  PROVE CallTypes'
<1>1. rtype' \in RTypes
  BY Zenon DEF Begin, RTypes
<1> QED
  BY <1>1, Zeros, Zenon DEF Begin, CallTypes, Results

LEMMA PolledTypes ==
  ASSUME CallTypes, polls # PollLimit - 1, polls' = polls + 1,
         UNCHANGED <<pc, kind, rtype, idx, late, got, result, hist>>
  PROVE CallTypes'
<1>1. polls' \in 0..(PollLimit - 1)
  BY PollLimitAssumption DEF CallTypes
<1> QED
  BY <1>1, Zenon DEF CallTypes

LEMMA Members ==
  /\ {"dcrdr", "dcrsr", "regrdy", "halt", "unhalt", "status", "poll", "rsel", "rrdy",
      "rdata", "unmask", "diag", "select"} \subseteq Steps
  /\ {"OK", "FAIL", "ERROR", "TIMEOUT", "NOT_SUPPORTED"} \subseteq Results
  /\ {"exec", "async", "wait", "halted", "get", "set"} \subseteq Kinds
  BY DEF Steps, Results, Kinds

\* Every step keeps the types of the call,
LEMMA CallTypesStep == IInv /\ [Next]_vars => CallTypes'
<1> SUFFICES ASSUME IInv, [Next]_vars PROVE CallTypes'
  OBVIOUS
<1>0. CallTypes /\ CoreTypes
  BY DEF IInv, TypeOK
<1>1. CASE Select \/ Status \/ WaitUntilHalted \/ PollRead
  BY <1>0, <1>1, GoTypes, ReturnTypes, Members, PolledTypes, Zenon DEF Select, Read, Status,
     WaitUntilHalted, AfterHalt, PollRead, Poll
<1>2. CASE WriteDcrdr \/ WriteDcrsr \/ SelectR0
  BY <1>0, <1>2, GoTypes, ReturnTypes, Members, Zenon DEF WriteDcrdr, WriteWord, WriteDcrsr,
     SelectR0
<1>3. CASE PollWritten
  <2>1. CASE NextRegister /\ idx # Len(Order)
    <3>1. idx' \in Regs
      BY <1>0, <2>1, RegsAre DEF NextRegister, CallTypes
    <3> QED
      BY <1>0, <2>1, <3>1, Zeros, Members, Zenon DEF NextRegister, CallTypes
  <2>2. CASE polls # PollLimit - 1 /\ polls' = polls + 1
             /\ UNCHANGED <<pc, kind, rtype, idx, late, got, result, hist>>
    BY <1>0, <2>2, PolledTypes
  <2> QED
    BY <1>0, <1>3, <2>1, <2>2, GoTypes, ReturnTypes, Members, Zenon
    DEF PollWritten, Poll, Read, Written
<1>4. CASE HaltMasked \/ Unhalt \/ Unmask
  BY <1>0, <1>4, GoTypes, ReturnTypes, Members, Zenon DEF HaltMasked, WriteWord, Unhalt,
     Unmask, Verdict
<1>5. CASE ReadDcrdr
  <2>1. CASE Return("ERROR")
    BY <1>0, <2>1, ReturnTypes, Members
  <2>2. CASE ~Return("ERROR")
    <3>1. got' \in Values
      BY <1>0, <1>5, <2>2 DEF ReadDcrdr, Read, CoreTypes
    <3>2. pc' \in Steps /\ result' \in Results
      BY <1>0, <1>5, <2>2, Members, Zenon DEF ReadDcrdr, Read, CallTypes, Steps
    <3> QED
      BY <1>0, <1>5, <2>2, <3>1, <3>2, Zenon DEF ReadDcrdr, Read, CallTypes
  <2> QED
    BY <2>1, <2>2
<1>6. CASE Diag \/ DeadlinePasses \/ Breakpoint \/ Stop \/ UNCHANGED vars
  BY <1>0, <1>6, GoTypes, ReturnTypes, Members, Zenon DEF Diag, CallTypes, DeadlinePasses,
     call, Breakpoint, Stop, vars
<1>7. CASE Finish
  <2>1. pc' \in Steps \union {"idle"} /\ kind' \in Kinds /\ rtype' \in RTypes
    BY <1>7 DEF Finish, Kinds, RTypes
  <2>2. got' \in Values \union {"none"} /\ result' \in Results
    BY <1>7 DEF Finish, Results
  <2> QED
    BY <1>0, <1>7, <2>1, <2>2, Zeros, Zenon DEF Finish, CallTypes
<1>8. CASE swd_flash_syscall_exec \/ swd_flash_syscall_exec_async
  BY <1>0, <1>8, BeginTypes, Members, Zeros, Zenon DEF swd_flash_syscall_exec, Start,
     CallTypes, swd_flash_syscall_exec_async
<1>9. CASE swd_flash_syscall_wait_result \/ swd_wait_until_halted \/ swd_read_core_register
           \/ swd_write_core_register
  BY <1>0, <1>9, BeginTypes, Members, Zeros, Zenon DEF swd_flash_syscall_wait_result,
     CallTypes, swd_wait_until_halted, swd_read_core_register, swd_write_core_register
<1>10. CASE swd_halt_target
  BY <1>0, <1>10, Zenon DEF CallTypes, call, swd_halt_target
<1> QED
  BY <1>1, <1>2, <1>3, <1>4, <1>5, <1>6, <1>7, <1>8, <1>9, <1>10, Zenon DEF Next, Run, Calls

\* What the accesses to the core do to it keeps its types.
LEMMA AccessTypes ==
  ASSUME CoreTypes, idx \in Regs
  PROVE  /\ Dcrdr => CoreTypes'
         /\ RegisterIn => CoreTypes'
         /\ RegisterOut => CoreTypes'
         /\ Untouched => CoreTypes'
<1>1. idx \in 0..R0Copy /\ 0 \in 0..R0Copy /\ R0Copy \in 0..R0Copy
  BY RegsAre
<1>2. Dcrdr => CoreTypes'
  BY <1>1, Zenon DEF Dcrdr, CoreTypes
<1>3. RegisterIn => CoreTypes'
  BY <1>1, Zenon DEF RegisterIn, CoreTypes
<1>4. RegisterOut => CoreTypes'
  BY <1>1, Zenon DEF RegisterOut, CoreTypes
<1> QED
  BY <1>2, <1>3, <1>4, Zenon DEF Untouched, core, CoreTypes

\* of the core,
LEMMA CoreTypesStep == IInv /\ [Next]_vars => CoreTypes'
<1> SUFFICES ASSUME IInv, [Next]_vars PROVE CoreTypes'
  OBVIOUS
<1>0. CoreTypes /\ idx \in Regs
  BY DEF IInv, TypeOK, CallTypes
<1>1. CASE Select \/ PollWritten \/ Status \/ WaitUntilHalted \/ PollRead
  BY <1>0, <1>1, RegsAre DEF CoreTypes, Select, Read, Untouched, core, PollWritten, Poll,
     hist, Status, WaitUntilHalted, PollRead
<1>2. CASE WriteDcrdr \/ WriteDcrsr \/ SelectR0
  BY <1>0, <1>2, AccessTypes, Zenon DEF WriteDcrdr, WriteWord, WriteDcrsr, SelectR0
<1>3. CASE HaltMasked \/ Unhalt \/ Unmask
  BY <1>0, <1>3, RegsAre, HaltWrite, ResumeWrite DEF CoreTypes, HaltMasked, WriteWord,
     Untouched, core, Unhalt, Unmask
<1>4. CASE ReadDcrdr
  BY <1>0, <1>4, RegsAre DEF CoreTypes, ReadDcrdr, Read, Untouched, core, hist
<1>5. CASE Diag
  BY <1>0, <1>5, RegsAre DEF CoreTypes, Diag
<1>6. CASE Finish
  BY <1>0, <1>6, RegsAre DEF CoreTypes, Finish, hist
<1>7. CASE swd_flash_syscall_exec \/ swd_flash_syscall_exec_async
  BY <1>0, <1>7, RegsAre DEF CoreTypes, swd_flash_syscall_exec, Start, Begin,
     swd_flash_syscall_exec_async
<1>8. CASE swd_flash_syscall_wait_result \/ swd_wait_until_halted \/ swd_read_core_register
           \/ swd_write_core_register
  BY <1>0, <1>8, RegsAre DEF CoreTypes, swd_flash_syscall_wait_result, Begin, core, hist,
     swd_wait_until_halted, swd_read_core_register, swd_write_core_register
<1>9. CASE swd_halt_target
  BY <1>0, <1>9, RegsAre, HaltWrite DEF CoreTypes, swd_halt_target, Untouched, call, core
<1>10. CASE DeadlinePasses
  BY <1>0, <1>10, RegsAre DEF CoreTypes, DeadlinePasses, core, hist
<1>11. CASE Breakpoint
  BY <1>0, <1>11, RegsAre DEF CoreTypes, Breakpoint, call, hist
<1>12. CASE Stop
  BY <1>0, <1>12, RegsAre DEF CoreTypes, Stop, call, hist
<1>13. CASE UNCHANGED vars
  BY <1>0, <1>13, RegsAre DEF CoreTypes, vars, call, core, hist
<1> QED
  BY <1>1, <1>2, <1>3, <1>4, <1>5, <1>6, <1>7, <1>8, <1>9, <1>10, <1>11, <1>12, <1>13, Zenon
     DEF Next, Run, Calls

\* and of the history.
LEMMA HistTypesStep == IInv /\ [Next]_vars => HistTypes'
<1> SUFFICES ASSUME IInv, [Next]_vars PROVE HistTypes'
  OBVIOUS
<1>0. HistTypes /\ CoreTypes
  BY DEF IInv, TypeOK
<1>1. CASE Select \/ PollWritten \/ Status \/ WaitUntilHalted \/ PollRead
  BY <1>0, <1>1 DEF HistTypes, CoreTypes, Select, Read, Go, Return, Untouched, core, hist,
     PollWritten, Poll, Written, NextRegister, Status, WaitUntilHalted, AfterHalt, PollRead
<1>2. CASE WriteDcrdr \/ WriteDcrsr \/ SelectR0
  BY <1>0, <1>2 DEF HistTypes, CoreTypes, WriteDcrdr, WriteWord, Dcrdr, Go, Return, Untouched,
     core, hist, WriteDcrsr, RegisterIn, SelectR0, RegisterOut
<1>3. CASE HaltMasked \/ Unhalt \/ Unmask
  BY <1>0, <1>3, HaltWrite, ResumeWrite DEF HistTypes, CoreTypes, HaltMasked, WriteWord, Go,
     Return, Untouched, core, hist, Unhalt, Unmask, Verdict
<1>4. CASE ReadDcrdr
  BY <1>0, <1>4 DEF HistTypes, CoreTypes, ReadDcrdr, Read, Return, Untouched, core, hist
<1>5. CASE Diag \/ Finish \/ DeadlinePasses \/ Breakpoint \/ Stop \/ UNCHANGED vars
  BY <1>0, <1>5 DEF HistTypes, CoreTypes, Diag, Return, Finish, hist, DeadlinePasses, core,
     Breakpoint, call, Stop, vars
<1>6. CASE swd_flash_syscall_exec \/ swd_flash_syscall_exec_async
  BY <1>0, <1>6 DEF HistTypes, CoreTypes, swd_flash_syscall_exec, Start, Begin,
     swd_flash_syscall_exec_async
<1>7. CASE swd_flash_syscall_wait_result \/ swd_wait_until_halted \/ swd_read_core_register
           \/ swd_write_core_register
  BY <1>0, <1>7 DEF HistTypes, CoreTypes, swd_flash_syscall_wait_result, Begin, core, hist,
     swd_wait_until_halted, swd_read_core_register, swd_write_core_register
<1>8. CASE swd_halt_target
  BY <1>0, <1>8, HaltWrite DEF HistTypes, CoreTypes, swd_halt_target, Untouched, call, core
<1> QED
  BY <1>1, <1>2, <1>3, <1>4, <1>5, <1>6, <1>7, <1>8, Zenon DEF Next, Run, Calls

\* Steps stay with the calls they belong to.
LEMMA KindStep == IInv /\ [Next]_vars => KindInv'
<1> SUFFICES ASSUME IInv, [Next]_vars PROVE KindInv'
  OBVIOUS
<1>0. CallTypes /\ HistTypes /\ KindInv
  BY DEF IInv, TypeOK
<1>1. CASE Select \/ PollWritten \/ Status \/ WaitUntilHalted \/ PollRead
  BY <1>0, <1>1 DEF KindInv, HistTypes, Starts, Writing, Judging, Reading, Select, Read, Go,
     Return, hist, PollWritten, Poll, Written, NextRegister, Status, WaitUntilHalted, AfterHalt,
     PollRead
<1>2. CASE WriteDcrdr \/ WriteDcrsr \/ SelectR0
  BY <1>0, <1>2 DEF KindInv, HistTypes, Starts, Writing, Judging, Reading, WriteDcrdr,
     WriteWord, Go, Return, hist, WriteDcrsr, SelectR0
<1>3. CASE HaltMasked
  <2>1. CASE Go("unhalt")
    BY <1>0, <1>3, <2>1 DEF HaltMasked, WriteWord, Go, hist, KindInv, HistTypes, Starts, Writing, Before,
                        Judging, Reading, After
  <2>2. CASE Return("ERROR")
    BY <1>0, <1>3, <2>2 DEF HaltMasked, WriteWord, Return, KindInv, HistTypes, Starts, Writing, Before,
                        Judging, Reading, After
  <2> QED
    BY <1>3, <2>1, <2>2, Zenon DEF HaltMasked, WriteWord
<1>4. CASE Unhalt
  <2>1. CASE Go("status")
    BY <1>0, <1>4, <2>1 DEF Unhalt, WriteWord, Go, hist, KindInv, HistTypes, Starts, Writing, Before,
                        Judging, Reading, After
  <2>2. CASE Return("ERROR")
    BY <1>0, <1>4, <2>2 DEF Unhalt, WriteWord, Return, KindInv, HistTypes, Starts, Writing, Before,
                        Judging, Reading, After
  <2> QED
    BY <1>4, <2>1, <2>2, Zenon DEF Unhalt, WriteWord
<1>5. CASE ReadDcrdr
  BY <1>0, <1>5 DEF KindInv, HistTypes, Starts, Writing, Judging, Reading, ReadDcrdr, Read,
     Return, hist
<1>6. CASE Unmask
  BY <1>0, <1>6 DEF KindInv, HistTypes, Starts, Writing, Judging, Reading, Unmask, WriteWord,
     Verdict, Go, Return, hist
<1>7. CASE Diag \/ Finish \/ DeadlinePasses \/ Breakpoint \/ Stop \/ UNCHANGED vars
  BY <1>0, <1>7 DEF KindInv, HistTypes, Starts, Writing, Judging, Reading, Diag, Return,
     Finish, hist, DeadlinePasses, core, Breakpoint, call, Stop, vars
<1>8. CASE swd_flash_syscall_exec \/ swd_flash_syscall_exec_async
  BY <1>0, <1>8 DEF KindInv, HistTypes, Starts, Writing, Judging, Reading,
     swd_flash_syscall_exec, Start, Begin, swd_flash_syscall_exec_async
<1>9. CASE swd_flash_syscall_wait_result \/ swd_wait_until_halted \/ swd_read_core_register
           \/ swd_write_core_register
  BY <1>0, <1>9 DEF KindInv, HistTypes, Starts, Writing, Judging, Reading,
     swd_flash_syscall_wait_result, Begin, core, hist, swd_wait_until_halted,
     swd_read_core_register, swd_write_core_register
<1>10. CASE swd_halt_target
  BY <1>0, <1>10 DEF KindInv, HistTypes, Starts, Writing, Judging, Reading, swd_halt_target,
     call
<1> QED
  BY <1>1, <1>2, <1>3, <1>4, <1>5, <1>6, <1>7, <1>8, <1>9, <1>10, Zenon DEF Next, Run, Calls

\* The registers are written one by one while a halted core waits.
LEMMA PreparedStep == IInv /\ [Next]_vars => Prepared'
<1> SUFFICES ASSUME IInv, [Next]_vars PROVE Prepared'
  OBVIOUS
<1>0. CallTypes /\ CoreTypes /\ HistTypes /\ KindInv /\ Prepared
  BY DEF IInv, TypeOK
<1>1. CASE Select
  <2>1. CASE Return("ERROR")
    BY <2>1 DEF Return, Prepared, Before, Writing
  <2>2. CASE Go("dcrdr")
    <3>1. clean => halted /\ own = {} /\ idx = 1
      BY <1>0, <1>1 DEF Select, Read, Prepared, KindInv, Before
    <3>2. 1..(1 - 1) \subseteq {}
      OBVIOUS
    <3> QED
      BY <1>1, <2>2, <3>1, <3>2 DEF Select, Read, Go, Untouched, core, hist, Prepared, Before, Writing
  <2> QED
    BY <1>1, <2>1, <2>2, Zenon DEF Select, Read
<1>2. CASE WriteDcrdr \/ WriteDcrsr \/ SelectR0
  BY <1>0, <1>2, RegsAre DEF CoreTypes, HistTypes, Prepared, KindInv, Starts, Writing, Before,
     Judging, Reading, WriteDcrdr, WriteWord, Dcrdr, Go, Return, Untouched, core, hist,
     WriteDcrsr, RegisterIn, SelectR0, RegisterOut
<1>3. CASE PollWritten
  <2>1. CASE clean /\ kind \in Starts
    <3>1. halted /\ 1..(idx - 1) \subseteq own /\ idx \in own /\ own \subseteq 1..9 /\ idx \in 1..9
      BY <1>0, <1>3, <2>1, RegsAre DEF PollWritten, Poll, Read, Prepared, Before, Writing,
         CallTypes, CoreTypes
    <3>2. 1..idx \subseteq own /\ idx + 1 - 1 = idx
      BY <3>1
    <3>3. idx = 9 => own = Regs
      BY <3>1, <3>2, RegsAre
    <3> QED
      BY <1>0, <1>3, <2>1, <3>1, <3>2, <3>3, RegsAre
      DEF PollWritten, Poll, Read, Written, NextRegister, Go, Return, Untouched, core, hist,
          Prepared, Before, Writing, Starts
  <2>2. CASE ~(clean /\ kind \in Starts)
    BY <1>3, <2>2 DEF PollWritten, Poll, Read, Written, NextRegister, Go, Return, hist, Prepared
  <2> QED
    BY <2>1, <2>2
<1>4. CASE HaltMasked \/ Unhalt \/ Unmask
  BY <1>0, <1>4, RegsAre, HaltWrite, ResumeWrite DEF CoreTypes, HistTypes, Prepared, KindInv,
     Starts, Writing, Before, Judging, Reading, HaltMasked, WriteWord, Go, Return, Untouched,
     core, hist, Unhalt, Unmask, Verdict
<1>5. CASE Status \/ WaitUntilHalted \/ PollRead
  BY <1>0, <1>5, RegsAre DEF CoreTypes, HistTypes, Prepared, KindInv, Starts, Writing, Before,
     Judging, Reading, Status, Read, Go, Return, Untouched, core, hist, WaitUntilHalted,
     AfterHalt, PollRead, Poll
<1>6. CASE ReadDcrdr
  BY <1>0, <1>6, RegsAre DEF CoreTypes, HistTypes, Prepared, KindInv, Starts, Writing,
     Before, Judging, Reading, ReadDcrdr, Read, Return, Untouched, core, hist
<1>7. CASE Diag
  BY <1>0, <1>7, RegsAre DEF CoreTypes, HistTypes, Prepared, KindInv, Starts, Writing,
     Before, Judging, Reading, Diag, Return
<1>8. CASE Finish
  BY <1>0, <1>8, RegsAre DEF CoreTypes, HistTypes, Prepared, KindInv, Starts, Writing,
     Before, Judging, Reading, Finish, hist
<1>9. CASE swd_flash_syscall_exec \/ swd_flash_syscall_exec_async
  BY <1>0, <1>9, RegsAre DEF CoreTypes, HistTypes, Prepared, KindInv, Starts, Writing, Before,
     Judging, Reading, swd_flash_syscall_exec, Start, Begin, swd_flash_syscall_exec_async
<1>10. CASE swd_flash_syscall_wait_result \/ swd_wait_until_halted \/ swd_read_core_register
           \/ swd_write_core_register
  BY <1>0, <1>10, RegsAre DEF CoreTypes, HistTypes, Prepared, KindInv, Starts, Writing,
     Before, Judging, Reading, swd_flash_syscall_wait_result, Begin, core, hist,
     swd_wait_until_halted, swd_read_core_register, swd_write_core_register
<1>11. CASE swd_halt_target
  BY <1>0, <1>11, RegsAre, HaltWrite DEF CoreTypes, HistTypes, Prepared, KindInv, Starts,
     Writing, Before, Judging, Reading, swd_halt_target, Untouched, call, core
<1>12. CASE DeadlinePasses
  BY <1>0, <1>12, RegsAre DEF CoreTypes, HistTypes, Prepared, KindInv, Starts, Writing,
     Before, Judging, Reading, DeadlinePasses, core, hist
<1>13. CASE Breakpoint
  BY <1>0, <1>13, RegsAre DEF CoreTypes, HistTypes, Prepared, KindInv, Starts, Writing,
     Before, Judging, Reading, Breakpoint, call, hist
<1>14. CASE Stop
  BY <1>0, <1>14, RegsAre DEF CoreTypes, HistTypes, Prepared, KindInv, Starts, Writing,
     Before, Judging, Reading, Stop, call, hist
<1>15. CASE UNCHANGED vars
  BY <1>0, <1>15, RegsAre DEF CoreTypes, HistTypes, Prepared, KindInv, Starts, Writing,
     Before, Judging, Reading, vars, call, core, hist
<1> QED
  BY <1>1, <1>2, <1>3, <1>4, <1>5, <1>6, <1>7, <1>8, <1>9, <1>10, <1>11, <1>12, <1>13, <1>14,
     <1>15, Zenon DEF Next, Run, Calls

\* A core that was started whole stops with its result.
LEMMA RanStep == IInv /\ [Next]_vars => Ran' /\ RunsWhole'
<1> SUFFICES ASSUME IInv, [Next]_vars PROVE Ran' /\ RunsWhole'
  OBVIOUS
<1>0. CallTypes /\ CoreTypes /\ HistTypes /\ KindInv /\ Prepared /\ ReadBack /\ Ran
    /\ RunsWhole
  BY DEF IInv, TypeOK
<1>1. CASE Select \/ PollWritten \/ Status \/ WaitUntilHalted \/ PollRead
  BY <1>0, <1>1 DEF CoreTypes, HistTypes, Ran, RunsWhole, Prepared, KindInv, Starts, Writing,
     Before, Judging, Reading, After, Select, Read, Go, Return, Untouched, core, hist,
     PollWritten, Poll, Written, NextRegister, Status, WaitUntilHalted, AfterHalt, PollRead
<1>2. CASE WriteDcrdr \/ WriteDcrsr \/ SelectR0
  BY <1>0, <1>2 DEF CoreTypes, HistTypes, Ran, RunsWhole, Prepared, KindInv, Starts, Writing,
     Before, Judging, Reading, After, WriteDcrdr, WriteWord, Dcrdr, Go, Return, Untouched, core,
     hist, WriteDcrsr, RegisterIn, SelectR0, RegisterOut
<1>3. CASE HaltMasked
  <2>1. ~started' /\ pc' \notin After /\ clean' = clean
    <3>1. CASE Go("unhalt")
      BY <1>0, <1>3, <3>1 DEF HaltMasked, WriteWord, Go, hist, KindInv, Starts, After, Reading,
         Judging
    <3>2. CASE Return("ERROR")
      BY <1>0, <1>3, <3>2 DEF HaltMasked, WriteWord, Return, KindInv, Starts, After, Reading,
         Judging
    <3> QED
      BY <1>3, <3>1, <3>2, Zenon DEF HaltMasked, WriteWord
  <2>2. CASE Dhcsr(TRUE, TRUE)
    <3>1. chalt' = TRUE /\ halted' = halted
      BY <1>0, <2>2, HaltWrite, Zenon
    <3>2. clean => halted
      BY <1>0, <1>3 DEF HaltMasked, WriteWord, KindInv, Prepared, Before
    <3> QED
      BY <2>1, <3>1, <3>2, Zenon DEF Ran, RunsWhole
  <2>3. CASE Untouched
    BY <1>0, <2>1, <2>3, Zenon DEF Untouched, core, Ran, RunsWhole
  <2> QED
    BY <1>3, <2>2, <2>3, Zenon DEF HaltMasked, WriteWord
<1>4. CASE Unhalt
  <2>1. ~started' /\ clean' = clean
    <3>1. CASE Go("status")
      BY <1>0, <1>4, <3>1 DEF Unhalt, WriteWord, Go, hist, KindInv, Starts
    <3>2. CASE Return("ERROR")
      BY <1>0, <1>4, <3>2 DEF Unhalt, WriteWord, Return, KindInv, Starts
    <3> QED
      BY <1>4, <3>1, <3>2, Zenon DEF Unhalt, WriteWord
  <2>2. CASE Dhcsr(FALSE, TRUE)
    <3>1. chalt' = FALSE /\ halted' = FALSE /\ (halted /\ own = Regs => run' = "call")
      BY <1>0, <2>2, ResumeWrite, Zenon
    <3>2. clean => halted /\ own = Regs
      BY <1>0, <1>4 DEF Unhalt, WriteWord, KindInv, Prepared, Before
    <3> QED
      BY <2>1, <3>1, <3>2, Zenon DEF Ran, RunsWhole
  <2>3. CASE Untouched /\ Return("ERROR")
    <3>1. pc' \notin After
      BY <2>3 DEF Return, After, Reading, Judging
    <3> QED
      BY <1>0, <2>1, <2>3, <3>1, Zenon DEF Untouched, core, Ran, RunsWhole
  <2> QED
    BY <1>4, <2>2, <2>3, Zenon DEF Unhalt, WriteWord
<1>5. CASE ReadDcrdr
  BY <1>0, <1>5 DEF CoreTypes, HistTypes, Ran, RunsWhole, Prepared, KindInv, Starts, Writing,
     Before, Judging, Reading, After, ReadDcrdr, Read, Return, Untouched, core, hist
<1>6. CASE Unmask
  <2>1. clean' = clean /\ kind' = kind /\ (started' => started) /\ pc \in After
    BY <1>0, <1>6 DEF Unmask, WriteWord, Verdict, Go, Return, hist, KindInv, HistTypes, Reading,
       Judging, After
  <2>2. CASE Dhcsr(TRUE, FALSE)
    <3>1. /\ chalt' = TRUE /\ halted' = halted /\ run' = run /\ r0own' = r0own
      BY <1>0, <2>2, HaltWrite, Zenon
    <3>2. halted
      BY <1>0, <1>6 DEF Unmask, WriteWord, KindInv, ReadBack, Reading, Judging
    <3> QED
      BY <1>0, <2>1, <3>1, <3>2, Zenon DEF Ran, RunsWhole
  <2>3. CASE Untouched
    BY <1>0, <2>1, <2>3, Zenon DEF Untouched, core, Ran, RunsWhole
  <2> QED
    BY <1>6, <2>2, <2>3, Zenon DEF Unmask, WriteWord
<1>7. CASE Diag \/ Finish \/ DeadlinePasses \/ Breakpoint \/ Stop \/ UNCHANGED vars
  BY <1>0, <1>7 DEF CoreTypes, HistTypes, Ran, RunsWhole, Prepared, KindInv, Starts, Writing,
     Before, Judging, Reading, After, Diag, Return, Finish, hist, DeadlinePasses, core,
     Breakpoint, call, Stop, vars
<1>8. CASE swd_flash_syscall_exec \/ swd_flash_syscall_exec_async
  BY <1>0, <1>8 DEF CoreTypes, HistTypes, Ran, RunsWhole, Prepared, KindInv, Starts, Writing,
     Before, Judging, Reading, After, swd_flash_syscall_exec, Start, Begin,
     swd_flash_syscall_exec_async
<1>9. CASE swd_flash_syscall_wait_result \/ swd_wait_until_halted \/ swd_read_core_register
           \/ swd_write_core_register
  BY <1>0, <1>9 DEF CoreTypes, HistTypes, Ran, RunsWhole, Prepared, KindInv, Starts, Writing,
     Before, Judging, Reading, After, swd_flash_syscall_wait_result, Begin, core, hist,
     swd_wait_until_halted, swd_read_core_register, swd_write_core_register
<1>10. CASE swd_halt_target
  <2>1. clean' = (clean /\ halted) /\ started' = started /\ kind' = kind /\ pc' = pc
    BY <1>10 DEF swd_halt_target, call
  <2>2. CASE Dhcsr(TRUE, FALSE)
    <3>1. /\ chalt' = TRUE /\ halted' = halted /\ run' = run /\ r0own' = r0own
      BY <1>0, <2>2, HaltWrite, Zenon
    <3> QED
      BY <1>0, <2>1, <3>1, Zenon DEF Ran, RunsWhole
  <2>3. CASE Untouched
    BY <1>0, <2>1, <2>3, Zenon DEF Untouched, core, Ran, RunsWhole
  <2> QED
    BY <1>10, <2>2, <2>3, Zenon DEF swd_halt_target
<1> QED
  BY <1>1, <1>2, <1>3, <1>4, <1>5, <1>6, <1>7, <1>8, <1>9, <1>10, Zenon DEF Next, Run, Calls

\* What is read back is R0 of a halted core.
LEMMA ReadBackStep == IInv /\ [Next]_vars => ReadBack'
<1> SUFFICES ASSUME IInv, [Next]_vars PROVE ReadBack'
  OBVIOUS
<1>0. CoreTypes /\ KindInv /\ ReadBack
  BY DEF IInv, TypeOK
<1>1. CASE Select \/ PollWritten \/ Status \/ WaitUntilHalted \/ PollRead
  BY <1>0, <1>1 DEF ReadBack, KindInv, Starts, Writing, Judging, Reading, Select, Read, Go,
     Return, Untouched, core, hist, PollWritten, Poll, Written, NextRegister, Status,
     WaitUntilHalted, AfterHalt, PollRead
<1>2. CASE WriteDcrdr \/ WriteDcrsr \/ SelectR0
  BY <1>0, <1>2 DEF ReadBack, KindInv, Starts, Writing, Judging, Reading, WriteDcrdr,
     WriteWord, Dcrdr, Go, Return, Untouched, core, hist, WriteDcrsr, RegisterIn, SelectR0,
     RegisterOut
<1>3. CASE HaltMasked \/ Unhalt \/ Unmask
  BY <1>0, <1>3, HaltWrite, ResumeWrite DEF ReadBack, KindInv, Starts, Writing, Judging,
     Reading, HaltMasked, WriteWord, Go, Return, Untouched, core, hist, Unhalt, Unmask, Verdict
<1>4. CASE ReadDcrdr
  BY <1>0, <1>4 DEF ReadBack, KindInv, Starts, Writing, Judging, Reading, ReadDcrdr, Read,
     Return, Untouched, core, hist
<1>5. CASE Diag \/ Finish \/ DeadlinePasses \/ Breakpoint \/ Stop \/ UNCHANGED vars
  BY <1>0, <1>5 DEF ReadBack, KindInv, Starts, Writing, Judging, Reading, Diag, Return,
     Finish, hist, DeadlinePasses, core, Breakpoint, call, Stop, vars
<1>6. CASE swd_flash_syscall_exec \/ swd_flash_syscall_exec_async
  BY <1>0, <1>6 DEF ReadBack, KindInv, Starts, Writing, Judging, Reading,
     swd_flash_syscall_exec, Start, Begin, swd_flash_syscall_exec_async
<1>7. CASE swd_flash_syscall_wait_result \/ swd_wait_until_halted \/ swd_read_core_register
           \/ swd_write_core_register
  BY <1>0, <1>7 DEF ReadBack, KindInv, Starts, Writing, Judging, Reading,
     swd_flash_syscall_wait_result, Begin, core, hist, swd_wait_until_halted,
     swd_read_core_register, swd_write_core_register
<1>8. CASE swd_halt_target
  BY <1>0, <1>8, HaltWrite DEF ReadBack, KindInv, Starts, Writing, Judging, Reading,
     swd_halt_target, Untouched, call, core
<1> QED
  BY <1>1, <1>2, <1>3, <1>4, <1>5, <1>6, <1>7, <1>8, Zenon DEF Next, Run, Calls

\* ESP_OK follows from the verdict on that value,
LEMMA OwnResultStep == IInv /\ [Next]_vars => OwnResult'
<1> SUFFICES ASSUME IInv, [Next]_vars PROVE OwnResult'
  OBVIOUS
<1>0. CoreTypes /\ KindInv /\ ReadBack /\ Ran /\ OwnResult /\ HaltedAfterOk
  BY DEF IInv, TypeOK
<1>1. CASE Select \/ PollWritten \/ Status \/ WaitUntilHalted \/ PollRead
  BY <1>0, <1>1 DEF OwnResult, HaltedAfterOk, Asked, Ran, ReadBack, KindInv, Starts, Writing,
     Judging, Reading, After, Select, Read, Go, Return, Untouched, core, hist, PollWritten, Poll,
     Written, NextRegister, Status, WaitUntilHalted, AfterHalt, PollRead
<1>2. CASE WriteDcrdr \/ WriteDcrsr \/ SelectR0
  BY <1>0, <1>2 DEF OwnResult, HaltedAfterOk, Asked, Ran, ReadBack, KindInv, Starts, Writing,
     Judging, Reading, After, WriteDcrdr, WriteWord, Dcrdr, Go, Return, Untouched, core, hist,
     WriteDcrsr, RegisterIn, SelectR0, RegisterOut
<1>3. CASE HaltMasked \/ Unhalt \/ Unmask
  BY <1>0, <1>3, HaltWrite, ResumeWrite DEF OwnResult, HaltedAfterOk, Asked, Ran, ReadBack,
     KindInv, Starts, Writing, Judging, Reading, After, HaltMasked, WriteWord, Go, Return,
     Untouched, core, hist, Unhalt, Unmask, Verdict
<1>4. CASE ReadDcrdr
  BY <1>0, <1>4 DEF OwnResult, HaltedAfterOk, Asked, Ran, ReadBack, KindInv, Starts, Writing,
     Judging, Reading, After, ReadDcrdr, Read, Return, Untouched, core, hist
<1>5. CASE Diag \/ Finish \/ DeadlinePasses \/ Breakpoint \/ Stop \/ UNCHANGED vars
  BY <1>0, <1>5 DEF OwnResult, HaltedAfterOk, Asked, Ran, ReadBack, KindInv, Starts, Writing,
     Judging, Reading, After, Diag, Return, Finish, hist, DeadlinePasses, core, Breakpoint, call,
     Stop, vars
<1>6. CASE swd_flash_syscall_exec \/ swd_flash_syscall_exec_async
  BY <1>0, <1>6 DEF OwnResult, HaltedAfterOk, Asked, Ran, ReadBack, KindInv, Starts, Writing,
     Judging, Reading, After, swd_flash_syscall_exec, Start, Begin, swd_flash_syscall_exec_async
<1>7. CASE swd_flash_syscall_wait_result \/ swd_wait_until_halted \/ swd_read_core_register
           \/ swd_write_core_register
  BY <1>0, <1>7 DEF OwnResult, HaltedAfterOk, Asked, Ran, ReadBack, KindInv, Starts, Writing,
     Judging, Reading, After, swd_flash_syscall_wait_result, Begin, core, hist,
     swd_wait_until_halted, swd_read_core_register, swd_write_core_register
<1>8. CASE swd_halt_target
  BY <1>0, <1>8, HaltWrite DEF OwnResult, HaltedAfterOk, Asked, Ran, ReadBack, KindInv,
     Starts, Writing, Judging, Reading, After, swd_halt_target, Untouched, call, core
<1> QED
  BY <1>1, <1>2, <1>3, <1>4, <1>5, <1>6, <1>7, <1>8, Zenon DEF Next, Run, Calls

\* and leaves the core halted and unmasked.
LEMMA HaltedStep == IInv /\ [Next]_vars => HaltedAfterOk'
<1> SUFFICES ASSUME IInv, [Next]_vars PROVE HaltedAfterOk'
  OBVIOUS
<1>0. CoreTypes /\ KindInv /\ ReadBack /\ Ran /\ HaltedAfterOk
  BY DEF IInv, TypeOK
<1>1. CASE Select \/ PollWritten \/ Status \/ WaitUntilHalted \/ PollRead
  BY <1>0, <1>1 DEF HaltedAfterOk, Ran, ReadBack, KindInv, Starts, Writing, Judging, Reading,
     After, Select, Read, Go, Return, Untouched, core, hist, PollWritten, Poll, Written,
     NextRegister, Status, WaitUntilHalted, AfterHalt, PollRead
<1>2. CASE WriteDcrdr \/ WriteDcrsr \/ SelectR0
  BY <1>0, <1>2 DEF HaltedAfterOk, Ran, ReadBack, KindInv, Starts, Writing, Judging, Reading,
     After, WriteDcrdr, WriteWord, Dcrdr, Go, Return, Untouched, core, hist, WriteDcrsr,
     RegisterIn, SelectR0, RegisterOut
<1>3. CASE HaltMasked \/ Unhalt \/ Unmask
  BY <1>0, <1>3, HaltWrite, ResumeWrite DEF HaltedAfterOk, Ran, ReadBack, KindInv, Starts,
     Writing, Judging, Reading, After, HaltMasked, WriteWord, Go, Return, Untouched, core, hist,
     Unhalt, Unmask, Verdict
<1>4. CASE ReadDcrdr
  BY <1>0, <1>4 DEF HaltedAfterOk, Ran, ReadBack, KindInv, Starts, Writing, Judging, Reading,
     After, ReadDcrdr, Read, Return, Untouched, core, hist
<1>5. CASE Diag \/ Finish \/ DeadlinePasses \/ Breakpoint \/ Stop \/ UNCHANGED vars
  BY <1>0, <1>5 DEF HaltedAfterOk, Ran, ReadBack, KindInv, Starts, Writing, Judging, Reading,
     After, Diag, Return, Finish, hist, DeadlinePasses, core, Breakpoint, call, Stop, vars
<1>6. CASE swd_flash_syscall_exec \/ swd_flash_syscall_exec_async
  BY <1>0, <1>6 DEF HaltedAfterOk, Ran, ReadBack, KindInv, Starts, Writing, Judging, Reading,
     After, swd_flash_syscall_exec, Start, Begin, swd_flash_syscall_exec_async
<1>7. CASE swd_flash_syscall_wait_result \/ swd_wait_until_halted \/ swd_read_core_register
           \/ swd_write_core_register
  BY <1>0, <1>7 DEF HaltedAfterOk, Ran, ReadBack, KindInv, Starts, Writing, Judging, Reading,
     After, swd_flash_syscall_wait_result, Begin, core, hist, swd_wait_until_halted,
     swd_read_core_register, swd_write_core_register
<1>8. CASE swd_halt_target
  BY <1>0, <1>8, HaltWrite DEF HaltedAfterOk, Ran, ReadBack, KindInv, Starts, Writing,
     Judging, Reading, After, swd_halt_target, Untouched, call, core
<1> QED
  BY <1>1, <1>2, <1>3, <1>4, <1>5, <1>6, <1>7, <1>8, Zenon DEF Next, Run, Calls

-----------------------------------------------------------------------------
\* The initial state satisfies the invariant.
LEMMA InitIInv == Init => IInv
<1> SUFFICES ASSUME Init PROVE IInv
  OBVIOUS
<1>1. CallTypes
  BY Zeros DEF Init, CallTypes, Kinds, RTypes, Results
<1>2. CoreTypes /\ HistTypes
  <2>1. 0 \in 0..R0Copy /\ {} \subseteq Regs
    BY RegsAre
  <2> QED
    BY <2>1, Zenon DEF Init, CoreTypes, HistTypes
<1>3. KindInv /\ Prepared /\ Ran /\ ReadBack
  BY DEF Init, KindInv, Prepared, Ran, ReadBack, Starts, Writing, Before, Judging, Reading, After
<1>4. RunsWhole /\ OwnResult /\ HaltedAfterOk
  BY DEF Init, RunsWhole, OwnResult, HaltedAfterOk
<1> QED
  BY <1>1, <1>2, <1>3, <1>4 DEF IInv, TypeOK

\* Every step preserves the invariant.
LEMMA StepIInv == IInv /\ [Next]_vars => IInv'
  BY CallTypesStep, CoreTypesStep, HistTypesStep, KindStep, PreparedStep, RanStep, ReadBackStep,
     OwnResultStep, HaltedStep, Zenon DEF IInv, TypeOK

\* The inductive invariant.
THEOREM Invariance == Spec => []IInv
  BY InitIInv, StepIInv, PTL DEF Spec

\* Type correctness.
THEOREM TypeCorrect == Spec => []TypeOK
<1>1. IInv => TypeOK
  BY DEF IInv
<1> QED
  BY Invariance, <1>1, PTL

\* A call that began with a halted core starts its function with all registers written
\* or not at all.
THEOREM WholeRuns == Spec => []RunsWhole
<1>1. IInv => RunsWhole
  BY DEF IInv
<1> QED
  BY Invariance, <1>1, PTL

\* ESP_OK of a call that began with a halted core, and that no other has interfered
\* with, carries the result of its own function.
THEOREM OwnResults == Spec => []OwnResult
<1>1. IInv => OwnResult
  BY DEF IInv
<1> QED
  BY Invariance, <1>1, PTL

\* ESP_OK leaves the core halted, with its interrupts unmasked.
THEOREM HaltsAfterOk == Spec => []HaltedAfterOk
<1>1. IInv => HaltedAfterOk
  BY DEF IInv
<1> QED
  BY Invariance, <1>1, PTL

\* A call that began with a halted core, and that no other has interfered with, changes
\* C_MASKINTS only in a halted core that stays halted.
THEOREM MaskChanges == Spec => MaskChangesHalted
<1> DEFINE Kept == mask' # mask /\ clean' => halted /\ chalt'
<1>1. IInv /\ [Next]_vars => [Kept]_vars
  <2> SUFFICES ASSUME IInv, [Next]_vars, mask' # mask, clean' PROVE halted /\ chalt'
    BY Zenon DEF vars
  <2>0. CallTypes /\ CoreTypes /\ HistTypes /\ KindInv /\ Prepared /\ ReadBack
    BY DEF IInv, TypeOK
  <2>1. CASE HaltMasked
    <3>1. Dhcsr(TRUE, TRUE)
      BY <2>1, Zenon DEF HaltMasked, WriteWord, Untouched, core
    <3>2. clean
      <4>1. CASE Go("unhalt")
        BY <4>1, Zenon DEF Go, hist
      <4>2. CASE Return("ERROR")
        BY <4>2, Zenon DEF Return
      <4> QED
        BY <2>1, <4>1, <4>2, Zenon DEF HaltMasked, WriteWord
    <3>3. halted
      BY <2>0, <2>1, <3>2 DEF HaltMasked, WriteWord, KindInv, Prepared, Before
    <3> QED
      BY <2>0, <3>1, <3>3, HaltWrite, Zenon
  <2>2. CASE Unhalt
    <3>1. Dhcsr(FALSE, TRUE)
      BY <2>2, Zenon DEF Unhalt, WriteWord, Untouched, core
    <3>2. clean
      <4>1. CASE Go("status")
        BY <4>1, Zenon DEF Go, hist
      <4>2. CASE Return("ERROR")
        BY <4>2, Zenon DEF Return
      <4> QED
        BY <2>2, <4>1, <4>2, Zenon DEF Unhalt, WriteWord
    <3>3. mask = TRUE
      BY <2>0, <2>2, <3>2 DEF Unhalt, WriteWord, KindInv, Prepared, Before, CoreTypes
    <3> QED
      BY <2>0, <3>1, <3>3, ResumeWrite, Zenon
  <2>3. CASE Unmask
    <3>1. Dhcsr(TRUE, FALSE)
      BY <2>3, Zenon DEF Unmask, WriteWord, Untouched, core
    <3>2. halted
      BY <2>0, <2>3 DEF Unmask, WriteWord, KindInv, ReadBack, Reading, Judging
    <3> QED
      BY <2>0, <3>1, <3>2, HaltWrite, Zenon
  <2>4. CASE swd_halt_target
    <3>1. Dhcsr(TRUE, FALSE) /\ halted
      BY <2>4, Zenon DEF swd_halt_target, Untouched, core
    <3> QED
      BY <2>0, <3>1, HaltWrite, Zenon
  <2>5. CASE WriteDcrdr \/ WriteDcrsr \/ SelectR0
    BY <2>5, Zenon DEF WriteDcrdr, WriteDcrsr, SelectR0, WriteWord, Dcrdr, RegisterIn,
                       RegisterOut, Untouched, core
  <2>6. CASE Select \/ PollWritten \/ Status \/ WaitUntilHalted \/ PollRead \/ ReadDcrdr
    BY <2>6, Zenon DEF Select, PollWritten, Status, WaitUntilHalted, PollRead, ReadDcrdr, Poll,
                       Read, Untouched, core
  <2>7. CASE Diag \/ Finish \/ DeadlinePasses \/ Breakpoint \/ Stop
    BY <2>7, Zenon DEF Diag, Finish, DeadlinePasses, Breakpoint, Stop, core
  <2>8. CASE \/ swd_flash_syscall_exec \/ swd_flash_syscall_exec_async
             \/ swd_flash_syscall_wait_result \/ swd_wait_until_halted
             \/ swd_read_core_register \/ swd_write_core_register
    BY <2>8, Zenon DEF swd_flash_syscall_exec, swd_flash_syscall_exec_async, Start,
       swd_flash_syscall_wait_result, swd_wait_until_halted, swd_read_core_register,
       swd_write_core_register, core
  <2>9. CASE UNCHANGED vars
    BY <2>9, Zenon DEF vars, core
  <2> QED
    BY <2>1, <2>2, <2>3, <2>4, <2>5, <2>6, <2>7, <2>8, <2>9, Zenon DEF Next, Run, Calls
<1> QED
  BY Invariance, <1>1, PTL DEF Spec, MaskChangesHalted
=============================================================================
