----------------------------- MODULE DapCommands -----------------------------
(***************************************************************************)
(* The CMSIS-DAP commands other than the transfers (those are DapTransfer) *)
(* as functions: what cmsis_dap/DAP.c does to DAP_Data, what it answers    *)
(* and how many bytes of the request it says it has consumed.  A command   *)
(* is its name and its parameters, numbers as in the packet.               *)
(***************************************************************************)
EXTENDS Integers, Sequences, SequencesExt

CONSTANTS
  HalfClock,      \* CPU_CLOCK/2U
  WriteCycles,    \* IO_PORT_WRITE_CYCLES
  FastCycles      \* DELAY_FAST_CYCLES

ASSUME ClockAssumption == /\ HalfClock \in Nat \ {0} /\ WriteCycles \in Nat \ {0}
                          /\ FastCycles \in Nat

Cmd(op, arg) == [op |-> op, arg |-> arg]

Disabled == 0
Swd      == 1                     \* DAP_PORT_SWD and DAP_DEFAULT_PORT

-----------------------------------------------------------------------------
\* DAP_SWJ_Clock: the delay of half a period, in cycles.
MaxSwjClock == HalfClock \div (WriteCycles + FastCycles)

\* Mutant: the quotient is rounded down.
DelayDown(hz) ==
  LET half == HalfClock \div hz
  IN  IF half > WriteCycles THEN half - WriteCycles ELSE 1

Delay(hz) ==
  LET half == (HalfClock + hz - 1) \div hz
  IN  IF half > WriteCycles THEN half - WriteCycles ELSE 1

Clocked(conf, hz) ==
  [conf EXCEPT !.hz = hz, !.fast = hz >= MaxSwjClock,
               !.delay = IF hz >= MaxSwjClock THEN 1 ELSE Delay(hz)]

\* DAP_Setup; the clock -1 asks for no pacing, and is 0 here.
SetupConf(hz) ==
  LET conf == [port |-> Disabled, turnaround |-> 1, dataPhase |-> FALSE,
               hz |-> 0, fast |-> TRUE, delay |-> 1]
  IN  IF hz = 0 THEN conf ELSE Clocked(conf, hz)

-----------------------------------------------------------------------------
\* What a command leaves in DAP_Data.
Effect(conf, c) ==
  CASE c.op = "Connect" /\ c.arg[1] \in {0, Swd} -> [conf EXCEPT !.port = Swd]
    [] c.op = "Disconnect" -> [conf EXCEPT !.port = Disabled]
    [] c.op = "SWJ_Clock" /\ c.arg[1] # 0 -> Clocked(conf, c.arg[1])
    [] c.op = "SWD_Configure" -> [conf EXCEPT !.turnaround = (c.arg[1] % 4) + 1,
                                              !.dataPhase = (c.arg[1] \div 4) % 2 = 1]
    [] OTHER -> conf

\* JTAG is compiled out (DAP_JTAG 0); nested batches and unknown commands have no
\* case of their own.
Known == {"Info", "HostStatus", "Connect", "Disconnect", "Delay", "ResetTarget",
          "SWJ_Pins", "SWJ_Clock", "SWJ_Sequence", "SWD_Configure", "SWD_Sequence",
          "JTAG_Sequence", "JTAG_Configure", "JTAG_IDCODE", "TransferConfigure",
          "WriteABORT"}

Answer(conf, c) ==
  CASE c.op \notin Known -> "Invalid"
    [] c.op = "Info" -> "Info"
    [] c.op = "SWJ_Pins" -> "Pins"
    [] c.op = "Connect" -> IF c.arg[1] \in {0, Swd} THEN "SWD" ELSE "Disabled"
    [] \/ c.op = "HostStatus" /\ c.arg[1] \notin {0, 1}
       \/ c.op = "SWJ_Clock" /\ c.arg[1] = 0
       \/ c.op = "WriteABORT" /\ conf.port # Swd
       \/ c.op \in {"JTAG_Sequence", "JTAG_Configure", "JTAG_IDCODE"} -> "Error"
    [] OTHER -> "OK"

-----------------------------------------------------------------------------
\* Bits in the byte that describes a sequence, 64 written as 0; bit 7 is SWDI.
InfoBits(info) == IF info % 64 = 0 THEN 64 ELSE info % 64
Input(info)    == info >= 128
BytesOf(bits)  == (bits + 7) \div 8

Total(counts) == FoldLeft(LAMBDA sum, n : sum + n, 0, counts)

\* Mutant: a sequence of 256 bits, written as 0, has no data.
SwjBitsZero(count) == count

SwjBits(count) == IF count = 0 THEN 256 ELSE count

\* The upper half of what DAP_ProcessCommand returns.
Consumed(c) ==
  CASE c.op \in {"Disconnect", "ResetTarget"} \/ c.op \notin Known -> 1
    [] c.op \in {"Info", "Connect", "SWD_Configure", "JTAG_IDCODE"} -> 2
    [] c.op \in {"HostStatus", "Delay"} -> 3
    [] c.op = "SWJ_Clock" -> 5
    [] c.op \in {"TransferConfigure", "WriteABORT"} -> 6
    [] c.op = "SWJ_Pins" -> 7
    [] c.op = "SWJ_Sequence" -> 2 + BytesOf(SwjBits(c.arg[1]))
    [] c.op = "SWD_Sequence" ->
         2 + Total([k \in DOMAIN c.arg |->
                    IF Input(c.arg[k]) THEN 1 ELSE 1 + BytesOf(InfoBits(c.arg[k]))])
    [] c.op = "JTAG_Sequence" ->
         2 + Total([k \in DOMAIN c.arg |-> 1 + BytesOf(InfoBits(c.arg[k]))])
    [] c.op = "JTAG_Configure" -> 2 + c.arg[1]

\* The bytes the client has put into a command (external): its name, its
\* parameters and, byte by byte, the bits of its sequences.
Parameters == [Info |-> 1, HostStatus |-> 2, Connect |-> 1, Disconnect |-> 0,
               Delay |-> 2, ResetTarget |-> 0, SWJ_Pins |-> 6, SWJ_Clock |-> 4,
               SWD_Configure |-> 1, JTAG_IDCODE |-> 1, TransferConfigure |-> 5,
               WriteABORT |-> 5, Unknown |-> 0]
DataBytes(bits) == CHOOSE b \in 0..32 : 8 * b >= bits /\ 8 * (b - 1) < bits
Sequence(x, written) ==
  1 + (IF written THEN DataBytes(IF x % 64 = 0 THEN 64 ELSE x % 64) ELSE 0)
Bytes(c) ==
  CASE c.op = "SWJ_Sequence" -> 2 + DataBytes(IF c.arg[1] = 0 THEN 256 ELSE c.arg[1])
    [] c.op = "SWD_Sequence" -> 2 + Total([k \in DOMAIN c.arg |-> Sequence(c.arg[k], c.arg[k] < 128)])
    [] c.op = "JTAG_Sequence" -> 2 + Total([k \in DOMAIN c.arg |-> Sequence(c.arg[k], TRUE)])
    [] c.op = "JTAG_Configure" -> 2 + c.arg[1]
    [] OTHER -> 1 + Parameters[c.op]
=============================================================================
