------------------------------- MODULE SpiBus --------------------------------
(***************************************************************************)
(* The SPI wire engine, cmsis_dap/SW_DP_SPI.c.  Every burst of clocks is   *)
(* one transaction of the SPI controller, whose chip select is the         *)
(* translator's /OE: between two transactions SWDIO is isolated, and there *)
(* swd_esp_swdio_target_drive and swd_esp_swdio_host_drive (SW_DP.c) turn  *)
(* the pad and DIR1.  The CPU waits for every transaction without a        *)
(* deadline.                                                               *)
(*                                                                         *)
(* A transaction that listens stores a sample per clock.  At 16 MHz and    *)
(* above it is what was on the line before the edge, the standard          *)
(* alignment; below, what the target puts there at that edge.              *)
(***************************************************************************)
EXTENDS SwdTarget

CONSTANTS
  Alignments,    \* SWD_SPI_RX_STANDARD_ALIGNMENT, a choice of the build
  PhaseBits,     \* SWD_SPI_MAX_PHASE_BITS
  SequenceBits,  \* bits of an SWJ sequence, up to 256 in the code
  Sequences      \* DAP_SWD_Sequence: lists of "din" and "dout"

\* The answer and the rest of a read have to fit in a transaction each, and the
\* bits read ahead with the answer in a word.
ASSUME SpiAssumption ==
  /\ Alignments \subseteq BOOLEAN
  /\ PhaseBits \in Nat /\ PhaseBits >= DataBits /\ SequenceBits \in Nat \ {0}
  /\ \A trn \in Turnarounds : PhaseBits >= 2 * trn + 3 /\ DataBits >= trn + 2
  /\ Sequences \subseteq Seq({"din", "dout"}) \ {<<>>}

VARIABLES
  standard,        \* the alignment
  \* pins
  cs,              \* CS0 is routed: a transaction enables the translator
  noe, dir, pad,   \* /OE high, DIR1 high (host to target), HOST_SWDATA_OUT driven
  clkNoe,          \* clock translator disabled
  idleLevel,       \* swd_spi_data_idle_level, the level before the first bit
  \* the transaction
  clocks, done,    \* its clocks, those made
  got,             \* samples
  \* CPU
  at, phase,
  left,            \* bits of the phase for further transactions
  rest,            \* sequences of DAP_SWD_Sequence still to do
  response,        \* what was received with the answer
  ack, value, parity, result

pins == <<cs, noe, dir, pad, clkNoe, idleLevel>>
burst == <<clocks, done, got>>
answer == <<response, ack, value, parity, result>>
vars == <<standard, pins, burst, at, phase, left, rest, answer, conf, rnw, target>>

Sends   == {"request", "wdata", "idle", "zero", "swj", "dout"}
Listens == {"ack", "rdata", "skip", "backoff", "din"}
Turns   == {"readBack", "giveback", "setup", "enable"}   \* host_drive and no clocks
Phases  == Sends \union Listens \union Turns \union {"off", "none"}

TypeOK ==
  /\ TargetTypes /\ standard \in BOOLEAN
  /\ cs \in BOOLEAN /\ noe \in BOOLEAN /\ dir \in BOOLEAN /\ pad \in BOOLEAN
  /\ clkNoe \in BOOLEAN /\ idleLevel \in Labels
  /\ clocks \in 0..PhaseBits /\ done \in 0..clocks /\ got \in Seq(Nat)
  /\ at \in {"ready", "turn", "start", "clock", "next", "sequence"}
  /\ phase \in Phases /\ left \in Nat /\ rest \in Seq({"din", "dout"})
  /\ response \in Seq(Nat) /\ ack \in Acks \union {"bad", "ERROR"}
  /\ value \in Seq(Nat) /\ parity \in Nat
  /\ result \in Acks \union {"bad", "ERROR", "done", "none"}

\* swd_esp_port_init has left CS0 unrouted and the pad driven towards the target.
Init ==
  /\ standard \in Alignments /\ conf \in Configs /\ rnw = FALSE
  /\ tstate = "lost" /\ tedge = 0 /\ said = "none" /\ took = 0
  /\ cs = FALSE /\ noe = TRUE /\ dir = TRUE /\ pad = TRUE /\ clkNoe = TRUE
  /\ idleLevel = 1
  /\ clocks = 0 /\ done = 0 /\ got = <<>>
  /\ at = "ready" /\ phase = "none" /\ left = 0 /\ rest = <<>>
  /\ response = <<>> /\ ack = "bad" /\ value = <<>> /\ parity = 0 /\ result = "none"

-----------------------------------------------------------------------------
\* Bit k of what a phase sends.
Bit(p, k) ==
  CASE p = "request" -> IF k \in {1, 8} THEN 1 ELSE IF k = 7 THEN 0 ELSE 2
    [] p = "wdata" -> Data(k)
    [] p \in {"idle", "zero"} -> 0
    [] p \in {"swj", "dout"} -> 2

\* Before a phase the bus is turned to the target, to the host with a first level,
\* or not at all; host_drive(1) and host_drive(value & 1).
ToTarget(p) == p \in {"ack", "din"}
ToHost(p)   == p \in Turns \union {"wdata", "zero", "dout"}
First(p)    == CASE p = "wdata" -> Data(1)
                 [] p = "zero" -> 0
                 [] OTHER -> 1

TargetDrive == pad' = FALSE /\ dir' = FALSE /\ UNCHANGED idleLevel
HostDrive(level) == pad' = TRUE /\ dir' = TRUE /\ idleLevel' = level

Turn ==
  /\ at = "turn" /\ at' = IF phase \in Turns THEN "next" ELSE "start"
  /\ \/ ToTarget(phase) /\ TargetDrive
     \/ ToHost(phase) /\ HostDrive(First(phase))
     \/ ~ToTarget(phase) /\ ~ToHost(phase) /\ UNCHANGED <<pad, dir, idleLevel>>
  /\ UNCHANGED <<standard, cs, noe, clkNoe, burst, phase, left, rest, answer, conf, rnw, target>>

Chunk == IF left > PhaseBits THEN PhaseBits ELSE left

\* Mutant: the data line keeps its level before the first bit.
FirstLevelKept == idleLevel

\* swd_spi_tx_bits sets the level before the first bit; the request and the write
\* data are sent without it.
FirstLevel == IF phase \in Sends \ {"request", "wdata"} THEN Bit(phase, 1) ELSE idleLevel

\* A transaction begins, of at most PhaseBits clocks.
Start ==
  /\ at = "start" /\ at' = "clock"
  /\ clocks' = Chunk /\ done' = 0 /\ got' = <<>>
  /\ left' = left - Chunk
  /\ noe' = ~cs
  /\ idleLevel' = FirstLevel
  /\ UNCHANGED <<standard, cs, dir, pad, clkNoe, phase, rest, answer, conf, rnw, target>>

HostDrives == ~noe /\ dir /\ pad

Clock ==
  /\ at = "clock" /\ done < clocks
  /\ done' = done + 1
  /\ UNCHANGED <<standard, pins, clocks, at, phase, left, rest, answer, conf, rnw>>
  /\ IF clkNoe THEN UNCHANGED target
     ELSE IF phase = "swj" THEN SequenceEdge(left = 0 /\ done' = clocks)
     ELSE IF phase = "dout" THEN SequenceEdge(FALSE)
     ELSE TargetEdge(HostDrives, IF phase \in Sends THEN Bit(phase, done') ELSE Undriven)
  /\ got' = IF phase \notin Listens THEN got
            ELSE Append(got, IF noe \/ dir THEN Undriven
                             ELSE IF standard THEN Line ELSE Line')

-----------------------------------------------------------------------------
\* What swd_esp_spi_transfer finds where, by the alignment.
AckShift    == IF standard THEN conf.trn ELSE conf.trn - 1
PrefixCount == IF standard THEN conf.trn ELSE conf.trn + 1
ParityShift == DataBits - 1 - PrefixCount

\* Mutant: the prefix is as long as the turnaround in either alignment.
ReadValueSame ==
  SubSeq(response, AckShift + 4, AckShift + 3 + conf.trn)
    \o SubSeq(got, 1, DataBits - 1 - conf.trn)

\* The data bits: those received after the answer, then the tail's.
ReadValue ==
  SubSeq(response, AckShift + 4, AckShift + 3 + PrefixCount)
    \o SubSeq(got, 1, DataBits - 1 - PrefixCount)

\* The transaction is over, its samples are used and CS isolates again.
Finish ==
  /\ at = "clock" /\ done = clocks
  /\ noe' = TRUE
  /\ clocks' = 0 /\ done' = 0 /\ got' = <<>>
  /\ at' = IF left > 0 THEN "start" ELSE "next"
  /\ idleLevel' = IF phase \in Sends \ {"request", "wdata"}
                    THEN Bit(phase, clocks) ELSE idleLevel
  /\ response' = IF phase = "ack" THEN got ELSE response
  /\ ack' \in CASE phase = "ack" -> AckOf(SubSeq(got, AckShift + 1, AckShift + 3))
                [] phase = "rdata" -> {"OK", "ERROR"}      \* the parity is wrong
                [] OTHER -> {ack}
  /\ IF phase = "rdata" THEN value' = ReadValue /\ parity' = got[ParityShift + 1]
                        ELSE UNCHANGED <<value, parity>>
  /\ UNCHANGED <<standard, cs, dir, pad, clkNoe, phase, left, rest, result, conf, rnw, target>>

-----------------------------------------------------------------------------
\* Clocks of a phase; the answer comes with one turnaround more.
Bits(p) ==
  CASE p = "request" -> 8
    [] p = "ack" -> 2 * conf.trn + 3
    [] p \in {"wdata", "rdata", "skip", "zero", "backoff"} -> DataBits
    [] p = "idle" -> conf.idle
    [] p \in {"swj", "din", "dout"} -> SequenceBits
    [] OTHER -> 0

To(p) == at' = "turn" /\ phase' = p /\ left' = Bits(p)
NoAnswer == ack \in {"WAIT", "FAULT"}

\* Mutants: a fault is followed by no data phase; the data phase is forgotten.
AfterWait == IF conf.dataPhase /\ ack = "WAIT"
               THEN IF rnw THEN "skip" ELSE "zero" ELSE "giveback"
AfterForgotten == "giveback"

\* What follows WAIT and FAULT.
AfterNoAnswer == IF conf.dataPhase THEN IF rnw THEN "skip" ELSE "zero" ELSE "giveback"

\* swd_esp_spi_transfer, from phase to phase.
NextPhase ==
  /\ at = "next"
  /\ \/ phase = "request" /\ To("ack")
     \/ /\ phase = "ack"
        /\ \/ ack = "OK" /\ To(IF rnw THEN "rdata" ELSE "wdata")
           \/ NoAnswer /\ To(AfterNoAnswer)
           \/ ack = "bad" /\ To("backoff")
     \/ phase = "rdata" /\ To("readBack")
     \/ phase \in {"readBack", "wdata"} /\ conf.idle > 0 /\ To("idle")
     \/ phase \in {"skip", "backoff"} /\ To("giveback")
  /\ UNCHANGED <<standard, pins, burst, rest, answer, conf, rnw, target>>

\* set_data_idle(1) at the end of a transfer.
Return ==
  /\ at = "next"
  /\ \/ phase \in {"readBack", "wdata"} /\ conf.idle = 0
     \/ phase \in {"idle", "zero", "giveback"}
  /\ at' = "ready" /\ result' = ack /\ idleLevel' = 1
  /\ UNCHANGED <<standard, cs, noe, dir, pad, clkNoe, burst, phase, left, rest,
                 response, ack, value, parity, conf, rnw, target>>

\* The other calls end; port set-up enables the clock last.
Ends ==
  /\ at = "next"
  /\ \/ phase \in {"din", "dout"} /\ at' = "sequence" /\ UNCHANGED <<result, clkNoe>>
     \/ /\ phase \in {"swj", "setup", "enable"} /\ at' = "ready" /\ result' = "done"
        /\ clkNoe' = IF phase = "setup" THEN FALSE ELSE clkNoe
  /\ UNCHANGED <<standard, cs, noe, dir, pad, idleLevel, burst, phase, left, rest,
                 response, ack, value, parity, conf, rnw, target>>

\* DAP_SWD_Sequence turns the bus before each of its sequences, and back at the end.
NextSequence ==
  /\ at = "sequence"
  /\ IF rest = <<>> THEN To("enable") /\ UNCHANGED rest
                    ELSE To(Head(rest)) /\ rest' = Tail(rest)
  /\ UNCHANGED <<standard, pins, burst, answer, conf, rnw, target>>

(***************************************************************************)
(* The calls.  Sequences are sent whatever the port is set up for; a       *)
(* transfer needs it to be set up.                                         *)
(***************************************************************************)
Forget == /\ response' = <<>> /\ ack' = "bad" /\ value' = <<>> /\ parity' = 0
          /\ result' = "none" /\ said' = "none" /\ took' = 0
          /\ UNCHANGED <<standard, noe, burst, conf, tstate, tedge>>

swd_esp_spi_transfer ==
  /\ at = "ready" /\ cs
  /\ To("request") /\ Forget
  /\ rnw' \in BOOLEAN /\ idleLevel' = 1
  /\ UNCHANGED <<cs, dir, pad, clkNoe, rest>>

swd_esp_spi_swj_sequence ==
  /\ at = "ready" /\ To("swj") /\ Forget
  /\ UNCHANGED <<cs, dir, pad, clkNoe, idleLevel, rest, rnw>>

DAP_SWD_Sequence ==
  /\ at = "ready" /\ at' = "sequence" /\ phase' = "none" /\ left' = 0 /\ Forget
  /\ rest' \in Sequences
  /\ UNCHANGED <<cs, dir, pad, clkNoe, idleLevel, rnw>>

\* swd_esp_spi_set_data_idle, from DAP_SWJ_Pins.
SetDataIdle ==
  /\ at = "ready" /\ idleLevel' \in {0, 1} /\ idleLevel' # idleLevel
  /\ UNCHANGED <<standard, cs, noe, dir, pad, clkNoe, burst, at, phase, left, rest,
                 answer, conf, rnw, target>>

SWD_Configure ==
  /\ at = "ready" /\ conf' \in Configs /\ result' = "done"
  /\ UNCHANGED <<standard, pins, burst, at, phase, left, rest, response, ack, value,
                 parity, rnw, target>>

swd_esp_port_setup ==
  /\ at = "ready" /\ To("setup") /\ Forget
  /\ cs' = TRUE
  /\ UNCHANGED <<dir, pad, clkNoe, idleLevel, rest, rnw>>

swd_esp_port_off ==
  /\ at = "ready" /\ phase' = "off" /\ left' = 0 /\ Forget
  /\ idleLevel' = 1 /\ cs' = FALSE /\ pad' = FALSE /\ dir' = FALSE /\ clkNoe' = TRUE
  /\ UNCHANGED <<at, rest, rnw>>

Next ==
  \/ Turn \/ Start \/ Clock \/ Finish \/ NextPhase \/ Return \/ Ends \/ NextSequence
  \/ swd_esp_spi_transfer \/ swd_esp_spi_swj_sequence \/ DAP_SWD_Sequence
  \/ SetDataIdle \/ SWD_Configure \/ swd_esp_port_setup \/ swd_esp_port_off

Spec == Init /\ [][Next]_vars

-----------------------------------------------------------------------------
\* A transfer the target answered reports OK only when it was that, and then a read
\* has its data and parity bits in their places, for every turnaround and either
\* alignment, and of a write the target took every bit at its own edge.
OkIsExact ==
  at = "ready" /\ phase \in {"readBack", "wdata", "idle"} /\ result = "OK" /\ said # "none" =>
    /\ said = "OK"
    /\ IF rnw THEN Append(value, parity) = [k \in 1..DataBits |-> DataAt + k - 1]
              ELSE took = DataBits

\* No call loses the clock count of the target: it is between transfers when the
\* call returns, or lost for a reason of its own (a request it does not understand,
\* an ACK that came out wrong, a sequence).
InStep ==
  [][ /\ at' = "ready" => tstate' \in {"idle", "lost"}
      /\ tstate' = "lost" /\ tstate \notin {"request", "lost"}
           => phase \in {"backoff", "swj", "din", "dout"} ]_vars

\* While the translator is enabled the pad drives exactly when DIR1 points at the
\* target, and before the first clock of a transaction that sends, the line has
\* already the level of its first bit.
WireIsMeant ==
  ~noe => /\ pad = dir
          /\ phase \in Sends => dir /\ (done = 0 => idleLevel = Bit(phase, 1))
          /\ phase \in Listens => ~dir

\* The wire as BusTurns has it.
Driver == CASE HostDrives /\ TargetDrives -> "clash"
            [] HostDrives /\ ~TargetDrives -> "host"
            [] TargetDrives /\ ~HostDrives -> "target"
            [] OTHER -> "none"
Wire == INSTANCE BusTurns WITH driver <- Driver
TurnsSpec == Wire!Spec
=============================================================================
