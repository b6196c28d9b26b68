------------------------------ MODULE SwdioBus ------------------------------
(***************************************************************************)
(* The pins of the translated SWD port, at the level of single pin writes: *)
(* the handoffs swd_esp_swdio_target_drive and swd_esp_swdio_host_drive,   *)
(* the bits and turnarounds of SWD_Transfer (cmsis_dap/SW_DP.c) and the    *)
(* pin part of swd_esp_port_setup and swd_esp_port_off, for the GPIO and   *)
(* dedicated GPIO backends.                                                *)
(*                                                                         *)
(* The target is external: it counts rising edges of SWCLK from the start  *)
(* bit, as the SWD protocol has it, and drives SWDIO only for its ACK and  *)
(* its read data.  It is configured with the host's turnaround and data    *)
(* phase.                                                                  *)
(***************************************************************************)
EXTENDS Naturals

CONSTANTS
  Turnarounds,   \* DAP_Data.swd_conf.turnaround, 1..4 in the code
  IdleCycles,    \* DAP_Data.transfer.idle_cycles
  DataBits,      \* data and parity, 32 + 1 in the code
  SwjBits        \* bits of an SWJ sequence (line reset and switch)

ASSUME CyclesAssumption == /\ Turnarounds \subseteq Nat \ {0}
                           /\ IdleCycles \subseteq Nat
                           /\ DataBits \in Nat \ {0}
                           /\ SwjBits \in Nat \ {0}

VARIABLES
  \* pins; noe, clkNoe: translators disabled, dir: DIR1 high (host to target)
  clk, clkNoe, noe, dir,
  pad,       \* output driver of HOST_SWDATA_OUT enabled
  out,       \* its latch: 0, 1 or 2 for a bit of the request or of the data
  \* host
  at,        \* the pin operation to make next
  phase, n,  \* the part of the transfer and the bits left in it
  rnw,       \* the transfer is a read
  ack,       \* what the host read, "bad" when it is none of the three
  conf,      \* DAP_Data: turnaround, data phase, idle cycles
  \* target
  tstate,    \* what it does, "lost" until the next line reset
  tedge      \* rising edges since the start bit

pins   == <<clk, clkNoe, noe, dir, pad, out>>
host   == <<at, phase, n, rnw, ack, conf>>
target == <<tstate, tedge>>
vars   == <<pins, host, target>>

Acks    == {"OK", "WAIT", "FAULT"}
Configs == [trn : Turnarounds, dataPhase : BOOLEAN, idle : IdleCycles]

TargetTurn == {"trnAck", "ack", "rdata", "trnRead", "trnWrite", "skip", "trnEnd", "backoff"}
HostTurn   == {"request", "wdata", "dummy", "idle", "park", "swj"}
Phases     == TargetTurn \union HostTurn \union {"setup"}

Bits       == {"out", "low", "sample", "high"}
ToTarget   == {"tdClk", "tdIsolate", "tdRelease", "tdTurn", "tdEnable"}
ToHost     == {"hdClk", "hdIsolate", "hdTurn", "hdPreload", "hdPad", "hdEnable"}
Offs       == {"offClk", "offIsolate", "offRelease", "offTurn", "offClkNoe"}

TypeOK ==
  /\ clk \in BOOLEAN /\ clkNoe \in BOOLEAN /\ noe \in BOOLEAN
  /\ dir \in BOOLEAN /\ pad \in BOOLEAN /\ out \in 0..2
  /\ at \in Bits \union ToTarget \union ToHost \union Offs \union {"off", "ready", "clkOn"}
  /\ phase \in Phases /\ n \in Nat /\ rnw \in BOOLEAN
  /\ ack \in Acks \union {"bad"} /\ conf \in Configs
  /\ tstate \in Acks \union {"idle", "request", "lost"} /\ tedge \in Nat

\* After swd_esp_port_init: the translators disabled, the pad an output.
Init ==
  /\ clk = FALSE /\ clkNoe = TRUE /\ noe = TRUE /\ dir = TRUE /\ pad = TRUE /\ out = 1
  /\ at = "off" /\ phase = "park" /\ n = 0 /\ rnw \in BOOLEAN /\ ack = "bad"
  /\ conf \in Configs
  /\ tstate = "lost" /\ tedge = 0

-----------------------------------------------------------------------------
\* The target (external).
AckAt   == 8 + conf.trn           \* the edge after which it drives the ACK
DataAt  == AckAt + 3
HasData == tstate = "OK" \/ conf.dataPhase

HostDrives   == ~noe /\ dir
TargetDrives ==
  /\ tstate \in Acks
  /\ tedge >= AckAt
  /\ tedge < DataAt + (IF rnw /\ HasData THEN DataBits ELSE 0)

\* The edges of a whole transfer, as the target counts them.
Transfer == DataAt + conf.trn + (IF HasData THEN DataBits ELSE 0)

\* It reads write data after a turnaround, at the edges that follow.
TargetSamples == tstate = "OK" /\ ~rnw /\ tedge >= DataAt + conf.trn

Counts(s, e) == tstate' = s /\ tedge' = e

\* A rising edge of SWCLK, as the target takes it.
TargetEdge ==
  \/ phase = "swj" /\ Counts(IF n = 1 THEN "idle" ELSE "lost", 0)
  \/ phase # "swj" /\ tstate = "lost" /\ UNCHANGED target
  \/ /\ phase # "swj" /\ tstate = "idle"
     /\ IF ~HostDrives THEN Counts("lost", 0)
        ELSE IF out = 0 THEN UNCHANGED target ELSE Counts("request", 1)
  \/ /\ phase # "swj" /\ tstate = "request"
     /\ IF tedge = 7 THEN \E s \in Acks \union {"lost"} : Counts(s, 8)
                     ELSE Counts("request", tedge + 1)
  \/ /\ phase # "swj" /\ tstate \in Acks
     /\ IF tedge + 1 = Transfer THEN Counts("idle", 0) ELSE Counts(tstate, tedge + 1)

-----------------------------------------------------------------------------
\* Where a phase begins: with OUT when the host sends its bits.
Begin(p) == IF p \in {"request", "wdata", "idle", "swj", "park"} THEN "out" ELSE "low"

\* The first bit of a phase, and the value a handoff to the host preloads.
Bit == CASE phase = "request" /\ n \in {8, 1} -> 1
         [] phase = "request" /\ n = 2        -> 0
         [] phase \in {"idle", "dummy"}       -> 0
         [] phase \in {"park", "setup"}       -> 1
         [] OTHER                             -> 2
Preload == IF phase = "idle" THEN 1 ELSE Bit

\* One operation of the host: from a position to a position.
Go(from, to) == at = from /\ at' = to /\ UNCHANGED <<phase, n, rnw, ack, conf>>

(***************************************************************************)
(* swd_esp_swdio_target_drive and swd_esp_swdio_host_drive                 *)
(***************************************************************************)
\* Mutants: a handoff that leaves the translator enabled and one that leaves the pad an output.
TdIsolateKept == Go("tdIsolate", "tdRelease") /\ UNCHANGED <<pins, target>>
TdReleaseKept == Go("tdRelease", "tdTurn") /\ UNCHANGED <<pins, target>>

TdClk     == Go("tdClk", "tdIsolate") /\ clk' = FALSE
             /\ UNCHANGED <<clkNoe, noe, dir, pad, out, target>>
TdIsolate == Go("tdIsolate", "tdRelease") /\ noe' = TRUE
             /\ UNCHANGED <<clk, clkNoe, dir, pad, out, target>>
TdRelease == Go("tdRelease", "tdTurn") /\ pad' = FALSE
             /\ UNCHANGED <<clk, clkNoe, noe, dir, out, target>>
TdTurn    == Go("tdTurn", "tdEnable") /\ dir' = FALSE
             /\ UNCHANGED <<clk, clkNoe, noe, pad, out, target>>
TdEnable  == Go("tdEnable", Begin(phase)) /\ noe' = FALSE
             /\ UNCHANGED <<clk, clkNoe, dir, pad, out, target>>

HdClk     == Go("hdClk", "hdIsolate") /\ clk' = FALSE
             /\ UNCHANGED <<clkNoe, noe, dir, pad, out, target>>
HdIsolate == Go("hdIsolate", "hdTurn") /\ noe' = TRUE
             /\ UNCHANGED <<clk, clkNoe, dir, pad, out, target>>
HdTurn    == Go("hdTurn", "hdPreload") /\ dir' = TRUE
             /\ UNCHANGED <<clk, clkNoe, noe, pad, out, target>>
HdPreload == Go("hdPreload", "hdPad") /\ out' = Preload
             /\ UNCHANGED <<clk, clkNoe, noe, dir, pad, target>>
HdPad     == Go("hdPad", "hdEnable") /\ pad' = TRUE
             /\ UNCHANGED <<clk, clkNoe, noe, dir, out, target>>
HdEnable  == Go("hdEnable", IF phase = "setup" THEN "clkOn" ELSE Begin(phase))
             /\ noe' = FALSE
             /\ UNCHANGED <<clk, clkNoe, dir, pad, out, target>>

(***************************************************************************)
(* Bits: SW_WRITE_BIT, SW_READ_BIT and SW_CLOCK_CYCLE                      *)
(***************************************************************************)
WriteOut ==
  /\ phase # "park" /\ Go("out", "low")
  /\ out' \in IF phase = "swj" THEN {0, 1} ELSE {Bit}
  /\ UNCHANGED <<clk, clkNoe, noe, dir, pad, target>>

\* The closing PIN_SWDIO_OUT(1U), without a clock.
Park ==
  /\ phase = "park" /\ Go("out", "ready")
  /\ out' = 1
  /\ UNCHANGED <<clk, clkNoe, noe, dir, pad, target>>

Fall ==
  /\ Go("low", IF phase \in {"ack", "rdata"} THEN "sample" ELSE "high")
  /\ clk' = FALSE
  /\ UNCHANGED <<clkNoe, noe, dir, pad, out, target>>

\* The host reads the line.  An ACK takes three bits, and one of them may come
\* out wrong, which makes it none of the three; with no answer it is anything.
Sample ==
  /\ at = "sample" /\ at' = "high"
  /\ IF phase = "ack" /\ n = 1
       THEN ack' \in IF tstate \in Acks THEN {tstate, "bad"} ELSE Acks \union {"bad"}
       ELSE UNCHANGED ack
  /\ UNCHANGED <<pins, phase, n, rnw, conf, target>>

-----------------------------------------------------------------------------
Enter(p, k, first) == phase' = p /\ n' = k /\ at' = first

\* Mutants: an extra turnaround clock after the request, an ACK phase without a
\* handoff, and write data without parity.
TurnToTargetExtra(p, k) == Enter(p, k + 1, "tdClk")
TurnToTargetNone(p, k)  == Enter(p, k, "low")
TurnToHostShort(p, k)   == Enter(p, IF k > 1 THEN k - 1 ELSE k, "hdClk")

\* Straight on to the next bits, or through a handoff.
Continue(p, k) == Enter(p, k, Begin(p))
TurnToTarget(p, k) == Enter(p, k, "tdClk")
TurnToHost(p, k) == Enter(p, k, "hdClk")

IdlePhase == IF conf.idle = 0 THEN "park" ELSE "idle"
NoAnswer  == ack \in {"WAIT", "FAULT"}

\* What follows the last bit of a phase in SWD_Transfer.
NextPhase ==
  \/ phase = "request" /\ TurnToTarget("trnAck", conf.trn)
  \/ phase = "trnAck" /\ Continue("ack", 3)
  \/ /\ phase = "ack"
     /\ \/ ack = "OK" /\ rnw /\ Continue("rdata", DataBits)
        \/ ack = "OK" /\ ~rnw /\ Continue("trnWrite", conf.trn)
        \/ NoAnswer /\ conf.dataPhase /\ rnw /\ Continue("skip", DataBits)
        \/ NoAnswer /\ ~(conf.dataPhase /\ rnw) /\ Continue("trnEnd", conf.trn)
        \/ ack = "bad" /\ Continue("backoff", conf.trn + DataBits)
  \/ phase = "rdata" /\ Continue("trnRead", conf.trn)
  \/ phase = "trnRead" /\ TurnToHost(IdlePhase, conf.idle)
  \/ phase = "trnWrite" /\ TurnToHost("wdata", DataBits)
  \/ phase = "wdata" /\ Continue(IdlePhase, conf.idle)
  \/ phase = "skip" /\ Continue("trnEnd", conf.trn)
  \/ phase = "trnEnd" /\ conf.dataPhase /\ ~rnw /\ TurnToHost("dummy", DataBits)
  \/ phase = "trnEnd" /\ ~(conf.dataPhase /\ ~rnw) /\ TurnToHost("park", 0)
  \/ phase = "backoff" /\ TurnToHost("park", 0)
  \/ phase \in {"dummy", "idle"} /\ Continue("park", 0)
  \/ phase = "swj" /\ Enter("park", 0, "ready")

Rise ==
  /\ at = "high"
  /\ clk' = TRUE
  /\ IF clkNoe THEN UNCHANGED target ELSE TargetEdge
  /\ IF n > 1 THEN Enter(phase, n - 1, IF phase = "idle" THEN "low" ELSE Begin(phase))
              ELSE NextPhase
  /\ UNCHANGED <<clkNoe, noe, dir, pad, out, rnw, ack, conf>>

(***************************************************************************)
(* The calls, between which the host owns the bus                          *)
(***************************************************************************)
SWD_Transfer ==
  /\ at = "ready"
  /\ rnw' \in BOOLEAN /\ Continue("request", 8)
  /\ UNCHANGED <<pins, ack, conf, target>>

SWJ_Sequence ==
  /\ at = "ready"
  /\ Continue("swj", SwjBits)
  /\ UNCHANGED <<pins, rnw, ack, conf, target>>

SWD_Configure ==
  /\ at = "ready"
  /\ conf' \in Configs
  /\ UNCHANGED <<pins, at, phase, n, rnw, ack, target>>

\* swd_esp_port_setup, from swd_init or once more from DAP_Connect.
Setup ==
  /\ at \in {"off", "ready"}
  /\ TurnToHost("setup", 0)
  /\ UNCHANGED <<pins, rnw, ack, conf, target>>
ClkOn == at = "clkOn" /\ Enter("park", 0, "ready") /\ clkNoe' = FALSE
         /\ UNCHANGED <<clk, noe, dir, pad, out, rnw, ack, conf, target>>

\* swd_esp_port_off
Off        == Go("ready", "offClk") /\ UNCHANGED <<pins, target>>
OffClk     == Go("offClk", "offIsolate") /\ clk' = FALSE
              /\ UNCHANGED <<clkNoe, noe, dir, pad, out, target>>
OffIsolate == Go("offIsolate", "offRelease") /\ noe' = TRUE
              /\ UNCHANGED <<clk, clkNoe, dir, pad, out, target>>
OffRelease == Go("offRelease", "offTurn") /\ pad' = FALSE
              /\ UNCHANGED <<clk, clkNoe, noe, dir, out, target>>
OffTurn    == Go("offTurn", "offClkNoe") /\ dir' = FALSE
              /\ UNCHANGED <<clk, clkNoe, noe, pad, out, target>>
OffClkNoe  == Go("offClkNoe", "off") /\ clkNoe' = TRUE
              /\ UNCHANGED <<clk, noe, dir, pad, out, target>>

-----------------------------------------------------------------------------
Handoff == \/ TdClk \/ TdIsolate \/ TdRelease \/ TdTurn \/ TdEnable
           \/ HdClk \/ HdIsolate \/ HdTurn \/ HdPreload \/ HdPad \/ HdEnable
Clocking == WriteOut \/ Fall \/ Sample \/ Rise \/ Park
PortOff == OffClk \/ OffIsolate \/ OffRelease \/ OffTurn \/ OffClkNoe
Run  == Handoff \/ Clocking \/ ClkOn \/ PortOff
Call == SWD_Transfer \/ SWJ_Sequence \/ SWD_Configure \/ Setup \/ Off
Next == Run \/ Call

Spec == Init /\ [][Next]_vars

-----------------------------------------------------------------------------
\* The translator never drives HOST_SWDATA_OUT against the ESP pad, and never
\* drives the target from a floating pad: while it is enabled, the pad is an
\* output exactly when DIR1 points to the target (README.md, isolation table).
PadMatchesTranslator == ~noe => (pad <=> dir)

\* Host and target never drive the wire together, in any answer, turnaround
\* length and data phase, an ACK that came out wrong included.
NoBusClash == ~(HostDrives /\ TargetDrives)

\* SWCLK is low whenever the data translator is isolated on a live clock line,
\* so a handoff gives the target no edge of its own.
IsolatedClockLow == noe /\ ~clkNoe => ~clk

\* Every bit is sampled at the edge it belongs to: the host reads bit k of the
\* ACK and of the data while the target drives bit k, and the target reads bit
\* k of the write data while the host drives bit k.
BitsAligned ==
  /\ at = "sample" /\ phase = "ack" /\ tstate \in Acks =>
       TargetDrives /\ tedge + n = DataAt
  /\ at = "sample" /\ phase = "rdata" /\ tstate \in Acks =>
       tstate = "OK" /\ TargetDrives /\ tedge + n = DataAt + DataBits
  /\ at = "high" /\ TargetSamples /\ ack # "bad" =>
       HostDrives /\ phase = "wdata" /\ tedge + n = Transfer

\* A call leaves the target between transfers: every branch of SWD_Transfer
\* clocks exactly the edges that the target counts.
InSync == at = "ready" => tstate \in {"idle", "lost"}

\* DIR1 changes only while the translator is isolated, the pad released and
\* SWCLK low (README.md, "change DIR1 only while /OE is high").
DirOnlyIsolated == [][dir' # dir => noe /\ noe' /\ ~pad /\ ~pad' /\ ~clk]_vars

\* The target that answered is not lost by the host's clocks: it falls out of
\* step only by ignoring a request, by an ACK that came out wrong, or in the
\* line reset itself.
StaysInStep == [][ tstate' = "lost" /\ tstate \notin {"request", "lost"}
                     => phase = "backoff" \/ phase = "swj" ]_vars

\* The wire as BusTurns has it: never handed over without a release between.
Driver == CASE HostDrives /\ TargetDrives -> "clash"
            [] HostDrives /\ ~TargetDrives -> "host"
            [] TargetDrives /\ ~HostDrives -> "target"
            [] OTHER -> "none"
Turns == INSTANCE BusTurns WITH driver <- Driver
TurnsSpec == Turns!Spec
=============================================================================
