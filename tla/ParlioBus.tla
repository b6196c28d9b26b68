------------------------------ MODULE ParlioBus ------------------------------
(***************************************************************************)
(* The PARLIO wire engine, cmsis_dap/SW_DP_PARLIO.c: the CPU prepares a    *)
(* phase in one of two buffers, starts it and waits; the DMA plays it word *)
(* by word on the lanes for SWDIO, /OE, DIR1 and the clock gate, and the   *)
(* receiver stores what the line shows at each clock.  Between two phases  *)
(* the lanes show the idle word of the last one.                           *)
(*                                                                         *)
(* CPU and DMA are two actors: the CPU may prepare the next phase while    *)
(* one plays, and may give up on it (SWD_PARLIO_TIMEOUT_CYCLES) at any     *)
(* word, for the hardware may hang and the task may be suspended.          *)
(***************************************************************************)
EXTENDS SwdTarget

CONSTANTS
  GuardWords,    \* swd_parlio_guard_words(), at least 1
  PhaseBits,     \* bits of one phase of the host, 64 in the code
  SequenceBits,  \* bits of an SWJ or SWD sequence, up to 256 in the code
  Sequences      \* DAP_SWD_Sequence: lists of "din" and "dout"

ASSUME BitsAssumption      == /\ GuardWords \in Nat \ {0}
                              /\ {PhaseBits, SequenceBits} \subseteq Nat \ {0}
ASSUME SequencesAssumption == Sequences \subseteq Seq({"din", "dout"}) \ {<<>>}

VARIABLES
  \* pins
  noe, dir, out,   \* the lanes: /OE high, DIR1 high (host to target), SWDIO
  pad,             \* output driver of HOST_SWDATA_OUT enabled
  clkNoe,          \* clock translator disabled
  \* transmitter and receiver
  buf,             \* swd_tx_buffer: the phase prepared in each of the two
  playing, pos,    \* the DMA runs, words played
  idleWord,        \* idle_data_value
  held,            \* a phase was aborted: the lanes need not show the idle word
  got, want,       \* samples stored, samples the receiver still waits for
  \* CPU
  nextBuffer,      \* swd_parlio_next_buffer
  cur, ahead,      \* the buffer of this phase, of the data phase
  owns,            \* swd_parlio_host_owns_bus
  at,              \* the statement to run next
  phase,           \* the part of the call
  left,            \* bits of it that do not fit in this phase
  rest,            \* sequences of DAP_SWD_Sequence still to do
  ack, value,      \* what the call read
  result,          \* what it returned, "none" while it runs
  \* target
  stray            \* a failed phase left it within a transfer, and lost: it drives or not

pins   == <<noe, dir, out, pad, clkNoe>>
lanes  == <<noe, dir, out>>
dma    == <<buf, playing, pos, idleWord, held, got, want>>
cpu    == <<nextBuffer, cur, ahead, owns, at, phase, left, rest, ack, value, result>>
vars   == <<pins, dma, cpu, conf, rnw, target, stray>>

HostPhases   == {"request", "wdata", "readBack", "giveback", "idle", "park", "dummy",
                 "swj", "dout", "dinBack", "setup", "pins", "isolate", "offHost"}
TargetPhases == {"ack", "rdata", "skip", "trnEnd", "backoff", "din"}
Phases       == HostPhases \union TargetPhases \union {"offTarget", "none"}
PhaseRecords == [turn : {"host", "target"}, what : Phases, count : Nat,
                 acquire : BOOLEAN, isolate : BOOLEAN]
Steps        == {"ready", "host", "pad", "start", "wait", "release", "target",
                 "ahead", "finish", "next", "clkOn", "clkOff", "outDisable",
                 "outEnable", "enablePad", "sequence"}

TypeOK ==
  /\ TargetTypes
  /\ noe \in BOOLEAN /\ dir \in BOOLEAN /\ out \in Labels
  /\ pad \in BOOLEAN /\ clkNoe \in BOOLEAN
  /\ buf \in [{0, 1} -> PhaseRecords] /\ playing \in BOOLEAN /\ pos \in Nat
  /\ idleWord \in [noe : BOOLEAN, dir : BOOLEAN, out : Labels] /\ held \in BOOLEAN
  /\ got \in Seq(Nat) /\ want \in Nat
  /\ nextBuffer \in {0, 1} /\ cur \in {0, 1} /\ ahead \in {0, 1} /\ owns \in BOOLEAN
  /\ at \in Steps /\ phase \in Phases /\ left \in Nat /\ rest \in Seq({"din", "dout"})
  /\ ack \in Acks \union {"bad", "ERROR"} /\ value \in Seq(Nat)
  /\ result \in Acks \union {"bad", "ERROR", "done", "none"}
  /\ stray \in {"no", "quiet", "drives"}

-----------------------------------------------------------------------------
\* What swd_parlio_prepare_host_phase and swd_parlio_prepare_target_phase write.
HostPhase(what, count, acquire, isolate) ==
  [turn |-> "host", what |-> what, count |-> count,
   acquire |-> acquire, isolate |-> isolate]
TargetPhase(what, count) ==
  [turn |-> "target", what |-> what, count |-> count,
   acquire |-> FALSE, isolate |-> TRUE]

\* The bits a host phase sends, and the level it rests at without any.
Bit(p, k) ==
  CASE p.what = "request" -> IF k \in {1, 8} THEN 1 ELSE IF k = 7 THEN 0 ELSE 2
    [] p.what = "wdata" -> Data(k)
    [] p.what \in {"idle", "dummy"} -> 0
    [] p.what \in {"swj", "dout", "pins"} -> 2
    [] OTHER -> 1

\* An isolated word and the guard come before the bits of a phase that turns the bus.
Lead(p)  == IF (p.turn = "target" /\ p.count > 0) \/ p.acquire THEN 1 + GuardWords ELSE 0
Words(p) == IF Lead(p) + p.count = 0 THEN 1 ELSE Lead(p) + p.count

Word(p, k) ==
  [dir |-> p.turn = "host",
   noe |-> k = 1 /\ (Lead(p) > 0 \/ p.count = 0),
   out |-> IF k > Lead(p) THEN Bit(p, k - Lead(p)) ELSE Bit(p, 1),
   clk |-> k > Lead(p) /\ p.count > 0]

Rest(p) == [dir |-> p.turn = "host", noe |-> p.isolate,
            out |-> IF p.count = 0 THEN Bit(p, 1) ELSE Bit(p, p.count)]

Shows(w) == noe' = w.noe /\ dir' = w.dir /\ out' = w.out

\* The isolated word of swd_esp_parlio_init.
Prime == HostPhase("none", 0, FALSE, TRUE)

\* swd_esp_port_init has made the pad an output and swd_esp_parlio_init has played
\* Prime out of buffer 0.
Init ==
  /\ conf \in Configs /\ rnw = FALSE
  /\ tstate = "lost" /\ tedge = 0 /\ said = "none" /\ took = 0
  /\ noe = TRUE /\ dir = TRUE /\ out = 1 /\ pad = TRUE /\ clkNoe = TRUE
  /\ buf = [b \in {0, 1} |-> Prime] /\ playing = FALSE /\ pos = 0
  /\ idleWord = Rest(Prime) /\ held = FALSE /\ got = <<>> /\ want = 0
  /\ nextBuffer = 1 /\ cur = 0 /\ ahead = 0 /\ owns = TRUE
  /\ at = "ready" /\ phase = "none" /\ left = 0 /\ rest = <<>>
  /\ ack = "bad" /\ value = <<>> /\ result = "none"
  /\ stray = "no"

-----------------------------------------------------------------------------
\* The DMA and the transmitter.

\* At an edge a stray target may begin or cease to drive, until a line reset.
Strays ==
  stray' \in IF stray = "no" \/ tstate' = "idle" THEN {"no"} ELSE {"quiet", "drives"}

\* One word is shifted out; with the clock gate open SWCLK rises in its middle,
\* where the receiver samples the line.
Play ==
  LET p == buf[cur]
      w == Word(p, pos + 1)
      drives == ~w.noe /\ w.dir
  IN  /\ playing /\ pos < Words(p)
      /\ pos' = pos + 1
      /\ Shows(w) /\ held' = FALSE
      /\ IF ~w.clk \/ clkNoe THEN UNCHANGED <<target, stray>>
         ELSE /\ IF p.what = "swj" THEN SequenceEdge(left = 0 /\ pos + 1 = Words(p))
                 ELSE IF p.what = "dout" THEN SequenceEdge(FALSE)
                 ELSE TargetEdge(drives, w.out)
              /\ Strays
      /\ IF w.clk /\ want > Len(got)
           THEN got' = Append(got, IF clkNoe THEN Undriven ELSE Line)
           ELSE UNCHANGED got
      /\ UNCHANGED <<pad, clkNoe, buf, playing, idleWord, want, cpu, conf, rnw>>

\* The descriptor is exhausted: TX_EOF, and the idle word from now on.
PlayEnds ==
  /\ playing /\ pos = Words(buf[cur])
  /\ playing' = FALSE
  /\ Shows(idleWord)
  /\ UNCHANGED <<pad, clkNoe, buf, pos, idleWord, held, got, want, cpu, conf, rnw, target,
                 stray>>

\* TX_EOF is raised when the last word has left, RX_SUC_EOF with the last sample.
TxEof == ~playing /\ pos = Words(buf[cur])
RxEof == Len(got) = want

-----------------------------------------------------------------------------
\* The CPU: one phase.

\* Mutant: both phases are prepared in the same buffer.
NewPhaseSame(p) ==
  /\ buf' = [buf EXCEPT ![nextBuffer] = p]
  /\ UNCHANGED nextBuffer

\* swd_parlio_new_phase, and the phase prepared in the buffer it gives.
NewPhase(p) ==
  /\ buf' = [buf EXCEPT ![nextBuffer] = p]
  /\ nextBuffer' = 1 - nextBuffer

\* The answers of an earlier call.
Forget == ack' = "bad" /\ value' = <<>> /\ said' = "none" /\ took' = 0

\* What is left of a phase that is over is not looked at again, and blank here.
Over ==
  /\ buf' = [buf EXCEPT ![cur] = Prime]
  /\ pos' = 0 /\ got' = <<>> /\ want' = 0

\* A target between transfers stays there.  One within a transfer stays where it is,
\* and drives SWDIO if it did: no more clocks come, and those of later calls are none
\* of this transfer.
LeavesTarget ==
  IF tstate \in {"idle", "lost"}
    THEN UNCHANGED <<tstate, tedge, stray>>
    ELSE /\ tstate' = "lost" /\ tedge' = 0
         /\ stray' = IF TargetDrives THEN "drives" ELSE "quiet"

\* The call ends with an error.  (DAP_SWD_Sequence goes on.)
Fail ==
  /\ at' = CASE phase \in {"offHost", "offTarget"} -> "clkOff"
             [] phase = "setup" -> "clkOn"
             [] phase \in {"din", "isolate", "dinBack", "dout"} -> "sequence"
             [] OTHER -> "ready"
  /\ result' = "ERROR"
  /\ LeavesTarget
  /\ Forget /\ left' = 0
  /\ buf' = [b \in {0, 1} |-> Prime] /\ pos' = 0 /\ got' = <<>> /\ want' = 0
  /\ UNCHANGED <<nextBuffer, cur, ahead, owns, phase, rest>>

\* A transmitter that was stopped within a phase, or has no clock, holds the word it
\* shows.
Holds == UNCHANGED lanes /\ held' = TRUE

\* parlio_ll_tx_set_idle_data_value between two phases.
SetIdle(w) ==
  /\ idleWord' = w
  /\ \/ Shows(w) /\ held' = FALSE
     \/ held /\ Holds

Chunk     == IF left > PhaseBits THEN PhaseBits ELSE left
HostCount == CASE phase = "request" -> 8
               [] phase = "dummy"   -> DataBits
               [] OTHER             -> Chunk

\* swd_parlio_host_bits: with the bus in hand and no bits to send only the idle
\* level changes, else a phase is prepared, which takes the bus if need be.
HostBits ==
  LET count   == HostCount
      isolate == phase \in {"request", "isolate", "offHost"}
      p       == HostPhase(phase, count, ~owns, isolate)
  IN  /\ at = "host"
      /\ \/ /\ count = 0 /\ owns /\ ~isolate
            /\ SetIdle(Rest(p))
            /\ at' = "next"
            /\ UNCHANGED <<buf, nextBuffer, cur>>
         \/ /\ ~(count = 0 /\ owns /\ ~isolate)
            /\ NewPhase(p)
            /\ cur' = nextBuffer
            /\ at' = IF owns THEN "start" ELSE "pad"
            /\ UNCHANGED <<lanes, idleWord, held>>
      /\ left' = left - Chunk
      /\ UNCHANGED <<pad, clkNoe, playing, pos, got, want, ahead, owns, phase, rest, ack,
                     value, result, conf, rnw, target, stray>>

\* The pad becomes an output while the lanes still isolate.
AcquirePad ==
  /\ at = "pad" /\ at' = "start"
  /\ pad' = TRUE
  /\ UNCHANGED <<lanes, clkNoe, dma, nextBuffer, cur, ahead, owns, phase, left, rest, ack,
                 value, result, conf, rnw, target, stray>>

\* Mutant: a write has no turnaround after its ACK.
TargetCountShort ==
  CASE phase = "ack"     -> conf.trn + 3
    [] phase = "skip"    -> DataBits + conf.trn
    [] phase = "trnEnd"  -> conf.trn
    [] phase = "backoff" -> DataBits + (IF rnw THEN conf.trn ELSE 0)
    [] phase = "din"     -> SequenceBits
    [] OTHER             -> 0

\* The clocks of a phase of the target; the ACK of a write is followed by a second
\* turnaround.
TargetCount ==
  CASE phase = "ack"     -> conf.trn + 3 + (IF rnw THEN 0 ELSE conf.trn)
    [] phase = "skip"    -> DataBits + conf.trn
    [] phase = "trnEnd"  -> conf.trn
    [] phase = "backoff" -> DataBits + (IF rnw THEN conf.trn ELSE 0)
    [] phase = "din"     -> SequenceBits
    [] OTHER             -> 0

\* swd_parlio_prepare_target_phase.  (An isolated host is a precondition here:
\* swd_parlio_target_bits plays the phase "isolate" first when it is not.)
TargetBits ==
  /\ at = "target" /\ at' = "start"
  /\ NewPhase(TargetPhase(phase, TargetCount))
  /\ cur' = nextBuffer
  /\ UNCHANGED <<pins, playing, pos, idleWord, held, got, want, ahead, owns, phase, left,
                 rest, ack, value, result, conf, rnw, target, stray>>

\* swd_parlio_tx_start, with swd_parlio_target_start before it: the idle word of
\* the phase is set while the clock of the transmitter stands still.
Start ==
  LET p == buf[cur]
      listens == p.turn = "target" /\ p.count > 0
  IN  /\ at = "start"
      /\ idleWord' = Rest(p)
      /\ \/ /\ playing' = TRUE
            /\ want' = (IF listens THEN p.count ELSE 0)
            /\ at' = IF ~listens THEN "wait" ELSE IF phase = "ack" THEN "ahead" ELSE "finish"
            /\ UNCHANGED <<lanes, held, buf, pos, got, nextBuffer, cur, ahead, owns,
                           phase, left, rest, ack, value, result, target, stray>>
         \/ playing' = FALSE /\ Holds /\ Fail            \* never ready: aborted
      /\ UNCHANGED <<pad, clkNoe, conf, rnw>>

\* The data phase is filled into the other buffer while the target drives the ACK.
PrepareAhead ==
  /\ at = "ahead" /\ at' = "finish"
  /\ NewPhase(IF rnw THEN TargetPhase("rdata", DataBits + conf.trn)
                     ELSE HostPhase("wdata", DataBits, TRUE, FALSE))
  /\ ahead' = nextBuffer
  /\ UNCHANGED <<pins, playing, pos, idleWord, held, got, want, cur, owns, phase, left,
                 rest, ack, value, result, conf, rnw, target, stray>>

\* swd_parlio_abort gives the lanes no word: a phase that still plays may leave the
\* last one on them, or the transmitter falls back to its idle word.
Aborts ==
  /\ playing' = FALSE
  /\ \/ Shows(idleWord) /\ held' = FALSE
     \/ playing /\ Holds
  /\ Fail

\* Mutant: swd_parlio_tx_wait has no deadline.
TimeoutFinishOnly ==
  /\ at = "finish" /\ Aborts
  /\ UNCHANGED <<pad, clkNoe, idleWord, conf, rnw>>

\* The deadline has passed, for a transfer that hangs or a task that was suspended:
\* the status is read before the clock, so the phase may be over by now.
Timeout ==
  /\ at \in {"wait", "finish"} /\ Aborts
  /\ UNCHANGED <<pad, clkNoe, idleWord, conf, rnw>>

\* swd_parlio_tx_wait, and the rest of swd_parlio_run_host_phase.
Wait ==
  /\ at = "wait" /\ TxEof
  /\ owns' = IF phase = "offTarget" THEN owns ELSE ~buf[cur].isolate
  /\ at' = IF phase # "offTarget" /\ buf[cur].isolate THEN "release" ELSE "next"
  /\ Over
  /\ UNCHANGED <<pins, playing, idleWord, held, nextBuffer, cur, ahead, phase, left, rest,
                 ack, value, result, conf, rnw, target, stray>>

\* Mutant: the pad stays an output in the target's turn.
ReleaseNot ==
  /\ at = "release" /\ at' = "next"
  /\ UNCHANGED <<pins, dma, nextBuffer, cur, ahead, owns, phase, left, rest, ack, value,
                 result, conf, rnw, target, stray>>

Release ==
  /\ at = "release" /\ at' = "next"
  /\ pad' = FALSE
  /\ UNCHANGED <<lanes, clkNoe, dma, nextBuffer, cur, ahead, owns, phase, left, rest, ack,
                 value, result, conf, rnw, target, stray>>

\* swd_parlio_target_finish, and what its caller takes from the samples; a read may
\* come out with a wrong parity.
Finish ==
  /\ at = "finish" /\ TxEof /\ RxEof
  /\ \/ /\ at' = "next"
        /\ ack' \in CASE phase = "ack"   -> AckOf(SubSeq(got, conf.trn + 1, conf.trn + 3))
                      [] phase = "rdata" -> {"OK", "ERROR"}
                      [] OTHER           -> {ack}
        /\ value' = IF phase = "rdata" THEN SubSeq(got, 1, DataBits) ELSE value
        /\ Over
        /\ UNCHANGED <<nextBuffer, cur, ahead, owns, phase, left, rest, result, target,
                       stray>>
     \/ Fail                                            \* the receiver reports an error
  /\ UNCHANGED <<pins, playing, idleWord, held, conf, rnw>>

-----------------------------------------------------------------------------
\* The CPU: from phase to phase.
ToHost(p)   == at' = "host" /\ phase' = p /\ UNCHANGED <<cur, left>>
ToTarget(p) == at' = "target" /\ phase' = p /\ UNCHANGED <<cur, left>>
Return(r)   == at' = "ready" /\ result' = r /\ UNCHANGED <<cur, phase, left>>

NoAnswer == ack \in {"WAIT", "FAULT"}

\* Mutants: the data phase is forgotten; it is always clocked.
TailForgotten == "trnEnd"
TailAlways    == "skip"

\* What the host clocks after WAIT or FAULT to a read.
NoAnswerTail == IF conf.dataPhase THEN "skip" ELSE "trnEnd"

\* The idle cycles, in chunks.
IdleOrPark ==
  /\ at' = "host" /\ left' = conf.idle
  /\ phase' = IF conf.idle = 0 THEN "park" ELSE "idle"
  /\ UNCHANGED cur

\* What follows a phase in swd_esp_parlio_transfer and in the other calls.
AfterPhase ==
  \/ phase = "request" /\ ToTarget("ack")
  \/ /\ phase = "ack"
     /\ \/ /\ ack = "OK"
           /\ phase' = IF rnw THEN "rdata" ELSE "wdata"
           /\ cur' = ahead
           /\ at' = IF rnw THEN "start" ELSE "pad"
           /\ UNCHANGED left
        \/ NoAnswer /\ rnw /\ ToTarget(NoAnswerTail)
        \/ NoAnswer /\ ~rnw /\ ToHost(IF conf.dataPhase THEN "dummy" ELSE "giveback")
        \/ ack = "bad" /\ ToTarget("backoff")
  \/ phase = "rdata" /\ ToHost("readBack")
  \/ phase \in {"readBack", "wdata"} /\ IdleOrPark
  \/ phase = "idle" /\ left = 0 /\ ToHost("park")
  \/ left > 0 /\ ToHost(phase)
  \/ phase \in {"skip", "trnEnd", "backoff"} /\ ToHost("giveback")
  \/ phase = "isolate" /\ ToTarget("din")
  \/ phase = "din" /\ ToHost("dinBack")

Stop(to) == at' = to /\ UNCHANGED <<cur, phase, left, result>>
Done ==
  \/ phase \in {"park", "dummy", "giveback"} /\ Return(ack)
  \/ phase \in {"swj", "pins"} /\ left = 0 /\ Return("done")
  \/ phase \in {"dinBack", "dout"} /\ left = 0 /\ Stop("sequence")
  \/ phase = "setup" /\ Stop("clkOn")
  \/ phase \in {"offHost", "offTarget"} /\ Stop("clkOff")

NextPhase ==
  /\ at = "next"
  /\ (AfterPhase /\ UNCHANGED result) \/ Done
  /\ UNCHANGED <<pins, dma, nextBuffer, ahead, owns, rest, ack, value, conf, rnw, target,
                 stray>>

(***************************************************************************)
(* DAP_SWD_Sequence with its PIN_SWDIO_OUT_DISABLE and PIN_SWDIO_OUT_ENABLE *)
(* (swd_esp_swdio_target_drive and _host_drive): in this build they do not *)
(* reach /OE and DIR1, only the pad and the idle level.                    *)
(***************************************************************************)
NextSequence ==
  /\ at = "sequence"
  /\ IF rest = <<>>
       THEN phase' = "none" /\ at' = "outEnable" /\ UNCHANGED rest
       ELSE /\ phase' = Head(rest) /\ rest' = Tail(rest)
            /\ at' = IF Head(rest) = "din" THEN "outDisable" ELSE "outEnable"
  /\ left' = IF phase' = "dout" THEN SequenceBits ELSE 0
  /\ UNCHANGED <<pins, dma, nextBuffer, cur, ahead, owns, ack, value, result, conf, rnw,
                 target, stray>>

OutDisable ==
  /\ at = "outDisable"
  /\ pad' = FALSE
  /\ IF owns THEN phase' = "isolate" /\ at' = "host" ELSE at' = "target" /\ UNCHANGED phase
  /\ UNCHANGED <<lanes, clkNoe, dma, nextBuffer, cur, ahead, owns, left, rest, ack, value,
                 result, conf, rnw, target, stray>>

OutEnable ==
  /\ at = "outEnable" /\ at' = "enablePad"
  /\ IF owns THEN SetIdle([dir |-> TRUE, noe |-> FALSE, out |-> 1])
             ELSE UNCHANGED <<lanes, idleWord, held>>
  /\ UNCHANGED <<pad, clkNoe, buf, playing, pos, got, want, nextBuffer, cur, ahead, owns,
                 phase, left, rest, ack, value, result, conf, rnw, target, stray>>

EnablePad ==
  /\ at = "enablePad"
  /\ pad' = TRUE
  /\ IF phase = "dout" THEN at' = "host" /\ UNCHANGED result
                       ELSE at' = "ready" /\ result' = "done"
  /\ UNCHANGED <<lanes, clkNoe, dma, nextBuffer, cur, ahead, owns, phase, left, rest, ack,
                 value, conf, rnw, target, stray>>

\* The ends of swd_esp_port_setup and swd_esp_port_off: the clock translator.
ClockOn ==
  /\ at = "clkOn" /\ at' = "ready"
  /\ clkNoe' = FALSE
  /\ result' = IF result = "none" THEN "done" ELSE result
  /\ UNCHANGED <<lanes, pad, dma, nextBuffer, cur, ahead, owns, phase, left, rest, ack,
                 value, conf, rnw, target, stray>>

ClockOff ==
  /\ at = "clkOff" /\ at' = "ready"
  /\ clkNoe' = TRUE
  /\ result' = IF result = "none" THEN "done" ELSE result
  /\ UNCHANGED <<lanes, pad, dma, nextBuffer, cur, ahead, owns, phase, left, rest, ack,
                 value, conf, rnw, target, stray>>

(***************************************************************************)
(* The calls.  Sequences are played and the idle level is set whether the  *)
(* port is set up or off (its clock translator is disabled then), for      *)
(* neither DAP.c nor the engine looks; a transfer needs a port.            *)
(***************************************************************************)
Call(p, first) ==
  /\ phase' = p /\ at' = first
  /\ left' = IF p = "swj" THEN SequenceBits ELSE 0
  /\ result' = "none" /\ Forget
  /\ UNCHANGED <<pins, dma, nextBuffer, cur, ahead, owns, conf, tstate, tedge, stray>>

SWD_Transfer ==
  /\ at = "ready" /\ ~clkNoe
  /\ Call("request", "host")
  /\ rnw' \in BOOLEAN
  /\ UNCHANGED rest

SWJ_Sequence ==
  /\ at = "ready" /\ Call("swj", "host") /\ UNCHANGED <<rest, rnw>>

DAP_SWD_Sequence ==
  /\ at = "ready" /\ Call("none", "sequence")
  /\ rest' \in Sequences
  /\ UNCHANGED rnw

\* swd_esp_parlio_set_data_idle, from DAP_SWJ_Pins.
SetDataIdle ==
  /\ at = "ready" /\ owns
  /\ Call("pins", "host") /\ UNCHANGED <<rest, rnw>>

SWD_Configure ==
  /\ at = "ready" /\ conf' \in Configs
  /\ phase' = "none" /\ left' = 0 /\ result' = "done"
  /\ UNCHANGED <<pins, dma, nextBuffer, cur, ahead, owns, at, rest, ack, value, rnw,
                 target, stray>>

swd_esp_parlio_setup ==
  /\ at = "ready" /\ Call("setup", "host") /\ UNCHANGED <<rest, rnw>>

swd_esp_parlio_off ==
  /\ at = "ready"
  /\ IF owns THEN Call("offHost", "host") ELSE Call("offTarget", "target")
  /\ UNCHANGED <<rest, rnw>>

Dma == Play \/ PlayEnds
Cpu == \/ HostBits \/ AcquirePad \/ TargetBits \/ Start \/ PrepareAhead \/ Timeout
       \/ Wait \/ Release \/ Finish \/ NextPhase \/ NextSequence \/ OutDisable
       \/ OutEnable \/ EnablePad \/ ClockOn \/ ClockOff
Api == \/ SWD_Transfer \/ SWJ_Sequence \/ DAP_SWD_Sequence \/ SetDataIdle
       \/ SWD_Configure \/ swd_esp_parlio_setup \/ swd_esp_parlio_off
Next == Dma \/ Cpu \/ Api

\* The task runs on; nothing is assumed of the hardware.
Spec == Init /\ [][Next]_vars /\ WF_vars(Cpu)

-----------------------------------------------------------------------------
HostDrives == ~noe /\ dir

\* No phase that plays, was prepared ahead or follows a failed one enables the
\* translator towards a pad that is an output (README.md 135-138).  The word that an
\* aborted phase may have left on the lanes is excepted: nothing in the code takes it
\* off them before AcquirePad or EnablePad.
NoContention == ~noe /\ ~dir => ~pad \/ held

\* A transfer the target answered reports OK only when it was that: a read has the
\* bits the target drove for it, in their order, and of a write the target took
\* every bit at its own edge.
OkIsExact ==
  at = "ready" /\ phase = "park" /\ result = "OK" /\ said # "none" =>
    /\ said = "OK"
    /\ IF rnw THEN value = [k \in 1..DataBits |-> DataAt + k - 1] ELSE took = DataBits

\* No call loses the clock count of the target: it is between transfers when the
\* call returns, or lost for a reason of its own (a request it does not understand,
\* an ACK that came out wrong, a sequence, a failed phase).
InStep ==
  [][ /\ at' = "ready" => tstate' \in {"idle", "lost"}
      /\ tstate' = "lost" /\ tstate \notin {"request", "lost"}
           => phase \in {"backoff", "swj", "din", "dout"} \/ result' = "ERROR" ]_vars

\* The buffer the DMA plays is not written and not replaced before it has ended.
NoOverwrite ==
  [][ playing /\ playing' => cur' = cur /\ buf'[cur] = buf[cur] ]_vars

\* Every call returns, also when the hardware never finishes a phase.
CallReturns == (at # "ready") ~> (at = "ready")

\* The wire as BusTurns has it, until a phase fails in the middle of a transfer.  A
\* target that is stray may drive at any time, up to the next line reset, whatever the
\* host does, and of such a wire nothing is said.
Driver == IF stray # "no" THEN "none"
          ELSE CASE HostDrives /\ TargetDrives  -> "clash"
                 [] HostDrives /\ ~TargetDrives -> "host"
                 [] TargetDrives /\ ~HostDrives -> "target"
                 [] OTHER                       -> "none"
Turns == INSTANCE BusTurns WITH driver <- Driver
TurnsSpec == Turns!Spec

\* swd_host.c 348-352, after the phase that isolates has been played: the
\* translator is isolated and HOST_SWDATA_OUT is now an input.
OffReleases ==
  at = "ready" /\ phase \in {"offHost", "offTarget"} /\ result = "done" => noe /\ ~pad
=============================================================================
