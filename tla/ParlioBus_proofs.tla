-------------------------- MODULE ParlioBus_proofs --------------------------
(***************************************************************************)
(* Proofs about ParlioBus, for any turnarounds, lengths of the phases and  *)
(* guard: the CPU and the DMA never disagree about a buffer, and the       *)
(* translator never drives against the pad but with a word that an aborted *)
(* phase left on the lanes; and, from a second invariant, the position of  *)
(* the DMA and the edges of the target agree, so that transfers are exact, *)
(* the target is not left in the middle of one, and the wire changes hands *)
(* as the protocol says until a phase fails in the middle of a transfer.   *)
(***************************************************************************)
EXTENDS ParlioBus, SequenceTheorems, TLAPS

Listens(p) == p.turn = "target" /\ p.count > 0

\* Write data fill their phase, so that every word has a bit of them, and a phase
\* of the target ends isolated.
Fits(p) == /\ p \in PhaseRecords
           /\ p.what = "wdata" => p.count = DataBits
           /\ p.turn = "target" => p.isolate /\ ~p.acquire
BuffersFit == \A b \in {0, 1} : Fits(buf[b])

\* The translator drives towards the ESP only while a phase of the target plays, or
\* with a word that an aborted one has left.
LanesInv ==
  /\ idleWord.noe \/ idleWord.dir
  /\ ~noe /\ ~dir => held \/ (playing /\ Listens(buf[cur]))
  /\ playing => at \in {"wait", "finish", "ahead"}

\* Which phases a statement of the CPU belongs to.
StepPhase ==
  /\ at \in {"host", "pad"} => phase \in HostPhases
  /\ at = "host" => phase # "wdata"
  /\ at \in {"wait", "release"} => phase \notin TargetPhases
  /\ at = "target" => phase \in (TargetPhases \ {"rdata"}) \union {"offTarget"}
  /\ at = "ahead" => phase = "ack"
  /\ at = "outDisable" => phase = "din"
  /\ left > 0 => phase \in {"idle", "swj", "dout"}

\* What lies in the buffers, from the preparation of a phase to its end.
Prepared ==
  /\ at = "pad" => buf[cur].turn = "host"
  /\ at \in {"pad", "start", "wait"} /\ phase \in {"request", "isolate"} => buf[cur].isolate
  /\ at = "start" /\ phase \in TargetPhases => Listens(buf[cur])
  /\ at = "start" /\ phase = "rdata" => buf[cur].count >= DataBits
  /\ at = "finish" /\ phase = "rdata" => want >= DataBits
  /\ at \in {"start", "ahead"} /\ phase = "ack" => nextBuffer = 1 - cur
  /\ at = "finish" /\ phase = "ack" => ahead = 1 - cur
  /\ at \in {"finish", "next"} /\ phase = "ack" =>
       IF rnw THEN Listens(buf[ahead]) /\ buf[ahead].count >= DataBits
              ELSE buf[ahead].turn = "host"

\* The pad is released before the target's turn begins and until it is over.
PadInv ==
  /\ at \in {"ahead", "finish"} => ~pad
  /\ at = "start" /\ Listens(buf[cur]) => ~pad
  /\ at = "target" /\ phase # "offTarget" => ~pad
  /\ at = "next" /\ phase \in {"request", "isolate"} \union TargetPhases => ~pad
  /\ playing /\ Listens(buf[cur]) => ~pad

IInv == TypeOK /\ BuffersFit /\ LanesInv /\ StepPhase /\ Prepared /\ PadInv

\* The parts of TypeOK.
IdleWords == [noe : BOOLEAN, dir : BOOLEAN, out : Labels]
PinTypes ==
  /\ noe \in BOOLEAN /\ dir \in BOOLEAN /\ out \in Labels
  /\ pad \in BOOLEAN /\ clkNoe \in BOOLEAN /\ stray \in {"no", "quiet", "drives"}
DmaTypes ==
  /\ buf \in [{0, 1} -> PhaseRecords] /\ playing \in BOOLEAN /\ pos \in Nat
  /\ idleWord \in IdleWords /\ held \in BOOLEAN
  /\ got \in Seq(Nat) /\ want \in Nat
CpuTypes ==
  /\ nextBuffer \in {0, 1} /\ cur \in {0, 1} /\ ahead \in {0, 1} /\ owns \in BOOLEAN
  /\ at \in Steps /\ phase \in Phases /\ left \in Nat /\ rest \in Seq({"din", "dout"})
  /\ ack \in Acks \union {"bad", "ERROR"} /\ value \in Seq(Nat)
  /\ result \in Acks \union {"bad", "ERROR", "done", "none"}

\* TypeOK in its parts.
LEMMA Parts == IInv <=> /\ TargetTypes /\ PinTypes /\ DmaTypes /\ CpuTypes
                        /\ BuffersFit /\ LanesInv /\ StepPhase /\ Prepared /\ PadInv
BY Zenon DEF IInv, TypeOK, PinTypes, DmaTypes, CpuTypes, IdleWords

-----------------------------------------------------------------------------
\* The lengths of the host's phases are numbers, at least 1.
LEMMA Lengths == /\ DataBits \in Nat /\ DataBits >= 1 /\ GuardWords \in Nat /\ GuardWords >= 1
                 /\ PhaseBits \in Nat /\ PhaseBits >= 1
                 /\ SequenceBits \in Nat /\ SequenceBits >= 1
BY CyclesAssumption, BitsAssumption

\* The members of the two constant sets are numbers.
LEMMA TurnaroundTypes == ASSUME NEW t \in Turnarounds PROVE t \in Nat /\ t >= 1
BY CyclesAssumption

\* The same of the idle cycles.
LEMMA IdleTypes == ASSUME NEW i \in IdleCycles PROVE i \in Nat
BY CyclesAssumption

\* The lengths that are configured.
LEMMA Configured == ASSUME TargetTypes PROVE conf.trn \in Nat /\ conf.trn >= 1 /\ conf.idle \in Nat
<1>1. conf.trn \in Turnarounds /\ conf.idle \in IdleCycles
  BY DEF TargetTypes, Configs
<1> QED
  BY <1>1, TurnaroundTypes, IdleTypes

\* The levels of a lane,
LEMMA BitTypes ==
  ASSUME NEW p, NEW k \in Nat, p.what = "wdata" => k >= 1 /\ k <= DataBits
  PROVE  Bit(p, k) \in Labels
<1>1. CASE p.what = "wdata"
  BY <1>1, Lengths DEF Bit, Labels
<1>2. CASE p.what # "wdata"
  BY <1>2 DEF Bit, Labels, Levels
<1> QED
  BY <1>1, <1>2

\* and the idle word a phase leaves, which isolates after a phase of the target.
LEMMA RestTypes ==
  ASSUME NEW p, Fits(p)
  PROVE  Rest(p) \in IdleWords /\ (Rest(p).noe \/ Rest(p).dir)
<1>1. p.count \in Nat /\ p.isolate \in BOOLEAN /\ p.turn \in {"host", "target"}
  BY DEF Fits, PhaseRecords
<1>2. Bit(p, 1) \in Labels
  BY BitTypes, Lengths DEF Fits
<1>3. Bit(p, p.count) \in Labels
  BY <1>1, BitTypes, Lengths DEF Fits
<1>4. (IF p.count = 0 THEN Bit(p, 1) ELSE Bit(p, p.count)) \in Labels
  BY <1>2, <1>3
<1>5. Rest(p) \in IdleWords
  BY <1>1, <1>4, Zenon DEF Rest, IdleWords
<1>6. Rest(p).noe = p.isolate /\ Rest(p).dir = (p.turn = "host")
  BY DEF Rest
<1> QED
  BY <1>1, <1>5, <1>6 DEF Fits

\* What is prepared fits, if its parameters do.
LEMMA HostFits ==
  ASSUME NEW w \in Phases, NEW c \in Nat, NEW a \in BOOLEAN, NEW i \in BOOLEAN,
         w = "wdata" => c = DataBits
  PROVE  /\ Fits(HostPhase(w, c, a, i)) /\ HostPhase(w, c, a, i).turn = "host"
         /\ HostPhase(w, c, a, i).isolate = i
<1>1. HostPhase(w, c, a, i) \in PhaseRecords
  BY Zenon DEF HostPhase, PhaseRecords
<1> QED
  BY <1>1 DEF Fits, HostPhase

\* The same of the target's phases.
LEMMA TargetFits ==
  ASSUME NEW w \in Phases, NEW c \in Nat, w # "wdata"
  PROVE  /\ Fits(TargetPhase(w, c)) /\ TargetPhase(w, c).turn = "target"
         /\ TargetPhase(w, c).count = c
<1>1. TargetPhase(w, c) \in PhaseRecords
  BY Zenon DEF TargetPhase, PhaseRecords
<1> QED
  BY <1>1 DEF Fits, TargetPhase

\* The isolated word fits.
LEMMA PrimeFits == Fits(Prime) /\ Prime.turn = "host" /\ ~Listens(Prime)
<1>1. "none" \in Phases
  BY DEF Phases
<1>2. Fits(Prime) /\ Prime.turn = "host"
  BY <1>1, HostFits DEF Prime
<1> QED
  BY <1>2 DEF Listens

\* A new phase is put into the buffer that is next, and the other one is left alone.
LEMMA NewPhaseFits ==
  ASSUME DmaTypes, CpuTypes, BuffersFit, NEW p, Fits(p), NewPhase(p)
  PROVE  /\ buf' \in [{0, 1} -> PhaseRecords] /\ BuffersFit'
         /\ buf'[nextBuffer] = p /\ buf'[1 - nextBuffer] = buf[1 - nextBuffer]
         /\ nextBuffer' = 1 - nextBuffer /\ nextBuffer' \in {0, 1}
BY DEF DmaTypes, CpuTypes, BuffersFit, NewPhase, Fits

\* A buffer whose phase is over is blank.
LEMMA OverFits ==
  ASSUME DmaTypes, CpuTypes, BuffersFit, Over
  PROVE  /\ buf' \in [{0, 1} -> PhaseRecords] /\ BuffersFit'
         /\ buf'[cur] = Prime /\ buf'[1 - cur] = buf[1 - cur]
         /\ pos' = 0 /\ got' = <<>> /\ want' = 0
BY PrimeFits DEF DmaTypes, CpuTypes, BuffersFit, Over, Fits

-----------------------------------------------------------------------------
\* A phase that fails leaves the DMA at rest, the lanes idle or held, and goes where
\* nothing is expected of the buffers or the pad.
LEMMA FailIInv ==
  ASSUME IInv, Fail, ~playing', playing' \in BOOLEAN, held' \in BOOLEAN,
         idleWord' \in IdleWords, idleWord'.noe \/ idleWord'.dir,
         noe' \in BOOLEAN, dir' \in BOOLEAN, out' \in Labels, noe' \/ dir' \/ held',
         UNCHANGED <<pad, clkNoe, conf, rnw>>
  PROVE  IInv'
<1>0. /\ TargetTypes /\ PinTypes /\ DmaTypes /\ CpuTypes
      /\ BuffersFit /\ LanesInv /\ StepPhase /\ Prepared /\ PadInv
  BY Parts
<1>1. TargetTypes'
  BY <1>0 DEF Fail, Forget, LeavesTarget, TargetTypes
<1>9. stray' \in {"no", "quiet", "drives"}
  BY <1>0 DEF Fail, LeavesTarget, PinTypes
<1>2. PinTypes'
  BY <1>0, <1>9, Zenon DEF PinTypes
<1>3. BuffersFit' /\ buf' \in [{0, 1} -> PhaseRecords] /\ pos' = 0 /\ got' = <<>> /\ want' = 0
  BY PrimeFits DEF Fail, BuffersFit, Fits
<1>4. DmaTypes'
  BY <1>3 DEF DmaTypes
<1>5. /\ at' \in {"ready", "clkOn", "clkOff", "sequence"} /\ left' = 0
      /\ value' = <<>> /\ ack' = "bad" /\ result' = "ERROR"
      /\ UNCHANGED <<nextBuffer, cur, ahead, owns, phase, rest>>
  BY DEF Fail, Forget
<1>6. CpuTypes'
  BY <1>0, <1>5 DEF CpuTypes, Steps
<1>7. LanesInv' /\ PadInv'
  BY <1>5, Zenon DEF LanesInv, PadInv
<1>8. StepPhase' /\ Prepared'
  BY <1>5 DEF StepPhase, Prepared
<1> QED
  BY <1>1, <1>2, <1>4, <1>6, <1>3, <1>7, <1>8, Parts, PTL

\* Taking the pad,
LEMMA AcquirePadIInv == IInv /\ AcquirePad => IInv'
<1> SUFFICES ASSUME IInv, AcquirePad PROVE IInv'
  OBVIOUS
<1>0. /\ TargetTypes /\ PinTypes /\ DmaTypes /\ CpuTypes
      /\ BuffersFit /\ LanesInv /\ StepPhase /\ Prepared /\ PadInv
  BY Parts
<1>10. TargetTypes'
  BY <1>0 DEF TargetTypes, target, AcquirePad
<1>11. PinTypes'
  BY <1>0 DEF PinTypes, lanes, AcquirePad
<1>12. DmaTypes'
  BY <1>0 DEF DmaTypes, dma, AcquirePad
<1>13. CpuTypes'
  BY <1>0 DEF CpuTypes, Steps, AcquirePad
<1>14. BuffersFit'
  BY <1>0 DEF BuffersFit, dma, AcquirePad
<1>15. LanesInv'
  BY <1>0 DEF LanesInv, lanes, dma, AcquirePad
<1>16. StepPhase'
  BY <1>0 DEF StepPhase, AcquirePad
<1>17. Prepared'
  BY <1>0 DEF Prepared, StepPhase, HostPhases, TargetPhases, dma, AcquirePad
<1>18. PadInv'
  BY <1>0 DEF PadInv, LanesInv, Prepared, Listens, dma, AcquirePad
<1> QED
  BY <1>10, <1>11, <1>12, <1>13, <1>14, <1>15, <1>16, <1>17, <1>18, Parts, PTL

\* releasing it,
LEMMA ReleaseIInv == IInv /\ Release => IInv'
<1> SUFFICES ASSUME IInv, Release PROVE IInv'
  OBVIOUS
<1>0. /\ TargetTypes /\ PinTypes /\ DmaTypes /\ CpuTypes
      /\ BuffersFit /\ LanesInv /\ StepPhase /\ Prepared /\ PadInv
  BY Parts
<1>10. TargetTypes'
  BY <1>0 DEF TargetTypes, target, Release
<1>11. PinTypes'
  BY <1>0 DEF PinTypes, lanes, Release
<1>12. DmaTypes'
  BY <1>0 DEF DmaTypes, dma, Release
<1>13. CpuTypes'
  BY <1>0 DEF CpuTypes, Steps, Release
<1>14. BuffersFit'
  BY <1>0 DEF BuffersFit, dma, Release
<1>15. LanesInv'
  BY <1>0 DEF LanesInv, lanes, dma, Release
<1>16. StepPhase'
  BY <1>0 DEF StepPhase, Release
<1>17. Prepared'
  BY <1>0 DEF Prepared, StepPhase, TargetPhases, Release
<1>18. PadInv'
  BY <1>0 DEF PadInv, StepPhase, Release
<1> QED
  BY <1>10, <1>11, <1>12, <1>13, <1>14, <1>15, <1>16, <1>17, <1>18, Parts, PTL

\* the end of a phase on the lanes,
LEMMA PlayEndsIInv == IInv /\ PlayEnds => IInv'
<1> SUFFICES ASSUME IInv, PlayEnds PROVE IInv'
  OBVIOUS
<1>0. /\ TargetTypes /\ PinTypes /\ DmaTypes /\ CpuTypes
      /\ BuffersFit /\ LanesInv /\ StepPhase /\ Prepared /\ PadInv
  BY Parts
<1>2. /\ noe' \/ dir'
      /\ ~playing' /\ idleWord' = idleWord
  BY <1>0 DEF PlayEnds, Shows, LanesInv
<1>1. /\ noe' \in BOOLEAN /\ dir' \in BOOLEAN /\ out' \in Labels
      /\ UNCHANGED <<pad, clkNoe, stray>>
  BY <1>0 DEF PlayEnds, Shows, DmaTypes, IdleWords
<1>10. TargetTypes'
  BY <1>0 DEF TargetTypes, target, PlayEnds
<1>11. PinTypes'
  BY <1>0, <1>1, Zenon DEF PinTypes
<1>12. DmaTypes'
  BY <1>0 DEF DmaTypes, PlayEnds
<1>13. CpuTypes'
  BY <1>0 DEF CpuTypes, cpu, PlayEnds
<1>14. BuffersFit'
  BY <1>0 DEF BuffersFit, PlayEnds
<1>15. LanesInv'
  BY <1>0, <1>1, <1>2 DEF LanesInv
<1>16. StepPhase'
  BY <1>0 DEF StepPhase, cpu, PlayEnds
<1>17. Prepared'
  BY <1>0 DEF Prepared, cpu, PlayEnds
<1>18. PadInv'
  BY <1>0 DEF PadInv, StepPhase, cpu, PlayEnds
<1> QED
  BY <1>10, <1>11, <1>12, <1>13, <1>14, <1>15, <1>16, <1>17, <1>18, Parts, PTL

\* and for the CPU, when it is not listening,
LEMMA WaitIInv == IInv /\ Wait => IInv'
<1> SUFFICES ASSUME IInv, Wait PROVE IInv'
  OBVIOUS
<1>0. /\ TargetTypes /\ PinTypes /\ DmaTypes /\ CpuTypes
      /\ BuffersFit /\ LanesInv /\ StepPhase /\ Prepared /\ PadInv
  BY Parts
<1>1. /\ buf' \in [{0, 1} -> PhaseRecords] /\ BuffersFit' /\ pos' = 0 /\ got' = <<>> /\ want' = 0
  BY <1>0, OverFits DEF Wait
<1>2. /\ at = "wait" /\ ~playing
      /\ UNCHANGED <<noe, dir, pad, playing, idleWord, held, phase, left, rnw>>
  BY DEF Wait, TxEof, pins
<1>3. \/ at' = "next" /\ (phase = "offTarget" \/ ~buf[cur].isolate)
      \/ at' = "release"
  BY DEF Wait
<1>10. TargetTypes'
  BY <1>0 DEF TargetTypes, target, Wait
<1>11. PinTypes'
  BY <1>0 DEF PinTypes, pins, Wait
<1>12. DmaTypes'
  BY <1>0, <1>1, <1>2 DEF DmaTypes
<1>13. CpuTypes'
  BY <1>0 DEF CpuTypes, Steps, Wait
<1>14. BuffersFit'
  BY <1>1
<1>15. LanesInv'
  BY <1>0, <1>2, <1>3 DEF LanesInv
<1>16. StepPhase'
  BY <1>0 DEF StepPhase, Wait
<1>17. Prepared'
  BY <1>0, <1>2, <1>3 DEF Prepared, StepPhase, TargetPhases
<1>18. PadInv'
  BY <1>0, <1>2, <1>3 DEF PadInv, StepPhase, Prepared
<1> QED
  BY <1>10, <1>11, <1>12, <1>13, <1>14, <1>15, <1>16, <1>17, <1>18, Parts, PTL

\* The steps of a sequence,
LEMMA EnablePadIInv == IInv /\ EnablePad => IInv'
<1> SUFFICES ASSUME IInv, EnablePad PROVE IInv'
  OBVIOUS
<1>0. /\ TargetTypes /\ PinTypes /\ DmaTypes /\ CpuTypes
      /\ BuffersFit /\ LanesInv /\ StepPhase /\ Prepared /\ PadInv
  BY Parts
<1>10. TargetTypes'
  BY <1>0 DEF TargetTypes, target, EnablePad
<1>11. PinTypes'
  BY <1>0 DEF PinTypes, lanes, EnablePad
<1>12. DmaTypes'
  BY <1>0 DEF DmaTypes, dma, EnablePad
<1>13. CpuTypes'
  BY <1>0 DEF CpuTypes, Steps, EnablePad
<1>14. BuffersFit'
  BY <1>0 DEF BuffersFit, dma, EnablePad
<1>15. LanesInv'
  BY <1>0 DEF LanesInv, lanes, dma, EnablePad
<1>16. StepPhase'
  BY <1>0 DEF StepPhase, HostPhases, EnablePad
<1>17. Prepared'
  BY <1>0 DEF Prepared, EnablePad
<1>18. PadInv'
  BY <1>0 DEF PadInv, StepPhase, LanesInv, dma, EnablePad
<1> QED
  BY <1>10, <1>11, <1>12, <1>13, <1>14, <1>15, <1>16, <1>17, <1>18, Parts, PTL

\* (which may set the idle level)
LEMMA OutEnableIInv == IInv /\ OutEnable => IInv'
<1> SUFFICES ASSUME IInv, OutEnable PROVE IInv'
  OBVIOUS
<1>0. /\ TargetTypes /\ PinTypes /\ DmaTypes /\ CpuTypes
      /\ BuffersFit /\ LanesInv /\ StepPhase /\ Prepared /\ PadInv
  BY Parts
<1>1. /\ noe' \in BOOLEAN /\ dir' \in BOOLEAN /\ out' \in Labels /\ idleWord' \in IdleWords
      /\ (noe' = noe /\ dir' = dir /\ (held => held')) \/ dir'
      /\ held' \in BOOLEAN
      /\ idleWord' = idleWord \/ idleWord'.dir
  <2> DEFINE w == [dir |-> TRUE, noe |-> FALSE, out |-> 1]
  <2>1. w \in IdleWords /\ w.dir /\ w.noe \in BOOLEAN /\ w.out \in Labels
    BY DEF IdleWords, Labels, Levels
  <2>2. CASE owns
    <3>1. /\ idleWord' = w
          /\ (Shows(w) /\ held' = FALSE) \/ (UNCHANGED lanes /\ held' = TRUE)
      BY <2>2 DEF OutEnable, SetIdle, Holds
    <3> QED
      BY <1>0, <2>1, <3>1 DEF Shows, lanes, PinTypes
  <2>3. CASE ~owns
    <3>1. UNCHANGED <<lanes, idleWord, held>>
      BY <2>3 DEF OutEnable
    <3> QED
      BY <1>0, <3>1 DEF lanes, DmaTypes, PinTypes
  <2> QED
    BY <2>2, <2>3
<1>2. /\ at = "outEnable" /\ at' = "enablePad"
      /\ UNCHANGED <<pad, clkNoe, buf, playing, pos, got, want, cur, phase, stray>>
  BY DEF OutEnable
<1>10. TargetTypes'
  BY <1>0 DEF TargetTypes, target, OutEnable
<1>11. PinTypes'
  BY <1>0, <1>1, <1>2, Zenon DEF PinTypes
<1>12. DmaTypes'
  BY <1>0, <1>1, <1>2 DEF DmaTypes
<1>13. CpuTypes'
  BY <1>0 DEF CpuTypes, Steps, OutEnable
<1>14. BuffersFit'
  BY <1>0 DEF BuffersFit, OutEnable
<1>15. LanesInv'
  BY <1>0, <1>1, <1>2 DEF LanesInv, Listens
<1>16. StepPhase'
  BY <1>0 DEF StepPhase, OutEnable
<1>17. Prepared'
  BY <1>0 DEF Prepared, OutEnable
<1>18. PadInv'
  BY <1>0 DEF PadInv, StepPhase, OutEnable
<1> QED
  BY <1>10, <1>11, <1>12, <1>13, <1>14, <1>15, <1>16, <1>17, <1>18, Parts, PTL

\* the pad released for its input,
LEMMA OutDisableIInv == IInv /\ OutDisable => IInv'
<1> SUFFICES ASSUME IInv, OutDisable PROVE IInv'
  OBVIOUS
<1>0. /\ TargetTypes /\ PinTypes /\ DmaTypes /\ CpuTypes
      /\ BuffersFit /\ LanesInv /\ StepPhase /\ Prepared /\ PadInv
  BY Parts
<1>10. TargetTypes'
  BY <1>0 DEF TargetTypes, target, OutDisable
<1>11. PinTypes'
  BY <1>0 DEF PinTypes, lanes, OutDisable
<1>12. DmaTypes'
  BY <1>0 DEF DmaTypes, dma, OutDisable
<1>13. CpuTypes'
  BY <1>0 DEF CpuTypes, Steps, Phases, HostPhases, OutDisable
<1>14. BuffersFit'
  BY <1>0 DEF BuffersFit, dma, OutDisable
<1>15. LanesInv'
  BY <1>0 DEF LanesInv, lanes, dma, OutDisable
<1>16. StepPhase'
  BY <1>0 DEF StepPhase, HostPhases, TargetPhases, OutDisable
<1>17. Prepared'
  BY <1>0 DEF Prepared, OutDisable
<1>18. PadInv'
  BY <1>0 DEF PadInv, StepPhase, OutDisable
<1> QED
  BY <1>10, <1>11, <1>12, <1>13, <1>14, <1>15, <1>16, <1>17, <1>18, Parts, PTL

\* the clock translator enabled
LEMMA ClockOnIInv == IInv /\ ClockOn => IInv'
<1> SUFFICES ASSUME IInv, ClockOn PROVE IInv'
  OBVIOUS
<1>0. /\ TargetTypes /\ PinTypes /\ DmaTypes /\ CpuTypes
      /\ BuffersFit /\ LanesInv /\ StepPhase /\ Prepared /\ PadInv
  BY Parts
<1>10. TargetTypes'
  BY <1>0 DEF TargetTypes, target, ClockOn
<1>11. PinTypes'
  BY <1>0 DEF PinTypes, lanes, ClockOn
<1>12. DmaTypes'
  BY <1>0 DEF DmaTypes, dma, ClockOn
<1>13. CpuTypes'
  BY <1>0 DEF CpuTypes, Steps, ClockOn
<1>14. BuffersFit'
  BY <1>0 DEF BuffersFit, dma, ClockOn
<1>15. LanesInv'
  BY <1>0 DEF LanesInv, lanes, dma, ClockOn
<1>16. StepPhase'
  BY <1>0 DEF StepPhase, ClockOn
<1>17. Prepared'
  BY <1>0 DEF Prepared, ClockOn
<1>18. PadInv'
  BY <1>0 DEF PadInv, StepPhase, dma, ClockOn
<1> QED
  BY <1>10, <1>11, <1>12, <1>13, <1>14, <1>15, <1>16, <1>17, <1>18, Parts, PTL

\* and disabled.
LEMMA ClockOffIInv == IInv /\ ClockOff => IInv'
<1> SUFFICES ASSUME IInv, ClockOff PROVE IInv'
  OBVIOUS
<1>0. /\ TargetTypes /\ PinTypes /\ DmaTypes /\ CpuTypes
      /\ BuffersFit /\ LanesInv /\ StepPhase /\ Prepared /\ PadInv
  BY Parts
<1>10. TargetTypes'
  BY <1>0 DEF TargetTypes, target, ClockOff
<1>11. PinTypes'
  BY <1>0 DEF PinTypes, lanes, ClockOff
<1>12. DmaTypes'
  BY <1>0 DEF DmaTypes, dma, ClockOff
<1>13. CpuTypes'
  BY <1>0 DEF CpuTypes, Steps, ClockOff
<1>14. BuffersFit'
  BY <1>0 DEF BuffersFit, dma, ClockOff
<1>15. LanesInv'
  BY <1>0 DEF LanesInv, lanes, dma, ClockOff
<1>16. StepPhase'
  BY <1>0 DEF StepPhase, ClockOff
<1>17. Prepared'
  BY <1>0 DEF Prepared, ClockOff
<1>18. PadInv'
  BY <1>0 DEF PadInv, StepPhase, dma, ClockOff
<1> QED
  BY <1>10, <1>11, <1>12, <1>13, <1>14, <1>15, <1>16, <1>17, <1>18, Parts, PTL

\* the next sequence,
LEMMA NextSequenceIInv == IInv /\ NextSequence => IInv'
<1> SUFFICES ASSUME IInv, NextSequence PROVE IInv'
  OBVIOUS
<1>0. /\ TargetTypes /\ PinTypes /\ DmaTypes /\ CpuTypes
      /\ BuffersFit /\ LanesInv /\ StepPhase /\ Prepared /\ PadInv
  BY Parts
<1>1. /\ rest' \in Seq({"din", "dout"}) /\ phase' \in {"none", "din", "dout"}
      /\ at' \in {"outEnable", "outDisable"}
  <2>1. CASE rest = <<>>
    BY <1>0, <2>1 DEF NextSequence, CpuTypes
  <2>2. CASE rest # <<>>
    <3>1. rest' = Tail(rest) /\ phase' = Head(rest) /\ at' \in {"outEnable", "outDisable"}
      BY <2>2 DEF NextSequence
    <3>2. Head(rest) \in {"din", "dout"} /\ Tail(rest) \in Seq({"din", "dout"})
      BY <1>0, <2>2, HeadTailProperties DEF CpuTypes
    <3> QED
      BY <3>1, <3>2
  <2> QED
    BY <2>1, <2>2
<1>2. left' \in Nat /\ UNCHANGED <<nextBuffer, cur, ahead, owns, ack, value, result>>
  BY Lengths DEF NextSequence
<1>10. TargetTypes'
  BY <1>0 DEF TargetTypes, target, NextSequence
<1>11. PinTypes'
  BY <1>0 DEF PinTypes, pins, NextSequence
<1>12. DmaTypes'
  BY <1>0 DEF DmaTypes, dma, NextSequence
<1>13. CpuTypes'
  BY <1>0, <1>1, <1>2 DEF CpuTypes, Steps, Phases, HostPhases, TargetPhases
<1>14. BuffersFit'
  BY <1>0 DEF BuffersFit, dma, NextSequence
<1>15. LanesInv'
  BY <1>0 DEF LanesInv, pins, dma, NextSequence
<1>16. StepPhase'
  BY <1>0 DEF StepPhase, NextSequence
<1>17. Prepared'
  BY <1>0 DEF Prepared, NextSequence
<1>18. PadInv'
  BY <1>0 DEF PadInv, StepPhase, LanesInv, dma, NextSequence
<1> QED
  BY <1>10, <1>11, <1>12, <1>13, <1>14, <1>15, <1>16, <1>17, <1>18, Parts, PTL

\* The data phase is put into the buffer that does not play,
LEMMA PrepareAheadIInv == IInv /\ PrepareAhead => IInv'
<1> SUFFICES ASSUME IInv, PrepareAhead PROVE IInv'
  OBVIOUS
<1>0. /\ TargetTypes /\ PinTypes /\ DmaTypes /\ CpuTypes
      /\ BuffersFit /\ LanesInv /\ StepPhase /\ Prepared /\ PadInv
  BY Parts
<1>1. /\ at = "ahead" /\ at' = "finish" /\ ahead' = nextBuffer
      /\ UNCHANGED <<noe, dir, pad, playing, pos, idleWord, held, got, want, cur, owns, phase,
                     left, rest, ack, value, result, rnw>>
  BY DEF PrepareAhead, pins
<1> DEFINE p == IF rnw THEN TargetPhase("rdata", DataBits + conf.trn)
                       ELSE HostPhase("wdata", DataBits, TRUE, FALSE)
<1>4. /\ Fits(p)
      /\ IF rnw THEN p.turn = "target" /\ p.count = DataBits + conf.trn ELSE p.turn = "host"
  <2>1. "rdata" \in Phases /\ "wdata" \in Phases /\ DataBits + conf.trn \in Nat /\ DataBits \in Nat
    BY <1>0, Configured, Lengths DEF Phases, HostPhases, TargetPhases
  <2>2. CASE rnw
    BY <2>1, <2>2, TargetFits
  <2>3. CASE ~rnw
    <3>1. Fits(HostPhase("wdata", DataBits, TRUE, FALSE)) /\ HostPhase("wdata", DataBits, TRUE, FALSE).turn = "host"
      BY <2>1, HostFits
    <3> QED
      BY <2>3, <3>1
  <2> QED
    BY <2>2, <2>3
<1> HIDE DEF p
<1>5. NewPhase(p)
  BY DEF PrepareAhead, p
<1>2. /\ buf' \in [{0, 1} -> PhaseRecords] /\ BuffersFit'
      /\ nextBuffer' = 1 - nextBuffer /\ nextBuffer' \in {0, 1}
      /\ buf'[nextBuffer] = p /\ buf'[1 - nextBuffer] = buf[1 - nextBuffer]
  BY <1>0, <1>4, <1>5, NewPhaseFits
<1>6. phase = "ack" /\ nextBuffer = 1 - cur /\ cur \in {0, 1}
  BY <1>0, <1>1 DEF StepPhase, Prepared, CpuTypes
<1>3. /\ phase = "ack" /\ nextBuffer = 1 - cur /\ buf'[cur] = buf[cur]
      /\ IF rnw THEN Listens(buf'[ahead']) /\ buf'[ahead'].count >= DataBits
                ELSE buf'[ahead'].turn = "host"
  BY <1>0, <1>1, <1>2, <1>4, <1>6, Configured, Lengths DEF Listens
<1>10. TargetTypes'
  BY <1>0 DEF TargetTypes, target, PrepareAhead
<1>11. PinTypes'
  BY <1>0 DEF PinTypes, pins, PrepareAhead
<1>12. DmaTypes'
  BY <1>0, <1>1, <1>2 DEF DmaTypes
<1>13. CpuTypes'
  BY <1>0, <1>1, <1>2 DEF CpuTypes, Steps
<1>14. BuffersFit'
  BY <1>2
<1>15. LanesInv'
  BY <1>0, <1>1, <1>2, <1>3 DEF LanesInv
<1>16. StepPhase'
  BY <1>0, <1>1 DEF StepPhase
<1>17. Prepared'
  BY <1>0, <1>1, <1>2, <1>3 DEF Prepared, StepPhase
<1>18. PadInv'
  BY <1>0, <1>1, <1>3 DEF PadInv
<1> QED
  BY <1>10, <1>11, <1>12, <1>13, <1>14, <1>15, <1>16, <1>17, <1>18, Parts, PTL

\* a phase of the target
LEMMA TargetBitsIInv == IInv /\ TargetBits => IInv'
<1> SUFFICES ASSUME IInv, TargetBits PROVE IInv'
  OBVIOUS
<1>0. /\ TargetTypes /\ PinTypes /\ DmaTypes /\ CpuTypes
      /\ BuffersFit /\ LanesInv /\ StepPhase /\ Prepared /\ PadInv
  BY Parts
<1>1. /\ at = "target" /\ at' = "start" /\ cur' = nextBuffer
      /\ UNCHANGED <<noe, dir, pad, playing, pos, idleWord, held, got, want, ahead, owns, phase,
                     left, rest, ack, value, result, rnw>>
  BY DEF TargetBits, pins
<1>3. phase \in {"ack", "skip", "trnEnd", "backoff", "din", "offTarget"}
  BY <1>0, <1>1 DEF StepPhase, TargetPhases
<1>4. /\ TargetCount \in Nat
      /\ IF phase = "offTarget" THEN TargetCount = 0 ELSE TargetCount > 0
  <2>1. CASE phase = "ack"
    BY <1>0, <2>1, Configured, Lengths DEF TargetCount
  <2>2. CASE phase = "skip"
    BY <1>0, <2>2, Configured, Lengths DEF TargetCount
  <2>3. CASE phase = "trnEnd"
    BY <1>0, <2>3, Configured, Lengths DEF TargetCount
  <2>4. CASE phase = "backoff"
    BY <1>0, <2>4, Configured, Lengths DEF TargetCount
  <2>5. CASE phase = "din"
    BY <1>0, <2>5, Configured, Lengths DEF TargetCount
  <2>6. CASE phase = "offTarget"
    BY <2>6 DEF TargetCount
  <2> QED
    BY <1>3, <2>1, <2>2, <2>3, <2>4, <2>5, <2>6
<1> DEFINE p == TargetPhase(phase, TargetCount)
<1>5. Fits(p) /\ p.turn = "target" /\ p.count = TargetCount /\ NewPhase(p)
  BY <1>3, <1>4, TargetFits DEF TargetBits, Phases, TargetPhases
<1> HIDE DEF p
<1>2. /\ buf' \in [{0, 1} -> PhaseRecords] /\ BuffersFit'
      /\ nextBuffer' = 1 - nextBuffer /\ nextBuffer' \in {0, 1}
      /\ buf'[nextBuffer] = p /\ buf'[1 - nextBuffer] = buf[1 - nextBuffer]
  BY <1>0, <1>5, NewPhaseFits
<1>6. buf'[cur'].turn = "target" /\ buf'[cur'].count = TargetCount
  BY <1>1, <1>2, <1>5
<1>10. TargetTypes'
  BY <1>0 DEF TargetTypes, target, TargetBits
<1>11. PinTypes'
  BY <1>0 DEF PinTypes, pins, TargetBits
<1>12. DmaTypes'
  BY <1>0, <1>1, <1>2 DEF DmaTypes
<1>13. CpuTypes'
  BY <1>0, <1>1, <1>2 DEF CpuTypes, Steps
<1>14. BuffersFit'
  BY <1>2
<1>15. LanesInv'
  BY <1>0, <1>1 DEF LanesInv
<1>16. StepPhase'
  BY <1>0, <1>1 DEF StepPhase
<1>17. Prepared'
  BY <1>0, <1>1, <1>2, <1>3, <1>4, <1>6 DEF Prepared, Listens, TargetPhases
<1>18. PadInv'
  BY <1>0, <1>1, <1>4, <1>6 DEF PadInv, Listens
<1> QED
  BY <1>10, <1>11, <1>12, <1>13, <1>14, <1>15, <1>16, <1>17, <1>18, Parts, PTL

\* and a phase of the host, or no more than its idle level.
LEMMA HostBitsIInv == IInv /\ HostBits => IInv'
<1> SUFFICES ASSUME IInv, HostBits PROVE IInv'
  OBVIOUS
<1>0. /\ TargetTypes /\ PinTypes /\ DmaTypes /\ CpuTypes
      /\ BuffersFit /\ LanesInv /\ StepPhase /\ Prepared /\ PadInv
  BY Parts
<1>1. /\ at = "host" /\ left' = left - Chunk /\ phase \in HostPhases \ {"wdata"}
      /\ UNCHANGED <<pad, clkNoe, playing, pos, got, want, ahead, owns, phase,
                     rest, ack, value, result, rnw, stray>>
  BY <1>0 DEF HostBits, StepPhase
<1>6. /\ Chunk \in Nat /\ left - Chunk \in Nat /\ HostCount \in Nat
      /\ left' > 0 => left > 0
  <2>1. Chunk \in Nat /\ Chunk <= left
    BY <1>0, Lengths DEF Chunk, CpuTypes
  <2>2. HostCount \in Nat
    BY <2>1, Lengths DEF HostCount
  <2> QED
    BY <1>0, <1>1, <2>1, <2>2 DEF CpuTypes
<1> DEFINE isolates == phase \in {"request", "isolate", "offHost"}
           p == HostPhase(phase, HostCount, ~owns, isolates)
<1>5. Fits(p) /\ p.turn = "host" /\ p.isolate = isolates
  <2>1. phase \in Phases /\ (phase = "wdata" => HostCount = DataBits)
    BY <1>0, <1>1 DEF CpuTypes
  <2>2. (~owns) \in BOOLEAN /\ isolates \in BOOLEAN
    <3>1. isolates \in BOOLEAN
      OBVIOUS
    <3>2. (~owns) \in BOOLEAN
      BY SMT
    <3> QED
      BY <3>1, <3>2
  <2> QED
    BY <1>6, <2>1, <2>2, HostFits
<1>7. \/ ~isolates /\ owns /\ SetIdle(Rest(p)) /\ at' = "next" /\ UNCHANGED <<buf, nextBuffer, cur>>
      \/ /\ NewPhase(p) /\ cur' = nextBuffer /\ UNCHANGED <<lanes, idleWord, held>>
         /\ at' = IF owns THEN "start" ELSE "pad"
  BY DEF HostBits
<1> HIDE DEF p
<1>8. Rest(p) \in IdleWords /\ (Rest(p).noe \/ Rest(p).dir)
  BY <1>5, RestTypes
<1>9. /\ idleWord' \in IdleWords /\ (idleWord'.noe \/ idleWord'.dir)
      /\ noe' \in BOOLEAN /\ dir' \in BOOLEAN /\ out' \in Labels
      /\ (noe' = noe /\ dir' = dir /\ (held => held')) \/ noe' \/ dir'
      /\ held' \in BOOLEAN
      /\ buf' \in [{0, 1} -> PhaseRecords] /\ BuffersFit'
      /\ nextBuffer' \in {0, 1} /\ cur' \in {0, 1}
      /\ \/ at' = "next" /\ ~isolates
         \/ at' \in {"start", "pad"} /\ buf'[cur'].turn = "host" /\ buf'[cur'].isolate = isolates
  <2>1. CASE /\ ~isolates /\ owns /\ SetIdle(Rest(p)) /\ at' = "next"
             /\ UNCHANGED <<buf, nextBuffer, cur>>
    <3>1. /\ idleWord' = Rest(p)
          /\ (Shows(Rest(p)) /\ held' = FALSE) \/ (UNCHANGED lanes /\ held' = TRUE)
      BY <2>1 DEF SetIdle, Holds
    <3>2. BuffersFit'
      BY <1>0, <2>1 DEF BuffersFit
    <3>3. /\ noe' \in BOOLEAN /\ dir' \in BOOLEAN /\ out' \in Labels
          /\ (noe' = noe /\ dir' = dir /\ (held => held')) \/ noe' \/ dir'
          /\ held' \in BOOLEAN
      <4>1. CASE Shows(Rest(p)) /\ held' = FALSE
        BY <1>8, <4>1 DEF Shows, IdleWords
      <4>2. CASE UNCHANGED lanes /\ held' = TRUE
        BY <1>0, <4>2 DEF lanes, PinTypes
      <4> QED
        BY <3>1, <4>1, <4>2
    <3> QED
      BY <1>0, <1>8, <2>1, <3>1, <3>2, <3>3 DEF DmaTypes, CpuTypes
  <2>2. CASE /\ NewPhase(p) /\ cur' = nextBuffer /\ UNCHANGED <<lanes, idleWord, held>>
             /\ at' = IF owns THEN "start" ELSE "pad"
    <3>1. /\ buf' \in [{0, 1} -> PhaseRecords] /\ BuffersFit'
          /\ nextBuffer' \in {0, 1} /\ buf'[nextBuffer] = p
      BY <1>0, <1>5, <2>2, NewPhaseFits
    <3>2. UNCHANGED <<noe, dir, out, held>>
      BY <2>2 DEF lanes
    <3> QED
      BY <1>0, <1>5, <2>2, <3>1, <3>2 DEF DmaTypes, CpuTypes, PinTypes, LanesInv
  <2> QED
    BY <1>7, <2>1, <2>2
<1>2. /\ idleWord' \in IdleWords /\ (idleWord'.noe \/ idleWord'.dir)
      /\ noe' \in BOOLEAN /\ dir' \in BOOLEAN /\ out' \in Labels
      /\ held' \in BOOLEAN /\ (held' \/ noe' \/ dir')
      /\ buf' \in [{0, 1} -> PhaseRecords] /\ BuffersFit'
      /\ nextBuffer' \in {0, 1} /\ cur' \in {0, 1} /\ ~playing
  BY <1>0, <1>1, <1>9 DEF LanesInv
<1>3. \/ at' = "next" /\ phase \notin {"request", "isolate", "offHost"}
      \/ /\ at' \in {"start", "pad"} /\ buf'[cur'].turn = "host"
         /\ buf'[cur'].isolate = (phase \in {"request", "isolate", "offHost"})
  BY <1>9
<1>10. TargetTypes'
  BY <1>0 DEF TargetTypes, target, HostBits
<1>11. PinTypes'
  BY <1>0, <1>1, <1>2, <1>3, Zenon DEF PinTypes
<1>12. DmaTypes'
  BY <1>0, <1>1, <1>2, <1>3 DEF DmaTypes
<1>13. CpuTypes'
  BY <1>0, <1>1, <1>2, <1>3, <1>6 DEF CpuTypes, Steps
<1>14. BuffersFit'
  BY <1>2, <1>3
<1>15. LanesInv'
  BY <1>0, <1>1, <1>2, <1>3 DEF LanesInv
<1>16. StepPhase'
  BY <1>0, <1>1, <1>2, <1>3, <1>6 DEF StepPhase
<1>17. Prepared'
  BY <1>0, <1>1, <1>2, <1>3 DEF Prepared, HostPhases, TargetPhases
<1>18. PadInv'
  BY <1>0, <1>1, <1>2, <1>3 DEF PadInv, Listens, HostPhases, TargetPhases
<1> QED
  BY <1>10, <1>11, <1>12, <1>13, <1>14, <1>15, <1>16, <1>17, <1>18, Parts, PTL

-----------------------------------------------------------------------------
\* A phase starts or is aborted,
LEMMA StartIInv == IInv /\ Start => IInv'
<1> SUFFICES ASSUME IInv, Start PROVE IInv'
  OBVIOUS
<1>0. /\ TargetTypes /\ PinTypes /\ DmaTypes /\ CpuTypes
      /\ BuffersFit /\ LanesInv /\ StepPhase /\ Prepared /\ PadInv
  BY Parts
<1> DEFINE p == buf[cur]
<1>1. /\ at = "start" /\ ~playing /\ (held \/ noe \/ dir) /\ Fits(p) /\ p.turn \in {"host", "target"}
      /\ p.count \in Nat
  BY <1>0 DEF Start, LanesInv, BuffersFit, CpuTypes, Fits, PhaseRecords
<1>2. idleWord' = Rest(p) /\ idleWord' \in IdleWords /\ (idleWord'.noe \/ idleWord'.dir)
  BY <1>1, RestTypes DEF Start
<1>3. UNCHANGED <<noe, dir, out, pad, clkNoe, conf, rnw>>
  BY DEF Start, lanes, Holds
<1>4. CASE playing' = FALSE /\ Holds /\ Fail
  <2>1. playing' \in BOOLEAN /\ held' \in BOOLEAN /\ ~playing'
    BY <1>4, Zenon DEF Holds
  <2>2. noe' \in BOOLEAN /\ dir' \in BOOLEAN /\ out' \in Labels /\ (noe' \/ dir' \/ held')
    BY <1>0, <1>3, <1>4, Zenon DEF PinTypes, Holds
  <2> QED
    BY <1>2, <1>3, <1>4, <2>1, <2>2, FailIInv
<1>5. CASE /\ playing' = TRUE
           /\ want' = (IF Listens(p) THEN p.count ELSE 0)
           /\ at' = IF ~Listens(p) THEN "wait" ELSE IF phase = "ack" THEN "ahead" ELSE "finish"
           /\ UNCHANGED <<held, buf, pos, got, nextBuffer, cur, ahead, owns, phase, left, rest,
                          ack, value, result, target, stray>>
  <2>1. TargetTypes'
    BY <1>0, <1>3, <1>5 DEF TargetTypes, target
  <2>2. PinTypes'
    BY <1>0, <1>3, <1>5, Zenon DEF PinTypes
  <2>3. DmaTypes'
    BY <1>0, <1>1, <1>2, <1>5 DEF DmaTypes
  <2>4. CpuTypes' /\ BuffersFit'
    BY <1>0, <1>5 DEF CpuTypes, Steps, BuffersFit
  <2>5. LanesInv'
    BY <1>1, <1>2, <1>3, <1>5 DEF LanesInv
  <2>6. StepPhase'
    BY <1>0, <1>1, <1>5 DEF StepPhase, Prepared
  <2>7. Prepared'
    BY <1>0, <1>1, <1>3, <1>5 DEF Prepared, TargetPhases
  <2>8. PadInv'
    BY <1>0, <1>1, <1>3, <1>5 DEF PadInv, Listens
  <2> QED
    BY <2>1, <2>2, <2>3, <2>4, <2>5, <2>6, <2>7, <2>8, Parts, PTL
<1> QED
  BY <1>4, <1>5 DEF Start, Listens

\* runs out of time,
LEMMA TimeoutIInv == IInv /\ Timeout => IInv'
<1> SUFFICES ASSUME IInv, Timeout PROVE IInv'
  OBVIOUS
<1>0. /\ TargetTypes /\ PinTypes /\ DmaTypes /\ CpuTypes
      /\ BuffersFit /\ LanesInv /\ StepPhase /\ Prepared /\ PadInv
  BY Parts
<1>1. /\ Fail /\ playing' = FALSE
      /\ (Shows(idleWord) /\ held' = FALSE) \/ (UNCHANGED lanes /\ held' = TRUE)
      /\ UNCHANGED <<pad, clkNoe, idleWord, conf, rnw>>
  BY DEF Timeout, Aborts, Holds
<1>2. idleWord \in IdleWords /\ (idleWord.noe \/ idleWord.dir)
  BY <1>0 DEF DmaTypes, LanesInv
<1>3. /\ noe' \in BOOLEAN /\ dir' \in BOOLEAN /\ out' \in Labels /\ (noe' \/ dir' \/ held')
  <2>1. CASE Shows(idleWord)
    BY <1>1, <1>2, <2>1 DEF Shows, IdleWords
  <2>2. CASE UNCHANGED lanes /\ held' = TRUE
    BY <1>0, <2>2 DEF lanes, PinTypes
  <2> QED
    BY <1>1, <2>1, <2>2
<1>4. playing' \in BOOLEAN /\ ~playing' /\ held' \in BOOLEAN
  BY <1>1, Zenon
<1> QED
  BY <1>1, <1>2, <1>3, <1>4, FailIInv

\* Three bits may say any answer but not one that does not exist.
LEMMA AckTypes == ASSUME TargetTypes, NEW b PROVE AckOf(b) \subseteq Acks \union {"bad"}
BY DEF TargetTypes, AckOf, Acks

\* or is over, and its samples are used.
LEMMA FinishIInv == IInv /\ Finish => IInv'
<1> SUFFICES ASSUME IInv, Finish PROVE IInv'
  OBVIOUS
<1>0. /\ TargetTypes /\ PinTypes /\ DmaTypes /\ CpuTypes
      /\ BuffersFit /\ LanesInv /\ StepPhase /\ Prepared /\ PadInv
  BY Parts
<1>1. /\ at = "finish" /\ ~playing /\ Len(got) = want /\ (held \/ noe \/ dir)
      /\ UNCHANGED <<noe, dir, out, pad, clkNoe, playing, idleWord, held, conf, rnw>>
  BY <1>0 DEF Finish, TxEof, RxEof, LanesInv, pins
<1>2. CASE Fail
  <2>1. /\ noe' \in BOOLEAN /\ dir' \in BOOLEAN /\ out' \in Labels /\ (noe' \/ dir' \/ held')
        /\ playing' \in BOOLEAN /\ ~playing' /\ held' \in BOOLEAN
    BY <1>0, <1>1, Zenon DEF PinTypes, DmaTypes
  <2>2. idleWord' \in IdleWords /\ (idleWord'.noe \/ idleWord'.dir)
    BY <1>0, <1>1 DEF DmaTypes, LanesInv
  <2> QED
    BY <1>1, <1>2, <2>1, <2>2, FailIInv
<1>3. CASE /\ at' = "next"
           /\ ack' \in CASE phase = "ack"   -> AckOf(SubSeq(got, conf.trn + 1, conf.trn + 3))
                         [] phase = "rdata" -> {"OK", "ERROR"}
                         [] OTHER           -> {ack}
           /\ value' = IF phase = "rdata" THEN SubSeq(got, 1, DataBits) ELSE value
           /\ Over
           /\ UNCHANGED <<nextBuffer, cur, ahead, owns, phase, left, rest, result, target, stray>>
  <2>1. /\ buf' \in [{0, 1} -> PhaseRecords] /\ BuffersFit'
        /\ buf'[1 - cur] = buf[1 - cur] /\ pos' = 0 /\ got' = <<>> /\ want' = 0
    BY <1>0, <1>3, OverFits
  <2>2. ack' \in Acks \union {"bad", "ERROR"}
    <3> DEFINE answer == AckOf(SubSeq(got, conf.trn + 1, conf.trn + 3))
    <3>1. answer \subseteq Acks \union {"bad"}
      BY <1>0, AckTypes
    <3> HIDE DEF answer
    <3>2. CASE phase = "ack"
      BY <1>3, <3>1, <3>2 DEF answer
    <3>3. CASE phase = "rdata"
      BY <1>3, <3>3 DEF Acks
    <3>4. CASE phase # "ack" /\ phase # "rdata"
      BY <1>0, <1>3, <3>4 DEF CpuTypes
    <3> QED
      BY <3>2, <3>3, <3>4, Zenon
  <2>3. value' \in Seq(Nat)
    <3>1. CASE phase = "rdata"
      <4>1. DataBits <= Len(got) /\ got \in Seq(Nat) /\ DataBits \in Int
        BY <1>0, <1>1, <3>1, Lengths DEF Prepared, DmaTypes
      <4>2. \A i \in 1..DataBits : got[i] \in Nat
        BY <4>1
      <4>3. SubSeq(got, 1, DataBits) \in Seq(Nat)
        BY <4>1, <4>2, SubSeqProperties
      <4> QED
        BY <1>3, <3>1, <4>3
    <3>2. CASE phase # "rdata"
      BY <1>0, <1>3, <3>2 DEF CpuTypes
    <3> QED
      BY <3>1, <3>2
  <2>4. TargetTypes'
    BY <1>0, <1>1, <1>3 DEF TargetTypes, target
  <2>5. PinTypes'
    BY <1>0, <1>1, <1>3, Zenon DEF PinTypes
  <2>6. DmaTypes'
    BY <1>0, <1>1, <2>1 DEF DmaTypes
  <2>7. CpuTypes'
    BY <1>0, <1>3, <2>2, <2>3 DEF CpuTypes, Steps
  <2>8. LanesInv' /\ StepPhase'
    BY <1>0, <1>1, <1>3 DEF LanesInv, StepPhase
  <2>9. Prepared'
    BY <1>0, <1>1, <1>3, <2>1 DEF Prepared, CpuTypes
  <2>10. PadInv'
    BY <1>0, <1>1, <1>3 DEF PadInv
  <2> QED
    BY <2>1, <2>4, <2>5, <2>6, <2>7, <2>8, <2>9, <2>10, Parts, PTL
<1> QED
  BY <1>2, <1>3 DEF Finish

-----------------------------------------------------------------------------
\* What a word puts on the lanes: the translator drives towards the ESP only in a
\* phase of the target.
LEMMA WordTypes ==
  ASSUME NEW p, Fits(p), NEW k \in Nat, k >= 1, k <= Words(p)
  PROVE  /\ Word(p, k).noe \in BOOLEAN /\ Word(p, k).dir \in BOOLEAN /\ Word(p, k).out \in Labels
         /\ ~Word(p, k).noe /\ ~Word(p, k).dir => Listens(p)
<1>1. p.count \in Nat /\ p.turn \in {"host", "target"} /\ p.acquire \in BOOLEAN
  BY DEF Fits, PhaseRecords
<1>2. Lead(p) \in Nat /\ (Lead(p) > 0 \/ p.count > 0 => Words(p) = Lead(p) + p.count)
      /\ (p.count = 0 /\ Lead(p) = 0 => Words(p) = 1)
  BY <1>1, Lengths DEF Lead, Words
<1>3. Word(p, k).out \in Labels
  <2>1. CASE k > Lead(p)
    <3>1. k - Lead(p) \in Nat /\ (p.what = "wdata" => k - Lead(p) >= 1 /\ k - Lead(p) <= DataBits)
      BY <1>1, <1>2, <2>1, Lengths DEF Fits
    <3>2. Bit(p, k - Lead(p)) \in Labels
      BY <3>1, BitTypes
    <3> QED
      BY <2>1, <3>2 DEF Word
  <2>2. CASE ~(k > Lead(p))
    <3>1. Bit(p, 1) \in Labels
      BY BitTypes, Lengths
    <3> QED
      BY <2>2, <3>1 DEF Word
  <2> QED
    BY <2>1, <2>2
<1>4. /\ Word(p, k).noe = (k = 1 /\ (Lead(p) > 0 \/ p.count = 0))
      /\ Word(p, k).dir = (p.turn = "host")
  BY DEF Word
<1>5. p.turn = "target" /\ ~(k = 1 /\ (Lead(p) > 0 \/ p.count = 0)) => p.count > 0
  <2>1. p.turn = "target" /\ p.count = 0 => Lead(p) = 0
    BY <1>1 DEF Lead, Fits
  <2> QED
    BY <1>1, <1>2, <2>1
<1>6. Word(p, k).noe \in BOOLEAN /\ Word(p, k).dir \in BOOLEAN
  BY <1>4
<1> QED
  BY <1>1, <1>3, <1>4, <1>5, <1>6 DEF Listens

\* A clock of the target, with or without a sequence,
LEMMA EdgeTypes ==
  ASSUME TargetTypes, UNCHANGED <<conf, rnw>>, NEW d, NEW l,
         \/ TargetEdge(d, l) \/ SequenceEdge(TRUE) \/ SequenceEdge(FALSE) \/ UNCHANGED target
  PROVE  TargetTypes'
<1>1. CASE TargetEdge(d, l)
  BY <1>1 DEF TargetTypes, TargetEdge, Counts, target
<1>2. CASE SequenceEdge(TRUE) \/ SequenceEdge(FALSE)
  BY <1>2 DEF TargetTypes, SequenceEdge
<1>3. CASE UNCHANGED target
  BY <1>3 DEF TargetTypes, target
<1> QED
  BY <1>1, <1>2, <1>3

\* and a word of the DMA.
LEMMA PlayIInv == IInv /\ Play => IInv'
<1> SUFFICES ASSUME IInv, Play PROVE IInv'
  OBVIOUS
<1>0. /\ TargetTypes /\ PinTypes /\ DmaTypes /\ CpuTypes
      /\ BuffersFit /\ LanesInv /\ StepPhase /\ Prepared /\ PadInv
  BY Parts
<1> DEFINE p == buf[cur]
           w == Word(p, pos + 1)
<1>1. /\ playing /\ pos' = pos + 1 /\ pos < Words(p) /\ Shows(w) /\ held' = FALSE
      /\ UNCHANGED <<pad, clkNoe, buf, playing, idleWord, want, conf, rnw>>
  BY DEF Play
<1>2. /\ UNCHANGED <<nextBuffer, cur, ahead, owns, at, phase, left, rest, ack, value, result>>
  BY DEF Play, cpu
<1>3. Fits(p) /\ pos \in Nat
  BY <1>0 DEF CpuTypes, DmaTypes, BuffersFit
<1>4. pos + 1 \in Nat /\ pos + 1 >= 1 /\ pos + 1 <= Words(p)
  <2>1. Words(p) \in Nat
    BY <1>3, Lengths DEF Fits, PhaseRecords, Words, Lead
  <2> QED
    BY <1>1, <1>3, <2>1
<1>5. /\ noe' \in BOOLEAN /\ dir' \in BOOLEAN /\ out' \in Labels
      /\ ~noe' /\ ~dir' => Listens(p)
  BY <1>1, <1>3, <1>4, WordTypes DEF Shows
<1>6. \/ \E d, l : TargetEdge(d, l)
      \/ SequenceEdge(TRUE) \/ SequenceEdge(FALSE) \/ UNCHANGED target
  <2> DEFINE last == left = 0 /\ pos + 1 = Words(p)
  <2>1. \/ UNCHANGED target \/ SequenceEdge(last) \/ SequenceEdge(FALSE)
        \/ TargetEdge(~w.noe /\ w.dir, w.out)
    BY Zenon DEF Play
  <2>2. last = TRUE \/ last = FALSE
    OBVIOUS
  <2> HIDE DEF last, w
  <2>3. SequenceEdge(last) => SequenceEdge(TRUE) \/ SequenceEdge(FALSE)
    <3>1. CASE last = TRUE
      BY <3>1
    <3>2. CASE last = FALSE
      BY <3>2
    <3> QED
      BY <2>2, <3>1, <3>2
  <2> QED
    BY <2>1, <2>3, Zenon
<1>7. TargetTypes'
  BY <1>0, <1>1, <1>6, EdgeTypes
<1>8. got' \in Seq(Nat)
  <2>1. (IF clkNoe THEN Undriven ELSE Line) \in Nat
    BY <1>0 DEF Undriven, Line, TargetTypes
  <2>2. got' = Append(got, IF clkNoe THEN Undriven ELSE Line) \/ got' = got
    BY DEF Play
  <2> QED
    BY <1>0, <2>1, <2>2 DEF DmaTypes
<1>15. stray' \in {"no", "quiet", "drives"}
  BY <1>0 DEF Play, Strays, PinTypes
<1>9. PinTypes'
  BY <1>0, <1>1, <1>5, <1>15, Zenon DEF PinTypes
<1>10. DmaTypes'
  <2>1. held' \in BOOLEAN
    BY <1>1, Zenon
  <2>2. pos' = pos + 1
    BY <1>1, Zenon
  <2>3. pos' \in Nat
    BY <1>3, <2>2
  <2> QED
    BY <1>0, <1>1, <1>8, <2>1, <2>3, Zenon DEF DmaTypes
<1>11. CpuTypes' /\ BuffersFit'
  BY <1>0, <1>1, <1>2 DEF CpuTypes, BuffersFit
<1>12. LanesInv'
  BY <1>0, <1>1, <1>2, <1>5 DEF LanesInv
<1>13. StepPhase' /\ Prepared'
  BY <1>0, <1>1, <1>2 DEF StepPhase, Prepared
<1>14. PadInv'
  BY <1>0, <1>1, <1>2 DEF PadInv
<1> QED
  BY <1>7, <1>9, <1>10, <1>11, <1>12, <1>13, <1>14, Parts, PTL

-----------------------------------------------------------------------------
\* The next phase of a call, or its end.
LEMMA NextPhaseIInv == IInv /\ NextPhase => IInv'
<1> SUFFICES ASSUME IInv, NextPhase PROVE IInv'
  OBVIOUS
<1>0. /\ TargetTypes /\ PinTypes /\ DmaTypes /\ CpuTypes
      /\ BuffersFit /\ LanesInv /\ StepPhase /\ Prepared /\ PadInv
  BY Parts
<1>1. /\ at = "next" /\ ~playing
      /\ UNCHANGED <<noe, dir, out, pad, clkNoe, buf, playing, pos, idleWord, held, got, want,
                     nextBuffer, ahead, owns, rest, ack, value, conf, rnw, target, stray>>
  BY <1>0 DEF NextPhase, LanesInv, pins, dma
<1>2. TargetTypes'
  BY <1>0, <1>1 DEF TargetTypes, target
<1>3. PinTypes'
  BY <1>0, <1>1, Zenon DEF PinTypes
<1>4. DmaTypes' /\ BuffersFit'
  BY <1>0, <1>1, Zenon DEF DmaTypes, BuffersFit
<1>5. LanesInv'
  BY <1>0, <1>1 DEF LanesInv
\* Where the next phase goes: to the host, to a target whose pad is released, or
\* to the data phase prepared ahead.
<1>6. \/ at' = "host" /\ phase' \in HostPhases \ {"wdata"} /\ cur' = cur
      \/ at' = "target" /\ phase' \in TargetPhases \ {"rdata"} /\ ~pad /\ cur' = cur
      \/ at' = "start" /\ phase' = "rdata" /\ phase = "ack" /\ rnw /\ ~pad /\ cur' = ahead
      \/ at' = "pad" /\ phase' = "wdata" /\ phase = "ack" /\ ~rnw /\ cur' = ahead
      \/ at' \in {"ready", "sequence", "clkOn", "clkOff"} /\ phase' = phase /\ cur' = cur
  <2>1. CASE AfterPhase
    <3>1. CASE phase = "request"
      BY <1>0, <1>1, <2>1, <3>1 DEF AfterPhase, ToTarget, PadInv, TargetPhases, StepPhase
    <3>2. CASE phase = "ack"
      BY <1>0, <1>1, <2>1, <3>2 DEF AfterPhase, ToHost, ToTarget, PadInv, TargetPhases,
         StepPhase, HostPhases, NoAnswerTail
    <3>3. CASE phase \in {"rdata", "readBack", "wdata"}
      BY <1>0, <1>1, <2>1, <3>3 DEF AfterPhase, ToHost, IdleOrPark, StepPhase, HostPhases
    <3>4. CASE phase \in {"skip", "trnEnd", "backoff", "isolate", "din"}
      BY <1>0, <1>1, <2>1, <3>4 DEF AfterPhase, ToHost, ToTarget, StepPhase, HostPhases,
         PadInv, TargetPhases
    <3>5. CASE phase \in {"idle", "swj", "dout"}
      BY <1>0, <1>1, <2>1, <3>5 DEF AfterPhase, ToHost, HostPhases
    <3> QED
      BY <1>0, <2>1, <3>1, <3>2, <3>3, <3>4, <3>5 DEF AfterPhase, StepPhase
  <2>2. CASE Done
    BY <2>2 DEF Done, Return, Stop
  <2> QED
    BY <2>1, <2>2 DEF NextPhase
<1>7. left' \in Nat /\ (left' > 0 => phase' \in {"idle", "swj", "dout"})
  <2>1. CASE left' = left /\ phase' = phase
    BY <1>0, <2>1 DEF StepPhase, CpuTypes
  <2>2. CASE left' = left /\ left = 0
    BY <2>2
  <2>3. CASE IdleOrPark
    BY <1>0, <2>3, Configured DEF IdleOrPark
  <2>4. \/ left' = left /\ phase' = phase
        \/ left' = left /\ left = 0
        \/ IdleOrPark
    <3>1. CASE AfterPhase
      BY <1>0, <3>1 DEF AfterPhase, ToHost, ToTarget, StepPhase, CpuTypes
    <3>2. CASE Done
      BY <3>2 DEF Done, Return, Stop
    <3> QED
      BY <3>1, <3>2 DEF NextPhase
  <2> QED
    BY <2>1, <2>2, <2>3, <2>4
<1>8. result' \in Acks \union {"bad", "ERROR", "done", "none"}
  <2>1. CASE UNCHANGED result
    BY <1>0, <2>1 DEF CpuTypes
  <2>2. CASE Done
    BY <1>0, <2>2 DEF CpuTypes, Done, Return, Stop
  <2> QED
    BY <2>1, <2>2 DEF NextPhase
<1>9. CpuTypes'
  <2>1. phase' \in Phases
    <3>1. HostPhases \subseteq Phases /\ TargetPhases \subseteq Phases
          /\ "rdata" \in Phases /\ "wdata" \in Phases
      BY DEF Phases, HostPhases, TargetPhases
    <3> QED
      BY <1>0, <1>6, <3>1 DEF CpuTypes
  <2>2. at' \in Steps /\ cur' \in {0, 1}
    BY <1>0, <1>6 DEF CpuTypes, Steps
  <2> QED
    BY <1>0, <1>1, <1>7, <1>8, <2>1, <2>2 DEF CpuTypes
<1>10. StepPhase'
  BY <1>0, <1>1, <1>6, <1>7 DEF StepPhase, HostPhases
<1>11. Prepared'
  BY <1>0, <1>1, <1>6 DEF Prepared, Listens
<1>12. PadInv'
  BY <1>0, <1>1, <1>6 DEF PadInv
<1> QED
  BY <1>2, <1>3, <1>4, <1>5, <1>9, <1>10, <1>11, <1>12, Parts, PTL

\* The calls.
LEMMA ApiIInv == IInv /\ Api => IInv'
<1> SUFFICES ASSUME IInv, Api PROVE IInv'
  OBVIOUS
<1>0. /\ TargetTypes /\ PinTypes /\ DmaTypes /\ CpuTypes
      /\ BuffersFit /\ LanesInv /\ StepPhase /\ Prepared /\ PadInv
  BY Parts
<1>1. /\ at = "ready" /\ ~playing
      /\ UNCHANGED <<noe, dir, out, pad, clkNoe, buf, playing, pos, idleWord, held, got, want,
                     nextBuffer, cur, ahead, owns, tstate, tedge, stray>>
  <2>1. at = "ready"
    BY DEF Api, SWD_Transfer, SWJ_Sequence, DAP_SWD_Sequence, SetDataIdle, SWD_Configure,
       swd_esp_parlio_setup, swd_esp_parlio_off
  <2>2. UNCHANGED <<pins, dma, nextBuffer, cur, ahead, owns, tstate, tedge, stray>>
    BY Zenon DEF Api, SWD_Transfer, SWJ_Sequence, DAP_SWD_Sequence, SetDataIdle,
       SWD_Configure, swd_esp_parlio_setup, swd_esp_parlio_off, Call, target
  <2>3. UNCHANGED <<noe, dir, out, pad, clkNoe, buf, playing, pos, idleWord, held, got, want>>
    BY <2>2, Zenon DEF pins, dma
  <2> QED
    BY <1>0, <2>1, <2>2, <2>3 DEF LanesInv
<1>2. \/ at' = "host" /\ phase' \in HostPhases \ {"wdata"}
      \/ at' = "target" /\ phase' = "offTarget"
      \/ at' = "sequence" /\ phase' = "none"
      \/ at' = at /\ phase' = "none"
  BY DEF Api, SWD_Transfer, SWJ_Sequence, DAP_SWD_Sequence, SetDataIdle, SWD_Configure,
     swd_esp_parlio_setup, swd_esp_parlio_off, Call, HostPhases
<1>13. \/ \E p, f : Call(p, f) /\ (rest' = rest \/ rest' \in Sequences)
       \/ SWD_Configure
  BY Zenon DEF Api, SWD_Transfer, SWJ_Sequence, DAP_SWD_Sequence, SetDataIdle,
     swd_esp_parlio_setup, swd_esp_parlio_off
<1>3. /\ left' \in Nat /\ (left' > 0 => phase' = "swj")
      /\ rest' \in Seq({"din", "dout"}) /\ value' \in Seq(Nat)
      /\ ack' = "bad" \/ ack' = ack
      /\ result' \in {"none", "done"}
  <2>1. CASE \E p, f : Call(p, f) /\ (rest' = rest \/ rest' \in Sequences)
    <3>1. PICK p, f : Call(p, f) /\ (rest' = rest \/ rest' \in Sequences)
      BY <2>1
    <3>2. /\ phase' = p /\ left' = (IF p = "swj" THEN SequenceBits ELSE 0)
          /\ result' = "none" /\ ack' = "bad" /\ value' = <<>>
      BY <3>1 DEF Call, Forget
    <3>3. rest' \in Seq({"din", "dout"})
      BY <1>0, <3>1, SequencesAssumption DEF CpuTypes
    <3>4. left' \in Nat /\ (left' > 0 => phase' = "swj") /\ value' \in Seq(Nat)
      BY <3>2, Lengths
    <3> QED
      BY <3>2, <3>3, <3>4, Zenon
  <2>2. CASE SWD_Configure
    BY <1>0, <2>2 DEF SWD_Configure, CpuTypes
  <2> QED
    BY <1>13, <2>1, <2>2
<1>5. /\ conf' \in Configs /\ rnw' \in BOOLEAN
      /\ said' = "none" \/ said' = said
      /\ took' = 0 \/ took' = took
  BY <1>0 DEF TargetTypes, Api, SWD_Transfer, SWJ_Sequence, DAP_SWD_Sequence, SetDataIdle,
     SWD_Configure, swd_esp_parlio_setup, swd_esp_parlio_off, Call, Forget, target
<1>6. TargetTypes'
  BY <1>0, <1>1, <1>5 DEF TargetTypes
<1>7. PinTypes'
  BY <1>0, <1>1, Zenon DEF PinTypes
<1>8. DmaTypes' /\ BuffersFit'
  BY <1>0, <1>1, Zenon DEF DmaTypes, BuffersFit
<1>9. CpuTypes'
  BY <1>0, <1>1, <1>2, <1>3 DEF CpuTypes, Steps, Phases
<1>10. LanesInv'
  BY <1>0, <1>1, <1>2 DEF LanesInv
<1>11. StepPhase'
  BY <1>0, <1>1, <1>2, <1>3 DEF StepPhase
<1>12. Prepared' /\ PadInv'
  BY <1>0, <1>1, <1>2 DEF Prepared, PadInv
<1> QED
  BY <1>6, <1>7, <1>8, <1>9, <1>10, <1>11, <1>12, Parts, PTL

-----------------------------------------------------------------------------
\* The strengthened invariant holds initially,
LEMMA InitIInv == Init => IInv
<1> SUFFICES ASSUME Init PROVE IInv
  OBVIOUS
<1> USE DEF Init
<1>1. TargetTypes
  BY DEF TargetTypes, Acks
<1>2. Fits(Prime) /\ Prime.turn = "host" /\ Prime.count = 0
  BY PrimeFits DEF Prime, HostPhase
<1>3. PinTypes
  <2>1. 1 \in Labels
    BY DEF Labels, Levels
  <2> QED
    BY <2>1, Zenon DEF PinTypes
<1>4. Rest(Prime) \in IdleWords /\ (Rest(Prime).noe \/ Rest(Prime).dir)
  BY <1>2, RestTypes
<1>5. DmaTypes
  <2>1. Prime \in PhaseRecords
    BY <1>2 DEF Fits
  <2>2. buf \in [{0, 1} -> PhaseRecords] /\ got \in Seq(Nat) /\ pos \in Nat /\ want \in Nat
    BY <2>1
  <2>3. playing \in BOOLEAN /\ held \in BOOLEAN /\ idleWord \in IdleWords
    BY <1>4, Zenon
  <2> QED
    BY <2>2, <2>3, Zenon DEF DmaTypes
<1>6. CpuTypes
  BY DEF CpuTypes, Steps, Phases
<1>7. BuffersFit
  BY <1>2 DEF BuffersFit
<1>8. LanesInv /\ StepPhase /\ Prepared /\ PadInv
  BY <1>4 DEF LanesInv, StepPhase, Prepared, PadInv, TargetPhases
<1> QED
  BY <1>1, <1>3, <1>5, <1>6, <1>7, <1>8, Parts

\* and every step preserves it.
LEMMA NextIInv == IInv /\ [Next]_vars => IInv'
<1> SUFFICES ASSUME IInv, [Next]_vars PROVE IInv'
  OBVIOUS
<1>1. CASE Dma
  BY <1>1, PlayIInv, PlayEndsIInv, Zenon DEF Dma
<1>2. CASE Cpu
  BY <1>2, HostBitsIInv, AcquirePadIInv, TargetBitsIInv, StartIInv, PrepareAheadIInv,
     TimeoutIInv, WaitIInv, ReleaseIInv, FinishIInv, NextPhaseIInv, NextSequenceIInv,
     OutDisableIInv, OutEnableIInv, EnablePadIInv, ClockOnIInv, ClockOffIInv, Zenon DEF
     Cpu
<1>3. CASE Api
  BY <1>3, ApiIInv
<1>4. CASE UNCHANGED vars
  <2>0. /\ TargetTypes /\ PinTypes /\ DmaTypes /\ CpuTypes
      /\ BuffersFit /\ LanesInv /\ StepPhase /\ Prepared /\ PadInv
    BY Parts
  <2>1. TargetTypes' /\ BuffersFit' /\ DmaTypes'
    BY <1>4, <2>0, Zenon DEF vars, target, TargetTypes, BuffersFit, dma, DmaTypes
  <2>2. PinTypes' /\ CpuTypes'
    BY <1>4, <2>0, Zenon DEF vars, pins, PinTypes, cpu, CpuTypes
  <2>3. LanesInv' /\ StepPhase'
    BY <1>4, <2>0, Zenon DEF vars, pins, dma, cpu, LanesInv, StepPhase
  <2>4. Prepared' /\ PadInv'
    BY <1>4, <2>0, Zenon DEF vars, pins, dma, cpu, Prepared, PadInv
  <2> QED
    BY <2>1, <2>2, <2>3, <2>4, Parts, PTL
<1> QED
  BY <1>1, <1>2, <1>3, <1>4 DEF Next

\* The strengthened invariant is one.
LEMMA Invariance == Spec => []IInv
<1>1. Init => IInv
  BY InitIInv
<1>2. IInv /\ [Next]_vars => IInv'
  BY NextIInv
<1> QED
  BY <1>1, <1>2, PTL DEF Spec

-----------------------------------------------------------------------------
\* The variables keep their types: no count is negative, and what is sampled are
\* numbers of edges.
THEOREM TypeCorrect == Spec => []TypeOK
<1>1. IInv => TypeOK
  BY DEF IInv
<1> QED
  BY <1>1, Invariance, PTL

\* No word that is played, and no idle word, has the translator drive HOST_SWDATA_OUT
\* against the ESP pad, for any configuration and whichever phase failed before; only a
\* word that an aborted phase has left on the lanes may (held).
THEOREM NeverContends == Spec => []NoContention
<1>1. IInv => NoContention
  BY DEF IInv, LanesInv, PadInv, NoContention
<1> QED
  BY <1>1, Invariance, PTL

\* The CPU never writes the buffer that plays and never takes another for it: the
\* data phase is prepared ahead in the other one.
THEOREM NeverOverwrites == Spec => NoOverwrite
<1>1. IInv /\ [Next]_vars => (playing /\ playing' => cur' = cur /\ buf'[cur] = buf[cur])
  <2> SUFFICES ASSUME IInv, [Next]_vars, playing, playing'
               PROVE  cur' = cur /\ buf'[cur] = buf[cur]
    OBVIOUS
  <2>0. at \in {"wait", "finish", "ahead"} /\ DmaTypes /\ CpuTypes /\ Prepared /\ StepPhase
    BY Parts DEF LanesInv
  <2>1. CASE Play
    BY <2>1 DEF Play, cpu
  <2>2. CASE PlayEnds
    BY <2>2 DEF PlayEnds
  <2>3. CASE PrepareAhead
    <3>1. cur' = cur /\ at = "ahead"
      BY <2>3 DEF PrepareAhead
    <3>2. nextBuffer = 1 - cur /\ cur \in {0, 1}
      BY <2>0, <3>1 DEF Prepared, StepPhase, CpuTypes
    <3>3. \E p : buf' = [buf EXCEPT ![nextBuffer] = p]
      BY <2>3 DEF PrepareAhead, NewPhase
    <3> QED
      BY <2>0, <3>1, <3>2, <3>3 DEF DmaTypes
  <2>4. CASE Timeout
    BY <2>4 DEF Timeout, Aborts
  <2>5. CASE Wait \/ Finish
    BY <2>5 DEF Wait, Finish, TxEof
  <2>6. CASE UNCHANGED vars
    BY <2>6 DEF vars, dma, cpu
  <2>7. CASE HostBits \/ AcquirePad \/ TargetBits \/ Start \/ Release
    BY <2>0, <2>7 DEF HostBits, AcquirePad, TargetBits, Start, Release
  <2>8. CASE NextPhase \/ NextSequence \/ OutDisable \/ OutEnable \/ EnablePad
    BY <2>0, <2>8 DEF NextPhase, NextSequence, OutDisable, OutEnable, EnablePad
  <2>9. CASE ClockOn \/ ClockOff
    BY <2>0, <2>9 DEF ClockOn, ClockOff
  <2>10. CASE Api
    BY <2>0, <2>10 DEF Api, SWD_Transfer, SWJ_Sequence, DAP_SWD_Sequence, SetDataIdle,
       SWD_Configure, swd_esp_parlio_setup, swd_esp_parlio_off
  <2> QED
    BY <2>1, <2>2, <2>3, <2>4, <2>5, <2>6, <2>7, <2>8, <2>9, <2>10, Zenon DEF Next, Dma, Cpu
<1> QED
  BY <1>1, Invariance, PTL DEF Spec, NoOverwrite

-----------------------------------------------------------------------------
(***************************************************************************)
(* A second invariant, on top of the first: where the target is, clock by  *)
(* clock of a transfer.                                                    *)
(***************************************************************************)
Before == {"host", "pad", "target", "start"}     \* its clocks are still to come,
During == {"wait", "ahead", "finish"}            \* are being made,
After  == {"release", "next"}                    \* and have been made

Heard     == {"ack", "rdata", "skip", "trnEnd", "backoff"}
Counted   == Heard \union {"wdata", "dummy"}
Transfers == {"request", "readBack", "giveback", "idle", "park"} \union Counted

PlaceInv ==
  /\ phase \in Transfers => at \in Before \union During \union After \union {"ready"}
  /\ phase \in Transfers /\ at # "ready" => ~clkNoe
  /\ at \in {"ahead", "finish"} => phase \in TargetPhases

\* The phase that is played is the one the CPU is at, with its clocks.
Clocks == CASE phase = "request" -> 8
            [] phase = "rdata" -> DataBits + conf.trn
            [] phase \in {"wdata", "dummy"} -> DataBits
            [] OTHER -> TargetCount

BufInv ==
  /\ at \in {"pad", "start"} \union During =>
       /\ buf[cur].what = phase
       /\ buf[cur].turn = IF phase \in TargetPhases \union {"offTarget"} THEN "target" ELSE "host"
       /\ phase \notin {"idle", "swj", "dout"} => buf[cur].count = Clocks
  /\ at \in {"finish", "next"} /\ phase = "ack" =>
       buf[ahead] = IF rnw THEN TargetPhase("rdata", DataBits + conf.trn)
                           ELSE HostPhase("wdata", DataBits, TRUE, FALSE)

\* The DMA plays and samples only then, and shows the idle word when it has ended.
PosInv ==
  /\ at \notin During => pos = 0 /\ got = <<>> /\ want = 0 /\ ~playing
  /\ at \in During =>
       /\ pos \in 0..Words(buf[cur])
       /\ ~playing => pos = Words(buf[cur]) /\ noe = idleWord.noe /\ dir = idleWord.dir
       /\ idleWord = Rest(buf[cur])
       /\ want = IF Listens(buf[cur]) THEN buf[cur].count ELSE 0
       /\ Len(got) = IF want = 0 \/ pos <= Lead(buf[cur]) THEN 0 ELSE pos - Lead(buf[cur])

\* Clocks of the phase so far, and the edge of the target a transfer ends at.
Made == CASE at \in During -> IF pos <= Lead(buf[cur]) THEN 0 ELSE pos - Lead(buf[cur])
          [] at \in After -> Clocks
          [] OTHER -> 0
End  == DataAt + conf.trn + (IF said = "OK" \/ conf.dataPhase THEN DataBits ELSE 0)
Base == CASE phase = "ack" -> 8
          [] phase \in {"wdata", "dummy"} \/ (phase = "backoff" /\ ~rnw) -> DataAt + conf.trn
          [] OTHER -> DataAt

Follows ==
  \/ tstate = "lost" /\ said = "none"
  \/ /\ said \in Acks
     /\ \/ tstate = said /\ tedge = Base + Made /\ Base + Made < End
        \/ tstate = "idle" /\ Base + Made = End

Asked ==
  \/ said = "none" /\ \/ tstate = "lost"
                      \/ tstate = "idle" /\ Made = 0
                      \/ tstate = "request" /\ tedge = Made /\ Made \in 1..7
  \/ said \in Acks /\ tstate = said /\ tedge = 8 /\ Made = 8

EdgeInv ==
  /\ at # "ready" => /\ phase = "request" => Asked
                     /\ phase \in Counted \ {"backoff"} => Follows
                     /\ phase = "backoff" => tstate = "lost" \/ Follows
  /\ phase \notin {"request"} \union Counted \/ at = "ready" => tstate \in {"idle", "lost"}

\* What the CPU has made of the answer.
AckInv ==
  at # "ready" =>
    /\ phase = "ack" /\ at = "next" /\ said # "none" => ack \in {said, "bad"}
    /\ phase \in {"rdata", "wdata"} => said \in {"OK", "none"}
    /\ phase \in {"rdata", "skip", "trnEnd"} => rnw
    /\ phase \in {"wdata", "dummy"} => ~rnw
    /\ phase \in {"skip", "dummy"} => conf.dataPhase
    /\ phase = "trnEnd" => ~conf.dataPhase /\ said # "OK"

\* The host does not drive from the end of the request to the end of the target's turn.
TurnInv ==
  at # "ready" => /\ phase = "request" /\ at \in After => noe
                  /\ phase \in Heard => noe \/ ~dir

\* The sample of a clock, where the target drives, is named by the clock's edge.
Driven(e) == /\ AckAt <= e
             /\ e < DataAt + (IF rnw /\ (said = "OK" \/ conf.dataPhase) THEN DataBits ELSE 0)
Samples(s, base) ==
  \A k \in 1..Len(s) : Driven(base + k - 1) => s[k] = base + k - 1
SampleInv == phase \in {"ack", "rdata"} /\ said # "none" => Samples(got, Base)

\* Every bit of write data the host has clocked out the target has taken.
TookInv ==
  at # "ready" => /\ phase \in {"request", "ack"} => took = 0
                  /\ phase = "wdata" /\ said # "none" => took = Made

\* What OK stands for once the data phase is over.
Verdict  == IF at = "ready" THEN result ELSE ack
DataDone == \/ phase \in {"readBack", "idle", "park"}
            \/ phase = "wdata" /\ at \in After
            \/ phase = "rdata" /\ at = "next"
ExactInv ==
  DataDone /\ Verdict = "OK" /\ said # "none" =>
    /\ said = "OK"
    /\ IF rnw THEN value = [k \in 1..DataBits |-> DataAt + k - 1] ELSE took = DataBits

Second == /\ PlaceInv /\ BufInv /\ PosInv /\ EdgeInv /\ AckInv /\ TurnInv
          /\ SampleInv /\ TookInv /\ ExactInv

-----------------------------------------------------------------------------
\* A call that fails leaves nothing to be kept.
LEMMA FailSecond ==
  ASSUME IInv, Second, Fail, ~playing', UNCHANGED clkNoe
  PROVE  Second'
<1>1. /\ at' \in {"ready", "clkOn", "clkOff", "sequence"} /\ phase' = phase
      /\ phase \in Transfers => at' = "ready"
      /\ result' = "ERROR" /\ tstate' \in {"idle", "lost"} /\ said' = "none"
      /\ pos' = 0 /\ got' = <<>> /\ want' = 0
  BY DEF Fail, Forget, LeavesTarget, Transfers, Counted, Heard
<1>2. PlaceInv' /\ BufInv' /\ PosInv'
  BY <1>1 DEF PlaceInv, BufInv, PosInv, During
<1>3. EdgeInv' /\ AckInv' /\ TurnInv'
  BY <1>1 DEF EdgeInv, AckInv, TurnInv, Transfers, Counted, Heard
<1>4. SampleInv' /\ TookInv' /\ ExactInv'
  BY <1>1 DEF SampleInv, TookInv, ExactInv, Transfers, Counted, Heard
<1> QED
  BY <1>2, <1>3, <1>4 DEF Second

\* Where the target is, is not touched by a step that makes no clock,
LEMMA SameEdges ==
  ASSUME EdgeInv, Made' = Made, at # "ready", at' # "ready",
         UNCHANGED <<phase, conf, rnw, tstate, tedge, said>>
  PROVE  EdgeInv'
<1>1. End' = End /\ Base' = Base
  BY Zenon DEF End, Base, DataAt, AckAt
<1> QED
  BY <1>1, Zenon DEF EdgeInv, Follows, Asked

\* and the clocks of the phase are those of its buffer, once it has been played.
LEMMA Played ==
  ASSUME IInv, Second, at \in During, ~playing, phase \in {"request"} \union Counted
  PROVE  Made = Clocks /\ Clocks \in Nat
<1>0. TargetTypes /\ DmaTypes /\ CpuTypes /\ BufInv /\ PosInv
  BY Zenon, Parts DEF Second
<1>1. conf.trn \in Nat /\ conf.trn >= 1 /\ DataBits \in Nat /\ DataBits >= 1
  BY <1>0, Configured, Lengths
<1>2. Clocks \in Nat /\ Clocks >= 1
  <2>1. CASE rnw
    BY <1>1, <2>1 DEF Clocks, TargetCount, Counted, Heard
  <2>2. CASE ~rnw
    BY <1>1, <2>2 DEF Clocks, TargetCount, Counted, Heard
  <2> QED
    BY <2>1, <2>2
<1>3. buf[cur].count = Clocks /\ pos = Words(buf[cur])
  BY <1>0 DEF BufInv, PosInv, Counted, Heard
<1>4. Lead(buf[cur]) \in Nat
  BY Lengths DEF Lead
<1> DEFINE l == Lead(buf[cur])
           c == buf[cur].count
<1>5. pos = l + c /\ c >= 1 /\ c \in Nat /\ l \in Nat
  BY <1>2, <1>3, <1>4 DEF Words
<1>6. Made = IF pos <= l THEN 0 ELSE pos - l
  BY DEF Made, During, After
<1> HIDE DEF l, c
<1>7. Made = c
  BY <1>5, <1>6
<1> QED
  BY <1>2, <1>3, <1>7 DEF c


-----------------------------------------------------------------------------
\* A phase that is too slow fails.
LEMMA TimeoutSecond == IInv /\ Second /\ Timeout => Second'
<1> SUFFICES ASSUME IInv, Second, Timeout PROVE Second'
  OBVIOUS
<1>1. Fail /\ ~playing' /\ UNCHANGED clkNoe
  BY DEF Timeout, Aborts
<1> QED
  BY <1>1, FailSecond

\* A phase is started, or the transmitter is never ready.
LEMMA StartSecond == IInv /\ Second /\ Start => Second'
<1> SUFFICES ASSUME IInv, Second, Start PROVE Second'
  OBVIOUS
<1>0. /\ TargetTypes /\ PinTypes /\ DmaTypes /\ CpuTypes
      /\ BuffersFit /\ LanesInv /\ StepPhase /\ Prepared
      /\ PlaceInv /\ BufInv /\ PosInv /\ EdgeInv /\ AckInv /\ TurnInv
      /\ SampleInv /\ TookInv /\ ExactInv
  BY Zenon, Parts DEF Second
<1>1. UNCHANGED <<noe, dir, clkNoe, conf, rnw>>
  BY DEF Start, lanes, Holds
<1> DEFINE p == buf[cur]
<1>2. CASE Fail /\ ~playing'
  BY <1>1, <1>2, FailSecond
<1>3. CASE ~(Fail /\ ~playing')
  <2>1. /\ at = "start" /\ idleWord' = Rest(p) /\ playing'
        /\ want' = (IF Listens(p) THEN p.count ELSE 0)
        /\ at' = IF ~Listens(p) THEN "wait" ELSE IF phase = "ack" THEN "ahead" ELSE "finish"
        /\ UNCHANGED <<buf, pos, got, nextBuffer, cur, ahead, phase, ack, value, result,
                       tstate, tedge, said, took>>
    BY <1>3, Zenon DEF Start, Listens, target
  <2>2. at' \in During /\ at \in Before /\ at # "ready" /\ at' # "ready"
    BY <2>1 DEF During, Before
  <2>3. /\ p.count \in Nat /\ Lead(p) \in Nat /\ Words(p) \in Nat
    <3>1. p.count \in Nat
      BY <1>0 DEF BuffersFit, Fits, PhaseRecords, CpuTypes
    <3>2. Lead(p) \in Nat
      BY Lengths DEF Lead
    <3> QED
      BY <3>1, <3>2 DEF Words
  <2>4. pos = 0 /\ got = <<>> /\ want = 0
    BY <1>0, <2>1 DEF PosInv, During
  <2>5. Made = 0 /\ Made' = 0
    BY <2>1, <2>2, <2>3, <2>4 DEF Made, After
  <2>6. PlaceInv'
    <3>1. Listens(p) => phase \in TargetPhases
      <4>1. /\ p.turn = IF phase \in TargetPhases \union {"offTarget"} THEN "target" ELSE "host"
            /\ phase = "offTarget" => p.count = Clocks
        BY <1>0, <2>1 DEF BufInv
      <4>2. phase = "offTarget" => Clocks = 0
        BY DEF Clocks, TargetCount
      <4> QED
        BY <4>1, <4>2 DEF Listens
    <3> QED
      BY <1>0, <1>1, <2>1, <2>2, <3>1 DEF PlaceInv
  <2>7. BufInv'
    <3>1. Clocks' = Clocks
      BY <1>1, <2>1, Zenon DEF Clocks, TargetCount
    <3> QED
      BY <1>0, <2>1, <2>2, <3>1 DEF BufInv, During
  <2>8. PosInv'
    BY <2>1, <2>2, <2>3, <2>4 DEF PosInv
  <2>9. EdgeInv'
    BY <1>0, <1>1, <2>1, <2>2, <2>5, SameEdges
  <2>10. AckInv'
    BY <1>0, <1>1, <2>1, <2>2 DEF AckInv
  <2>11. TurnInv'
    BY <1>0, <1>1, <2>1, <2>2 DEF TurnInv, After
  <2>12. SampleInv' /\ TookInv'
    BY <1>0, <1>1, <2>1, <2>2, <2>4, <2>5 DEF SampleInv, Samples, TookInv
  <2>13. ExactInv'
    <3>1. DataDone' => DataDone
      BY <2>1, <2>2 DEF DataDone, After
    <3>2. Verdict' = Verdict /\ DataAt' = DataAt
      BY <1>1, <2>1, <2>2 DEF Verdict, DataAt, AckAt
    <3> QED
      BY <1>0, <1>1, <2>1, <3>1, <3>2, Zenon DEF ExactInv
  <2> QED
    BY Zenon, <2>6, <2>7, <2>8, <2>9, <2>10, <2>11, <2>12, <2>13 DEF Second
<1> QED
  BY <1>2, <1>3

\* The samples the CPU takes its answer or its data from are the target's.
LEMMA SamplesAre ==
  ASSUME IInv, Second, at = "finish", RxEof, said # "none", phase \in {"ack", "rdata"},
         NEW f \in Nat, NEW n \in Nat, f + n <= want,
         \A k \in 1..n : Driven((Base + f) + (k - 1))
  PROVE  SubSeq(got, f + 1, f + n) = [k \in 1..n |-> (Base + f) + (k - 1)]
<1>0. TargetTypes /\ DmaTypes /\ SampleInv
  BY Zenon, Parts DEF Second
<1> DEFINE b == Base
           s == SubSeq(got, f + 1, f + n)
           r == [k \in 1..n |-> (b + f) + (k - 1)]
<1>1. got \in Seq(Nat) /\ Len(got) = want /\ want \in Nat
  BY <1>0 DEF DmaTypes, RxEof
<1>2. Samples(got, b)
  BY <1>0 DEF SampleInv
<1>3. b \in Nat
  BY <1>0, Configured, Lengths DEF Base, DataAt, AckAt
<1> HIDE DEF b
<1>4. \A k \in 1..n : got[f + k] = (b + f) + (k - 1)
  <2> TAKE k \in 1..n
  <2>1. f + k \in 1..Len(got)
    BY <1>1
  <2>2. b + (f + k) - 1 = (b + f) + (k - 1)
    BY <1>3
  <2>3. Driven(b + (f + k) - 1)
    BY <2>2 DEF b
  <2> QED
    BY <1>2, <2>1, <2>2, <2>3 DEF Samples
<1>5. s \in Seq(Nat) /\ Len(s) = n /\ \A k \in 1..n : s[k] = got[f + k]
  <2>1. \A i \in (f + 1)..(f + n) : got[i] \in Nat
    BY <1>1
  <2>2. f + 1 \in Int /\ f + n \in Int /\ (f + n) - (f + 1) + 1 = n
    OBVIOUS
  <2>3. /\ s \in Seq(Nat)
        /\ Len(s) = IF f + 1 <= f + n THEN (f + n) - (f + 1) + 1 ELSE 0
        /\ \A i \in 1..((f + n) - (f + 1) + 1) : s[i] = got[f + 1 + i - 1]
    BY <2>1, <2>2, SubSeqProperties
  <2>4. \A i \in 1..n : f + 1 + i - 1 = f + i
    OBVIOUS
  <2>5. Len(s) = n /\ \A i \in 1..n : s[i] = got[f + 1 + i - 1]
    <3> HIDE DEF s
    <3>1. f + 1 <= f + n <=> n # 0
      OBVIOUS
    <3> QED
      BY <2>2, <2>3, <3>1
  <2> QED
    BY <2>3, <2>4, <2>5
<1>6. r \in Seq(Nat) /\ Len(r) = n /\ \A k \in 1..n : r[k] = (b + f) + (k - 1)
  BY <1>3
<1> HIDE DEF s, r
<1>7. \A k \in 1..n : s[k] = r[k]
  BY <1>4, <1>5, <1>6
<1>8. s = r
  BY <1>5, <1>6, <1>7, SeqEqual
<1> QED
  BY <1>8 DEF s, r, b

\* A phase that listened is over.
LEMMA FinishSecond == IInv /\ Second /\ Finish => Second'
<1> SUFFICES ASSUME IInv, Second, Finish PROVE Second'
  OBVIOUS
<1>0. /\ TargetTypes /\ PinTypes /\ DmaTypes /\ CpuTypes
      /\ BuffersFit /\ LanesInv /\ StepPhase /\ Prepared
      /\ PlaceInv /\ BufInv /\ PosInv /\ EdgeInv /\ AckInv /\ TurnInv
      /\ SampleInv /\ TookInv /\ ExactInv
  BY Zenon, Parts DEF Second
<1>1. /\ at = "finish" /\ TxEof /\ RxEof /\ ~playing /\ ~playing'
      /\ UNCHANGED <<noe, dir, clkNoe, conf, rnw>>
  BY Zenon DEF Finish, TxEof, pins
<1>2. CASE Fail
  BY <1>1, <1>2, FailSecond
<1>3. CASE ~Fail
  <2>1. /\ at' = "next" /\ Over
        /\ ack' \in CASE phase = "ack"   -> AckOf(SubSeq(got, conf.trn + 1, conf.trn + 3))
                      [] phase = "rdata" -> {"OK", "ERROR"}
                      [] OTHER           -> {ack}
        /\ value' = IF phase = "rdata" THEN SubSeq(got, 1, DataBits) ELSE value
        /\ UNCHANGED <<nextBuffer, cur, ahead, phase, result, tstate, tedge, said, took>>
    BY <1>3, Zenon DEF Finish, target
  <2>2. at \in During /\ at' \in After /\ at # "ready" /\ at' # "ready" /\ phase \in TargetPhases
    BY <1>0, <1>1, <2>1 DEF During, After, PlaceInv
  <2>3. pos' = 0 /\ got' = <<>> /\ want' = 0 /\ buf'[1 - cur] = buf[1 - cur]
    BY <1>0, <2>1, OverFits
  <2>4. PlaceInv'
    BY <1>0, <1>1, <2>1, <2>2 DEF PlaceInv
  <2>5. BufInv'
    <3>1. phase = "ack" => ahead = 1 - cur /\ buf[ahead] =
              IF rnw THEN TargetPhase("rdata", DataBits + conf.trn)
                     ELSE HostPhase("wdata", DataBits, TRUE, FALSE)
      BY <1>0, <1>1 DEF BufInv, Prepared
    <3>2. phase = "ack" => buf'[ahead'] = buf[ahead]
      BY <2>1, <2>3, <3>1
    <3> QED
      BY <1>1, <2>1, <3>1, <3>2 DEF BufInv, During
  <2>6. PosInv'
    BY <1>1, <2>1, <2>2, <2>3 DEF PosInv, During
  <2>7. EdgeInv'
    <3>1. CASE phase \in Counted
      <4>1. Made = Clocks
        BY <1>1, <2>2, <3>1, Played
      <4>2. Made' = Clocks' /\ Clocks' = Clocks
        BY <1>1, <2>1, <2>2, Zenon DEF Made, Clocks, TargetCount, During
      <4> QED
        BY <1>0, <1>1, <2>1, <2>2, <4>1, <4>2, SameEdges
    <3>2. CASE phase \notin Counted
      BY <1>0, <2>1, <2>2, <3>2 DEF EdgeInv, Counted, Heard, TargetPhases
    <3> QED
      BY <3>1, <3>2
  <2>8. AckInv'
    <3>1. phase = "ack" /\ said # "none" => ack' \in {said, "bad"}
      <4> SUFFICES ASSUME phase = "ack", said # "none" PROVE ack' \in {said, "bad"}
        OBVIOUS
      <4> DEFINE t == conf.trn
      <4>1. t \in Nat /\ Base = 8 /\ AckAt = 8 + t /\ DataAt = (8 + t) + 3
        BY <1>0, Configured DEF Base, AckAt, DataAt
      <4>2. t + 3 <= want
        <5>2. buf[cur].turn = "target" /\ buf[cur].count = t + 3 + (IF rnw THEN 0 ELSE t)
          <6>1. Clocks = t + 3 + (IF rnw THEN 0 ELSE t)
            BY DEF Clocks, TargetCount
          <6> QED
            BY <1>0, <2>2, <6>1 DEF BufInv, During
        <5>3. Listens(buf[cur])
          BY <4>1, <5>2 DEF Listens
        <5>4. want = buf[cur].count
          BY <1>0, <2>2, <5>3 DEF PosInv
        <5> QED
          BY <4>1, <5>2, <5>4
      <4>3. \A k \in 1..3 : Driven((Base + t) + (k - 1))
        BY <1>0, <4>1, Lengths DEF Driven
      <4>4. SubSeq(got, t + 1, t + 3) = [k \in 1..3 |-> (Base + t) + (k - 1)]
        <5> HIDE DEF t
        <5>1. 3 \in Nat
          OBVIOUS
        <5> QED
          BY <1>1, <4>1, <4>2, <4>3, <5>1, SamplesAre
      <4>5. [k \in 1..3 |-> (Base + t) + (k - 1)] = [k \in 1..3 |-> AckAt + k - 1]
        BY <4>1
      <4>6. AckOf(SubSeq(got, t + 1, t + 3)) = {said, "bad"}
        BY <4>4, <4>5 DEF AckOf
      <4> QED
        BY <2>1, <4>6
    <3> QED
      BY <1>0, <1>1, <2>1, <2>2, <3>1 DEF AckInv
  <2>9. TurnInv'
    BY <1>0, <1>1, <2>1, <2>2 DEF TurnInv, TargetPhases
  <2>10. SampleInv' /\ TookInv'
    <3>1. phase \notin {"request", "wdata"}
      BY <2>2 DEF TargetPhases
    <3> QED
      BY <1>0, <2>1, <2>2, <2>3, <3>1 DEF SampleInv, Samples, TookInv
  <2>11. ExactInv'
    <3>1. CASE phase = "rdata" /\ said # "none"
      <4>1. said = "OK" /\ rnw
        BY <1>0, <1>1, <3>1 DEF AckInv
      <4>2. Base = DataAt /\ DataAt \in Nat /\ AckAt <= DataAt /\ DataBits <= want /\ DataBits \in Nat
        BY <1>0, <1>1, <3>1, Configured, Lengths DEF Base, AckAt, DataAt, Prepared
      <4>3. \A k \in 1..DataBits : Driven((Base + 0) + (k - 1))
        <5> DEFINE d == Base
                   a == AckAt
        <5>1. a \in Nat /\ a <= d /\ d \in Nat /\ d = DataAt
          BY <1>0, <4>2, Configured DEF AckAt
        <5> SUFFICES ASSUME NEW k \in 1..DataBits PROVE Driven((d + 0) + (k - 1))
          OBVIOUS
        <5>2. Driven((d + 0) + (k - 1)) <=> a <= (d + 0) + (k - 1) /\ (d + 0) + (k - 1) < d + DataBits
          BY <4>1, <5>1 DEF Driven
        <5> HIDE DEF d, a
        <5> QED
          BY <4>2, <5>1, <5>2
      <4>4. SubSeq(got, 0 + 1, 0 + DataBits) = [k \in 1..DataBits |-> (Base + 0) + (k - 1)]
        <5>1. 0 \in Nat /\ 0 + DataBits <= want
          BY <4>2
        <5> QED
          BY <1>1, <3>1, <4>2, <4>3, <5>1, SamplesAre
      <4>5. SubSeq(got, 1, DataBits) = [k \in 1..DataBits |-> DataAt + k - 1]
        <5>1. \A k \in 1..DataBits : (Base + 0) + (k - 1) = DataAt + k - 1
          BY <4>2
        <5>2. 0 + 1 = 1 /\ 0 + DataBits = DataBits
          BY <4>2
        <5> QED
          BY <4>4, <5>1, <5>2
      <4>6. DataAt' = DataAt
        BY <1>1 DEF DataAt, AckAt
      <4> QED
        BY <1>1, <2>1, <3>1, <4>1, <4>5, <4>6 DEF ExactInv
    <3>2. CASE ~(phase = "rdata" /\ said # "none")
      <4>1. phase \notin {"readBack", "idle", "park", "wdata"}
        BY <2>2 DEF TargetPhases
      <4> QED
        BY <2>1, <2>2, <3>2, <4>1 DEF ExactInv, DataDone
    <3> QED
      BY <3>1, <3>2
  <2> QED
    BY Zenon, <2>4, <2>5, <2>6, <2>7, <2>8, <2>9, <2>10, <2>11 DEF Second
<1> QED
  BY <1>2, <1>3

-----------------------------------------------------------------------------
(***************************************************************************)
(* The DMA plays a word.                                                   *)
(***************************************************************************)
\* A word after the lead of a phase has one of its bits, and a clock.
Clocked == pos + 1 > Lead(buf[cur]) /\ buf[cur].count > 0

\* What every word does, whatever the phase,
LEMMA WordCounts ==
  ASSUME IInv, Second, Play
  PROVE  /\ at \in During /\ at # "ready" /\ UNCHANGED <<clkNoe, buf, playing, idleWord, want, conf, rnw>>
         /\ UNCHANGED <<nextBuffer, cur, ahead, at, phase, left, ack, value, result>>
         /\ playing /\ pos' = pos + 1 /\ pos' \in 0..Words(buf[cur])
         /\ noe' = Word(buf[cur], pos + 1).noe /\ dir' = (buf[cur].turn = "host")
         /\ ~Clocked => UNCHANGED target /\ got' = got
         /\ ~Clocked /\ buf[cur].count > 0 => Made' = Made
         /\ Clocked => Made \in Nat /\ Made < buf[cur].count /\ Made' = Made + 1
         /\ Len(got') = IF want' = 0 \/ pos' <= Lead(buf'[cur']) THEN 0 ELSE pos' - Lead(buf'[cur'])
         /\ Clocked /\ Listens(buf[cur]) => got' = Append(got, IF clkNoe THEN Undriven ELSE Line)
         /\ Clocked /\ Listens(buf[cur]) => Len(got) = Made
<1>0. /\ TargetTypes /\ PinTypes /\ DmaTypes /\ CpuTypes /\ BuffersFit /\ LanesInv /\ PosInv
  BY Zenon, Parts DEF Second
<1> DEFINE p == buf[cur]
           l == Lead(p)
           c == p.count
<1>1. /\ UNCHANGED <<clkNoe, buf, playing, idleWord, want, conf, rnw>>
      /\ UNCHANGED <<nextBuffer, cur, ahead, at, phase, left, ack, value, result>>
      /\ playing /\ pos < Words(p) /\ pos' = pos + 1
  BY DEF Play, cpu
<1>2. noe' = Word(p, pos + 1).noe /\ dir' = (p.turn = "host")
  BY DEF Play, Shows, Word
<1>3. at \in During /\ at \notin After /\ at # "ready"
  BY <1>0, <1>1 DEF LanesInv, During, After
<1>4. c \in Nat /\ l \in Nat /\ Words(p) \in Nat /\ Words(p) = (IF l + c = 0 THEN 1 ELSE l + c) /\ pos \in Nat
  <2>1. c \in Nat
    BY <1>0 DEF BuffersFit, Fits, PhaseRecords, CpuTypes
  <2>2. l \in Nat
    BY Lengths DEF Lead
  <2>3. Words(p) = (IF l + c = 0 THEN 1 ELSE l + c)
    BY DEF Words
  <2> HIDE DEF l, c
  <2> QED
    BY <1>0, <2>1, <2>2, <2>3 DEF DmaTypes
<1>5. /\ Made = IF pos <= l THEN 0 ELSE pos - l
      /\ Made' = IF pos' <= l THEN 0 ELSE pos' - l
  <2>1. Lead(buf[cur])' = l
    BY <1>1
  <2> QED
    BY <1>1, <1>3, <2>1 DEF Made
<1>6. Word(p, pos + 1).clk <=> Clocked
  <2>1. Word(p, pos + 1).clk = (pos + 1 > l /\ c > 0)
    BY DEF Word
  <2> QED
    BY <2>1 DEF Clocked
<1>7. Clocked <=> pos + 1 > l /\ c > 0
  BY DEF Clocked
<1>8. /\ want = IF Listens(p) THEN c ELSE 0
      /\ Len(got) = IF want = 0 \/ pos <= l THEN 0 ELSE pos - l
  BY <1>0, <1>3 DEF PosInv
<1>9. got' = IF Clocked /\ want > Len(got) THEN Append(got, IF clkNoe THEN Undriven ELSE Line) ELSE got
  BY <1>6, Zenon DEF Play
<1>10. ~Clocked => UNCHANGED target
  BY <1>6, Zenon DEF Play
<1>11. pos' \in 0..Words(p)
  BY <1>1, <1>4
<1> DEFINE M == Made
           L == Listens(p)
<1>12. L => c > 0
  BY DEF Listens
<1>13. Len(got) \in Nat /\ \A x : Len(Append(got, x)) = Len(got) + 1
  BY <1>0 DEF DmaTypes
<1> HIDE DEF l, c, p, M, L
<1>14. ~Clocked /\ c > 0 => M' = M
  BY <1>1, <1>4, <1>5, <1>7 DEF M
<1>15. Clocked => M \in Nat /\ M < c /\ M' = M + 1
  BY <1>1, <1>4, <1>5, <1>7 DEF M
<1>16. Clocked /\ L => want > Len(got) /\ Len(got) = M
  BY <1>1, <1>4, <1>5, <1>7, <1>8, <1>12 DEF M, L
<1>17. Len(got') = IF want = 0 \/ pos' <= l THEN 0 ELSE pos' - l
  <2>1. CASE Clocked /\ L
    BY <1>1, <1>4, <1>7, <1>8, <1>9, <1>12, <1>13, <1>16, <2>1 DEF L
  <2>2. CASE Clocked /\ ~L
    BY <1>8, <1>9, <2>2 DEF L
  <2>3. CASE ~Clocked
    <3>1. got' = got
      BY <1>9, <2>3
    <3>2. CASE L
      BY <1>1, <1>4, <1>7, <1>8, <1>12, <2>3, <3>1, <3>2 DEF L
    <3>3. CASE ~L
      BY <1>8, <3>1, <3>3 DEF L
    <3> QED
      BY <3>2, <3>3
  <2> QED
    BY <2>1, <2>2, <2>3
<1>18. Len(got') = IF want' = 0 \/ pos' <= Lead(buf'[cur']) THEN 0 ELSE pos' - Lead(buf'[cur'])
  BY <1>1, <1>17 DEF l, p
<1>19. Clocked /\ L => got' = Append(got, IF clkNoe THEN Undriven ELSE Line)
  BY <1>9, <1>16
<1>20. ~Clocked => got' = got
  BY <1>9
<1> QED
  BY <1>1, <1>2, <1>3, <1>10, <1>11, <1>14, <1>15, <1>16, <1>18, <1>19, <1>20, Zenon DEF
     p, c, M, L

\* and a word with a clock to the target, in a transfer: it is sent a bit of the phase,
\* or listened to.
LEMMA WordEdges ==
  ASSUME IInv, Second, Play, Clocked, phase \in Transfers
  PROVE  /\ phase \notin TargetPhases => TargetEdge(TRUE, Bit(buf[cur], Made + 1))
         /\ phase \in TargetPhases => TargetEdge(FALSE, Bit(buf[cur], Made + 1))
         /\ phase \in TargetPhases => Listens(buf[cur])
         /\ buf[cur].what = phase /\ buf[cur].count > 0
         /\ phase # "idle" => buf[cur].count = Clocks
         /\ ~clkNoe
<1>0. DmaTypes /\ CpuTypes /\ PlaceInv /\ BufInv /\ BuffersFit
  BY Zenon, Parts DEF Second
<1> DEFINE p == buf[cur]
           l == Lead(p)
           w == Word(p, pos + 1)
<1>1. at \in During /\ at # "ready"
  BY WordCounts
<1>2. ~clkNoe /\ p.what = phase /\ p.count > 0
  BY <1>0, <1>1 DEF PlaceInv, BufInv, Clocked
<1>3. p.turn = IF phase \in TargetPhases THEN "target" ELSE "host"
  BY <1>0, <1>1 DEF BufInv, Transfers, Counted, Heard
<1>4. phase # "idle" => p.count = Clocks
  BY <1>0, <1>1 DEF BufInv, Transfers, Counted, Heard
<1>5. pos \in Nat /\ l \in Nat /\ pos + 1 > l /\ Made = (IF pos <= l THEN 0 ELSE pos - l)
  <2>1. l \in Nat
    BY Lengths DEF Lead
  <2>2. at \notin After
    BY <1>1 DEF During, After
  <2>3. Made = IF pos <= l THEN 0 ELSE pos - l
    BY <1>1, <2>2 DEF Made
  <2>4. pos \in Nat
    BY <1>0 DEF DmaTypes
  <2>5. pos + 1 > l
    BY DEF Clocked
  <2> QED
    BY <2>1, <2>3, <2>4, <2>5
<1>6. w.out = Bit(p, Made + 1)
  <2>1. w.out = Bit(p, (pos + 1) - l)
    BY <1>5 DEF Word
  <2> DEFINE M == Made
  <2>2. (pos + 1) - l = M + 1
    <3> HIDE DEF l, M
    <3> QED
      BY <1>5 DEF M
  <2> QED
    BY <2>1, <2>2
<1>7. ~w.noe
  <2>1. w.noe = (pos + 1 = 1 /\ (l > 0 \/ p.count = 0))
    BY DEF Word
  <2> HIDE DEF l, w
  <2>2. ~(pos + 1 = 1 /\ (l > 0 \/ p.count = 0))
    BY <1>2, <1>5
  <2> QED
    BY <2>1, <2>2, Zenon
<1>8. w.dir = (p.turn = "host") /\ w.clk
  BY <1>2, <1>5 DEF Word
<1>9. TargetEdge(~w.noe /\ w.dir, w.out)
  <2>1. p.what \notin {"swj", "dout"}
    BY <1>2 DEF Transfers, Counted, Heard
  <2> HIDE DEF w
  <2> QED
    BY <1>2, <1>8, <2>1, Zenon DEF Play, w
<1> HIDE DEF w
<1>10. (~w.noe /\ w.dir) = (phase \notin TargetPhases)
  BY <1>3, <1>7, <1>8
<1>11. CASE phase \in TargetPhases
  <2>1. (~w.noe /\ w.dir) = FALSE
    BY <1>10, <1>11
  <2>2. TargetEdge(FALSE, Bit(p, Made + 1))
    BY <1>6, <1>9, <2>1, Zenon
  <2> QED
    BY <1>2, <1>3, <1>4, <1>11, <2>2 DEF Listens
<1>12. CASE phase \notin TargetPhases
  <2>1. (~w.noe /\ w.dir) = TRUE
    BY <1>10, <1>12
  <2>2. TargetEdge(TRUE, Bit(p, Made + 1))
    BY <1>6, <1>9, <2>1, Zenon
  <2> QED
    BY <1>2, <1>3, <1>4, <1>12, <2>2
<1> QED
  BY <1>11, <1>12

\* After the request the target counts the clocks of the host, or is lost.
LEMMA BurstEdge ==
  ASSUME IInv, Second, Play, Clocked, phase \in Counted
  PROVE  /\ said' = said /\ Base \in Nat /\ End \in Nat /\ Made \in Nat /\ Made' = Made + 1
         /\ \/ tstate = "lost" /\ UNCHANGED target
            \/ /\ phase = "backoff" /\ tstate = "idle" /\ tstate' = "lost"
               /\ UNCHANGED took
            \/ /\ said \in Acks /\ tstate = said /\ tedge = Base + Made
               /\ tedge + 1 <= End /\ Transfer = End
               /\ IF tedge + 1 = End THEN tstate' = "idle" /\ tedge' = 0
                                     ELSE tstate' = tstate /\ tedge' = tedge + 1
               /\ took' = IF /\ tstate = "OK" /\ ~rnw /\ tedge >= DataAt + conf.trn
                             /\ phase = "wdata" /\ Data(Made + 1)
                                  = Data(tedge - (DataAt + conf.trn) + 1)
                          THEN took + 1 ELSE took
<1>0. TargetTypes /\ BufInv /\ EdgeInv /\ AckInv
  BY Zenon, Parts DEF Second
<1>1. /\ at # "ready" /\ Made \in Nat /\ Made < buf[cur].count /\ Made' = Made + 1
  BY WordCounts
<1>a. phase \in Transfers /\ phase # "idle" /\ phase # "request"
  BY DEF Transfers, Counted, Heard
<1>2. /\ buf[cur].what = phase /\ buf[cur].count = Clocks
      /\ phase \in {"wdata", "dummy"} => TargetEdge(TRUE, Bit(buf[cur], Made + 1))
      /\ phase \in Heard => TargetEdge(FALSE, Bit(buf[cur], Made + 1))
  BY <1>a, WordEdges DEF TargetPhases, Heard
<1> DEFINE t == conf.trn
           E == End
           b == Base
           M == Made
           label == Bit(buf[cur], M + 1)
<1>4. /\ t \in Nat /\ t >= 1 /\ DataBits \in Nat /\ DataBits >= 1 /\ DataAt = t + 11
      /\ b \in Nat /\ E \in Nat
      /\ E = DataAt + t + (IF said = "OK" \/ conf.dataPhase THEN DataBits ELSE 0)
  BY <1>0, Configured, Lengths DEF Base, DataAt, AckAt, End
<1>6. \/ tstate = "lost" /\ (said = "none" \/ phase = "backoff")
      \/ /\ said \in Acks
         /\ \/ tstate = said /\ tedge = b + M /\ b + M < E
            \/ tstate = "idle" /\ b + M = E
  <2>1. Follows \/ (phase = "backoff" /\ tstate = "lost")
    BY <1>0, <1>1, Zenon DEF EdgeInv
  <2> QED
    BY <2>1, Zenon DEF Follows
<1>7. said \in Acks /\ b + M = E => phase = "backoff"
  <2>1. phase = "ack" => b = 8 /\ M < t + 3 + (IF rnw THEN 0 ELSE t)
    BY <1>1, <1>2 DEF Base, Clocks, TargetCount
  <2>2. phase \in {"wdata", "dummy"} => b = DataAt + t /\ M < DataBits
    BY <1>1, <1>2 DEF Base, Clocks
  <2>3. phase \in {"rdata", "skip"} => b = DataAt /\ M < DataBits + t
    BY <1>1, <1>2 DEF Base, Clocks, TargetCount
  <2>4. phase = "trnEnd" => b = DataAt /\ M < t
    BY <1>1, <1>2 DEF Base, Clocks, TargetCount
  <2>5. phase \in {"rdata", "wdata", "skip", "dummy"} /\ said \in Acks
          => said = "OK" \/ conf.dataPhase
    BY <1>0, <1>1 DEF AckInv, Acks
  <2> HIDE DEF b, E, t, M
  <2>6. M \in Nat
    BY <1>1 DEF M
  <2> QED
    BY <1>4, <2>1, <2>2, <2>3, <2>4, <2>5, <2>6 DEF Counted, Heard
<1> HIDE DEF b, E, t, M, label
<1>8. CASE tstate = "lost"
  <2>1. UNCHANGED target
    BY <1>2, <1>8 DEF TargetEdge, Acks, Counted
  <2> QED
    BY <1>1, <1>4, <1>8, <2>1 DEF target, b, E
<1>9. CASE tstate = "idle"
  <2>1. phase = "backoff"
    BY <1>6, <1>7, <1>9 DEF Acks
  <2>2. Counts("lost", 0)
    BY <1>2, <1>9, <2>1 DEF TargetEdge, Acks, Heard
  <2> QED
    BY <1>1, <1>4, <1>9, <2>1, <2>2 DEF Counts, b, E
<1>10. CASE tstate \in Acks
  <2>1. said \in Acks /\ tstate = said /\ tedge = b + M /\ tedge < E
    BY <1>6, <1>10 DEF Acks
  <2>2. Transfer = E
    BY <2>1 DEF Transfer, HasData, E, End
  <2>3. \E h \in BOOLEAN :
        /\ h <=> phase \in {"wdata", "dummy"}
        /\ IF tedge + 1 = Transfer THEN tstate' = "idle" /\ tedge' = 0
                                   ELSE tstate' = tstate /\ tedge' = tedge + 1
        /\ took' = IF /\ tstate = "OK" /\ ~rnw /\ tedge >= DataAt + conf.trn
                      /\ h /\ label = Data(tedge - (DataAt + conf.trn) + 1)
                   THEN took + 1 ELSE took
        /\ UNCHANGED said
    <3>1. CASE phase \in Heard
      <4>1. TargetEdge(FALSE, label)
        BY <1>2, <3>1, Zenon DEF label, M
      <4>2. phase \notin {"wdata", "dummy"}
        BY <3>1 DEF Heard
      <4> QED
        BY <1>10, <4>1, <4>2 DEF TargetEdge, Acks
    <3>2. CASE phase \in {"wdata", "dummy"}
      <4>1. TargetEdge(TRUE, label)
        BY <1>2, <3>2, Zenon DEF label, M
      <4> QED
        BY <1>10, <3>2, <4>1 DEF TargetEdge, Acks
    <3> QED
      BY <3>1, <3>2 DEF Counted
  <2>4. tedge + 1 <= E /\ M \in Nat
    BY <1>1, <1>4, <2>1 DEF M
  <2>6. /\ phase = "wdata" => label = Data(M + 1)
        /\ phase = "dummy" => label # Data(tedge - (DataAt + conf.trn) + 1)
    <3>1. phase = "dummy" => label = 0
      BY <1>2 DEF label, Bit
    <3>2. tedge >= DataAt + t => Data(tedge - (DataAt + t) + 1) # 0
      BY <1>4, <2>1, <2>4 DEF Data
    <3>3. phase = "wdata" => label = Data(M + 1)
      BY <1>2 DEF label, Bit
    <3>4. phase = "dummy" => tedge >= DataAt + t
      BY <1>4, <2>1, <2>4 DEF b, Base, t
    <3> QED
      BY <3>1, <3>2, <3>3, <3>4 DEF t
  <2>7. took' = IF /\ tstate = "OK" /\ ~rnw /\ tedge >= DataAt + conf.trn
                   /\ phase = "wdata" /\ Data(M + 1) = Data(tedge - (DataAt + conf.trn) + 1)
                THEN took + 1 ELSE took
    BY <2>3, <2>6, Zenon
  <2> QED
    BY <1>1, <1>4, <2>1, <2>2, <2>3, <2>4, <2>7, Zenon DEF b, E, M
<1> QED
  BY <1>6, <1>8, <1>9, <1>10

\* The request, bit by bit.
LEMMA RequestEdge ==
  ASSUME IInv, Second, Play, Clocked, phase = "request"
  PROVE  /\ Asked' /\ took' = took
         /\ tstate' = "lost" => tstate \in {"request", "lost"}
<1>0. TargetTypes /\ EdgeInv
  BY Zenon, Parts DEF Second
<1>1. /\ at # "ready" /\ Made \in Nat /\ Made < 8 /\ Made' = Made + 1
      /\ TargetEdge(TRUE, Bit(buf[cur], Made + 1)) /\ buf[cur].what = "request"
  <2>1. phase \in Transfers /\ phase # "idle" /\ phase \notin TargetPhases /\ Clocks = 8
    BY DEF Transfers, Clocks, TargetPhases
  <2> QED
    BY <2>1, WordCounts, WordEdges
<1>2. Asked
  BY <1>0, <1>1 DEF EdgeInv
<1>3. Made = 0 => Bit(buf[cur], Made + 1) = 1
  BY <1>1 DEF Bit
<1> DEFINE M == Made
           label == Bit(buf[cur], Made + 1)
<1>4. /\ M \in Nat /\ M < 8 /\ M' = M + 1 /\ TargetEdge(TRUE, label) /\ (M = 0 => label = 1)
  BY <1>1, <1>3
<1>5. /\ Asked <=> \/ said = "none" /\ \/ tstate = "lost"
                                       \/ tstate = "idle" /\ M = 0
                                       \/ tstate = "request" /\ tedge = M /\ M \in 1..7
                   \/ said \in Acks /\ tstate = said /\ tedge = 8 /\ M = 8
      /\ Asked' <=> \/ said' = "none" /\ \/ tstate' = "lost"
                                         \/ tstate' = "idle" /\ M' = 0
                                         \/ tstate' = "request" /\ tedge' = M' /\ M' \in 1..7
                    \/ said' \in Acks /\ tstate' = said' /\ tedge' = 8 /\ M' = 8
  BY Zenon DEF Asked
<1> HIDE DEF M, label
<1>6. CASE tstate = "lost"
  <2>1. said = "none" /\ UNCHANGED <<tstate, said, took>>
    BY <1>2, <1>4, <1>5, <1>6 DEF TargetEdge, Acks, target
  <2> QED
    BY <1>5, <1>6, <2>1
<1>7. CASE tstate = "idle"
  <2>1. said = "none" /\ M = 0
    BY <1>2, <1>5, <1>7 DEF Acks
  <2>2. Counts("request", 1)
    BY <1>4, <1>7, <2>1 DEF TargetEdge, Acks
  <2>3. M' = 1
    BY <1>4, <2>1
  <2> QED
    BY <1>5, <2>1, <2>2, <2>3 DEF Counts
<1>8. CASE tstate = "request"
  <2>1. said = "none" /\ tedge = M /\ M \in 1..7
    BY <1>2, <1>5, <1>8 DEF Acks
  <2>2. CASE tedge < 7
    <3>1. Counts("request", tedge + 1)
      BY <1>4, <1>8, <2>1, <2>2 DEF TargetEdge, Acks
    <3>2. tedge' = M' /\ M' \in 1..7
      BY <1>4, <2>1, <2>2, <3>1 DEF Counts
    <3> QED
      BY <1>5, <1>8, <2>1, <3>1, <3>2 DEF Counts
  <2>3. CASE tedge = 7
    <3>1. M' = 8
      BY <1>4, <2>1, <2>3
    <3>2. /\ \/ \E s \in Acks : tstate' = s /\ said' = s /\ tedge' = 8
             \/ tstate' = "lost" /\ UNCHANGED said
          /\ UNCHANGED took
      BY <1>4, <1>8, <2>3 DEF TargetEdge, Acks
    <3> QED
      BY <1>5, <1>8, <2>1, <3>1, <3>2
  <2> QED
    BY <2>1, <2>2, <2>3
<1>9. tstate \notin Acks
  BY <1>2, <1>4, <1>5 DEF Acks
<1> QED
  BY <1>2, <1>5, <1>6, <1>7, <1>8, <1>9

\* The other phases leave the target idle or lost.
LEMMA QuietEdge ==
  ASSUME IInv, Second, Play, phase \notin {"request"} \union Counted
  PROVE  /\ tstate \in {"idle", "lost"} /\ tstate' \in {"idle", "lost"} /\ said' = said
         /\ took' = took /\ (tstate' = "lost" /\ tstate # "lost"
                                  => phase \in {"swj", "din", "dout"})
<1>0. DmaTypes /\ CpuTypes /\ BufInv /\ EdgeInv
  BY Zenon, Parts DEF Second
<1>1. at \in During /\ tstate \in {"idle", "lost"}
  BY <1>0, WordCounts DEF EdgeInv
<1>2. CASE ~Clocked
  BY <1>1, <1>2, WordCounts DEF target
<1>3. CASE Clocked
  <2>1. phase \in {"idle", "swj", "din", "dout"}
    <3>1. phase \notin {"idle", "swj", "dout"} => buf[cur].count = Clocks
      BY <1>0, <1>1 DEF BufInv
    <3>2. phase \notin {"idle", "swj", "dout", "din"} => Clocks = 0
      BY DEF Clocks, TargetCount, Counted, Heard
    <3> QED
      BY <1>3, <3>1, <3>2 DEF Clocked
  <2>2. CASE phase = "idle"
    <3>1. TargetEdge(TRUE, Bit(buf[cur], Made + 1)) /\ buf[cur].what = "idle"
      BY <1>3, <2>2, WordEdges DEF Transfers, TargetPhases
    <3>2. Bit(buf[cur], Made + 1) = 0
      BY <3>1 DEF Bit
    <3>3. UNCHANGED target
      BY <1>1, <3>1, <3>2 DEF TargetEdge, Acks
    <3> QED
      BY <1>1, <3>3 DEF target
  <2>3. CASE phase \in {"swj", "dout"}
    <3>1. buf[cur].what = phase
      BY <1>0, <1>1 DEF BufInv
    <3>2. \/ UNCHANGED target
          \/ \E r : SequenceEdge(r)
      BY <2>3, <3>1, Zenon DEF Play
    <3> QED
      BY <1>1, <2>3, <3>2 DEF SequenceEdge, target
  <2>4. CASE phase = "din"
    <3>1. buf[cur].what = "din" /\ buf[cur].turn = "target"
      BY <1>0, <1>1, <2>4 DEF BufInv, TargetPhases
    <3>2. ~Word(buf[cur], pos + 1).dir
      BY <3>1 DEF Word
    <3>3. UNCHANGED target \/ \E x : TargetEdge(FALSE, x)
      <4>1. (~Word(buf[cur], pos + 1).noe /\ Word(buf[cur], pos + 1).dir) = FALSE
        BY <3>2
      <4> QED
        BY <3>1, <4>1, Zenon DEF Play
    <3>4. UNCHANGED target \/ Counts("lost", 0)
      BY <1>1, <3>3 DEF TargetEdge, Acks
    <3> QED
      BY <1>1, <2>4, <3>4 DEF Counts, target
  <2> QED
    BY <2>1, <2>2, <2>3, <2>4
<1> QED
  BY <1>2, <1>3

\* The sample a listening host stores where the target drives is named by its edge.
LEMMA SampleEdge ==
  ASSUME IInv, Second, Play, Clocked, phase \in {"ack", "rdata"}, said # "none",
         Driven(Base + Made)
  PROVE  got' = Append(got, Base + Made)
<1>0. /\ TargetTypes /\ EdgeInv
  BY Zenon, Parts DEF Second
<1>1. got' = Append(got, Line) /\ at # "ready"
  <2>1. Listens(buf[cur]) /\ ~clkNoe
    BY WordEdges DEF Transfers, Counted, Heard, TargetPhases
  <2> QED
    BY <2>1, WordCounts
<1> DEFINE b == Base
           E == End
           M == Made
           n == IF rnw /\ (said = "OK" \/ conf.dataPhase) THEN DataBits ELSE 0
<1>2. /\ b \in Nat /\ E \in Nat /\ M \in Nat
      /\ \/ tstate = "lost"
         \/ said \in Acks /\ tstate = said /\ tedge = b + M
  BY BurstEdge DEF Counted, Heard
<1>3. tstate # "lost"
  <2>1. Follows
    BY <1>0, <1>1 DEF EdgeInv, Counted, Heard
  <2> QED
    BY <2>1 DEF Follows, Acks
<1>4. AckAt <= b + M /\ b + M < DataAt + n
  BY DEF Driven
<1>5. (IF rnw /\ HasData THEN DataBits ELSE 0) = n
  BY <1>2, <1>3 DEF HasData
<1> HIDE DEF b, M, n
<1>6. TargetDrives
  BY <1>2, <1>3, <1>4, <1>5, Zenon DEF TargetDrives
<1> QED
  BY <1>1, <1>2, <1>3, <1>6 DEF Line, b, M

\* A word preserves the invariant.
LEMMA PlaySecond == IInv /\ Second /\ Play => Second'
<1> SUFFICES ASSUME IInv, Second, Play PROVE Second'
  OBVIOUS
<1>0. /\ TargetTypes /\ PinTypes /\ DmaTypes /\ CpuTypes
      /\ BuffersFit /\ LanesInv /\ StepPhase /\ Prepared
      /\ PlaceInv /\ BufInv /\ PosInv /\ EdgeInv /\ AckInv /\ TurnInv
      /\ SampleInv /\ TookInv /\ ExactInv
  BY Zenon, Parts DEF Second
<1>1. /\ at \in During /\ at # "ready"
      /\ UNCHANGED <<clkNoe, buf, playing, idleWord, want, conf, rnw>>
      /\ UNCHANGED <<nextBuffer, cur, ahead, at, phase, left, ack, value, result>>
      /\ playing /\ pos' = pos + 1 /\ pos' \in 0..Words(buf[cur])
      /\ dir' = (buf[cur].turn = "host")
  BY WordCounts
<1>2. at \notin After /\ at \notin Before
  BY <1>1 DEF During, After, Before
<1>3. phase # "request" => said' = said
  BY BurstEdge, QuietEdge, WordCounts DEF target
<1>4. DataAt' = DataAt /\ Base' = Base /\ (phase # "request" => End' = End)
  BY <1>1, <1>3, Zenon DEF End, Base, DataAt, AckAt
<1>5. phase \in {"request"} \union Counted => buf[cur].count > 0
  <2>1. phase \in {"request"} \union Counted => buf[cur].count = Clocks
    BY <1>0, <1>1 DEF BufInv, Counted, Heard
  <2>2. phase \in {"request"} \union Counted => Clocks > 0
    <3>1. conf.trn \in Nat /\ conf.trn >= 1 /\ DataBits \in Nat /\ DataBits >= 1
      BY <1>0, Configured, Lengths
    <3>2. CASE rnw
      BY <3>1, <3>2 DEF Clocks, TargetCount, Counted, Heard
    <3>3. CASE ~rnw
      BY <3>1, <3>3 DEF Clocks, TargetCount, Counted, Heard
    <3> QED
      BY <3>2, <3>3
  <2> QED
    BY <2>1, <2>2
<1>6. PlaceInv'
  BY <1>0, <1>1, Zenon DEF PlaceInv
<1>7. BufInv'
  <2>1. Clocks' = Clocks
    BY <1>1, Zenon DEF Clocks, TargetCount
  <2> QED
    BY <1>0, <1>1, <2>1, Zenon DEF BufInv
<1>8. PosInv'
  <2>1. Len(got') = IF want' = 0 \/ pos' <= Lead(buf'[cur']) THEN 0 ELSE pos' - Lead(buf'[cur'])
    BY WordCounts
  <2>2. /\ want = IF Listens(buf[cur]) THEN buf[cur].count ELSE 0
        /\ idleWord = Rest(buf[cur])
    BY <1>0, <1>1 DEF PosInv
  <2>3. /\ want' = IF Listens(buf'[cur']) THEN buf'[cur'].count ELSE 0
        /\ idleWord' = Rest(buf'[cur'])
    BY <1>1, <2>2, Zenon
  <2>4. pos' \in 0..Words(buf'[cur']) /\ at' \in During /\ playing'
    BY <1>1, Zenon
  <2> QED
    BY <2>1, <2>3, <2>4, Zenon DEF PosInv
<1>9. EdgeInv'
  <2>1. CASE phase \in {"request"} \union Counted /\ ~Clocked
    <3>1. Made' = Made /\ UNCHANGED target
      BY <1>5, <2>1, WordCounts
    <3> QED
      BY <1>0, <1>1, <3>1, SameEdges DEF target
  <2>2. CASE phase = "request" /\ Clocked
    BY <1>1, <2>2, RequestEdge DEF EdgeInv, Counted, Heard
  <2>3. CASE phase \in Counted /\ Clocked
    <3>1. phase # "request"
      BY <2>3 DEF Counted, Heard
    <3>2. Follows' \/ (phase = "backoff" /\ tstate' = "lost")
      <4> DEFINE E == End
                 b == Base
                 M == Made
      <4>1. /\ M \in Nat /\ M' = M + 1 /\ said' = said /\ b \in Nat /\ E \in Nat
            /\ \/ tstate = "lost" /\ UNCHANGED target
               \/ phase = "backoff" /\ tstate = "idle" /\ tstate' = "lost"
               \/ /\ said \in Acks /\ tstate = said /\ tedge = b + M /\ tedge + 1 <= E
                  /\ IF tedge + 1 = E THEN tstate' = "idle" /\ tedge' = 0
                                      ELSE tstate' = tstate /\ tedge' = tedge + 1
        BY <2>3, BurstEdge
      <4>2. b' = b /\ E' = E
        BY <1>4, <3>1
      <4>3. tstate = "lost" => said = "none" \/ phase = "backoff"
        <5>1. phase # "backoff" => Follows
          BY <1>0, <1>1, <2>3, Zenon DEF EdgeInv
        <5> QED
          BY <5>1 DEF Follows, Acks
      <4>4. Follows' <=>
              \/ tstate' = "lost" /\ said' = "none"
              \/ /\ said' \in Acks
                 /\ \/ tstate' = said' /\ tedge' = b' + M' /\ b' + M' < E'
                    \/ tstate' = "idle" /\ b' + M' = E'
        BY Zenon DEF Follows
      <4> HIDE DEF E, b, M
      <4>5. CASE tstate = "lost"
        BY <4>1, <4>3, <4>4, <4>5 DEF target, Acks
      <4>6. CASE tstate = said /\ said \in Acks
        <5>1. /\ tedge = M + b /\ tedge + 1 <= E
              /\ IF tedge + 1 = E THEN tstate' = "idle"
                                  ELSE tstate' = tstate /\ tedge' = tedge + 1
          BY <4>1, <4>6 DEF Acks
        <5>2. b' + M' = tedge + 1
          BY <4>1, <4>2, <5>1
        <5> QED
          BY <4>1, <4>2, <4>4, <4>6, <5>1, <5>2
      <4> QED
        BY <4>1, <4>5, <4>6
    <3> QED
      BY <1>1, <2>3, <3>1, <3>2, Zenon DEF EdgeInv
  <2>4. CASE phase \notin {"request"} \union Counted
    BY <1>1, <2>4, QuietEdge DEF EdgeInv, Counted, Heard
  <2> QED
    BY <2>1, <2>2, <2>3, <2>4
<1>10. AckInv'
  BY <1>0, <1>1, <1>2, <1>3 DEF AckInv, During
<1>11. TurnInv'
  <2>1. phase \in Heard => ~dir'
    BY <1>0, <1>1 DEF BufInv, Heard, TargetPhases
  <2> QED
    BY <1>1, <1>2, <2>1 DEF TurnInv
<1>12. SampleInv'
  <2>1. CASE phase \in {"ack", "rdata"} /\ said # "none"
    <3>1. said' = said /\ Base' = Base /\ \A k : Driven(k)' <=> Driven(k)
      BY <1>1, <1>3, <1>4, <2>1 DEF Driven, AckAt
    <3>2. Samples(got, Base)
      BY <1>0, <2>1 DEF SampleInv
    <3>3. CASE ~Clocked
      <4>1. got' = got
        BY <3>3, WordCounts
      <4> QED
        BY <1>1, <3>1, <3>2, <4>1 DEF SampleInv, Samples
    <3>4. CASE Clocked
      <4>1. Listens(buf[cur])
        BY <2>1, <3>4, WordEdges DEF Transfers, Counted, Heard, TargetPhases
      <4>2. got \in Seq(Nat) /\ Len(got) = Made /\ \E x \in Nat : got' = Append(got, x)
        <5>1. (IF clkNoe THEN Undriven ELSE Line) \in Nat
          BY <1>0 DEF Line, TargetTypes, Undriven
        <5> QED
          BY <1>0, <3>4, <4>1, <5>1, WordCounts DEF DmaTypes
      <4>3. PICK x \in Nat : got' = Append(got, x)
        BY <4>2
      <4>4. Base \in Nat /\ Made \in Nat
        BY <2>1, <3>4, BurstEdge DEF Counted, Heard
      <4>5. Driven(Base + Made) => x = Base + Made
        <5> SUFFICES ASSUME Driven(Base + Made) PROVE x = Base + Made
          OBVIOUS
        <5>1. got' = Append(got, Base + Made)
          BY <2>1, <3>4, SampleEdge
        <5> DEFINE y == Base + Made
        <5>2. y \in Nat
          BY <4>4
        <5> HIDE DEF y
        <5>3. /\ Append(got, x)[Len(Append(got, x))] = x /\ Len(Append(got, x)) = Len(got) + 1
              /\ Append(got, y)[Len(Append(got, y))] = y /\ Len(Append(got, y)) = Len(got) + 1
          BY <4>2, <5>2, AppendProperties
        <5>4. Append(got, x) = Append(got, y)
          BY <4>3, <5>1, Zenon DEF y
        <5>5. x = y
          BY <5>3, <5>4, Zenon
        <5> QED
          BY <5>5 DEF y
      <4> DEFINE b == Base
                 M == Made
      <4>6. Samples(got', b)
        <5> HIDE DEF b, M
        <5> SUFFICES ASSUME NEW k \in 1..Len(got'), Driven(b + k - 1)
                     PROVE  got'[k] = b + k - 1
          BY DEF Samples
        <5>1. Len(got') = M + 1
          BY <4>2, <4>3 DEF M
        <5>2. CASE k = M + 1
          <6>1. got'[k] = x
            BY <4>2, <4>3, <5>2 DEF M
          <6>2. b + k - 1 = b + M
            BY <4>4, <5>2 DEF b, M
          <6> QED
            BY <4>5, <6>1, <6>2 DEF b, M
        <5>3. CASE k # M + 1
          <6>1. k \in 1..Len(got)
            BY <4>2, <4>4, <5>1, <5>3 DEF M
          <6>2. got'[k] = got[k]
            BY <4>2, <4>3, <6>1
          <6> QED
            BY <3>2, <6>1, <6>2 DEF Samples, b
        <5> QED
          BY <5>2, <5>3
      <4>7. \A s, n : Samples(s, n) => \A k \in 1..Len(s) : Driven(n + k - 1)' => s[k] = n + k - 1
        BY <3>1 DEF Samples
      <4> QED
        BY <3>1, <4>6, <4>7 DEF SampleInv, Samples
    <3> QED
      BY <3>3, <3>4
  <2>2. CASE ~(phase \in {"ack", "rdata"} /\ said # "none")
    BY <1>1, <1>3, <2>2 DEF SampleInv
  <2> QED
    BY <2>1, <2>2
<1>13. TookInv'
  <2>1. CASE phase = "request"
    <3>1. took' = took
      BY <2>1, RequestEdge, WordCounts DEF target
    <3> QED
      BY <1>0, <1>1, <2>1, <3>1 DEF TookInv
  <2>2. CASE phase = "ack"
    <3>1. took' = took
      BY <2>2, BurstEdge, WordCounts DEF Counted, Heard, target
    <3> QED
      BY <1>0, <1>1, <2>2, <3>1 DEF TookInv
  <2>3. CASE phase = "wdata" /\ said # "none"
    <3>1. said = "OK" /\ ~rnw /\ took = Made
      BY <1>0, <1>1, <2>3 DEF AckInv, TookInv
    <3>2. CASE ~Clocked
      <4>1. Made' = Made /\ UNCHANGED target
        BY <1>5, <2>3, <3>2, WordCounts DEF Counted
      <4> QED
        BY <1>1, <2>3, <3>1, <4>1 DEF TookInv, target
    <3>3. CASE Clocked
      <4>1. tstate # "lost"
        <5>1. Follows
          BY <1>0, <1>1, <2>3 DEF EdgeInv, Counted
        <5> QED
          BY <2>3, <5>1 DEF Follows, Acks
      <4>2. /\ tstate = said /\ tedge = Base + Made
            /\ took' = IF /\ tstate = "OK" /\ ~rnw /\ tedge >= DataAt + conf.trn
                          /\ Data(Made + 1) = Data(tedge - (DataAt + conf.trn) + 1)
                       THEN took + 1 ELSE took
            /\ Made \in Nat /\ Made' = Made + 1
        BY <2>3, <3>3, <4>1, BurstEdge DEF Counted
      <4> DEFINE d == DataAt + conf.trn
                 M == Made
      <4>3. d \in Nat /\ tedge = d + M
        BY <1>0, <2>3, <4>2, Configured DEF DataAt, AckAt, Base
      <4> HIDE DEF d, M
      <4>4. M \in Nat
        BY <4>2 DEF M
      <4>5. tedge >= d /\ tedge - d + 1 = M + 1
        BY <4>3, <4>4
      <4>6. took' = took + 1
        BY <3>1, <4>2, <4>5, Zenon DEF d, M
      <4> QED
        BY <1>1, <1>3, <2>3, <3>1, <4>2, <4>6 DEF TookInv
    <3> QED
      BY <3>2, <3>3
  <2>4. CASE phase = "wdata" /\ said = "none"
    BY <1>1, <1>3, <2>4 DEF TookInv
  <2>5. CASE phase \notin {"request", "ack", "wdata"}
    BY <1>1, <2>5 DEF TookInv
  <2> QED
    BY <2>1, <2>2, <2>3, <2>4, <2>5
<1>14. ExactInv'
  <2>1. CASE phase \in {"idle", "readBack", "park"}
    <3>1. took' = took /\ said' = said /\ DataAt' = DataAt
      BY <1>4, <2>1, QuietEdge DEF Counted, Heard
    <3> QED
      BY <1>0, <1>1, <2>1, <3>1 DEF ExactInv, DataDone, Verdict
  <2>2. CASE phase \notin {"idle", "readBack", "park"}
    BY <1>1, <1>2, <2>2 DEF ExactInv, DataDone, During
  <2> QED
    BY <2>1, <2>2
<1> QED
  BY Zenon, <1>6, <1>7, <1>8, <1>9, <1>10, <1>11, <1>12, <1>13, <1>14 DEF Second
\* The last word has left, and the lanes show the idle word.
LEMMA PlayEndsSecond == IInv /\ Second /\ PlayEnds => Second'
<1> SUFFICES ASSUME IInv, Second, PlayEnds PROVE Second'
  OBVIOUS
<1>0. /\ TargetTypes /\ PinTypes /\ DmaTypes /\ CpuTypes
      /\ BuffersFit /\ LanesInv /\ StepPhase /\ Prepared
      /\ PlaceInv /\ BufInv /\ PosInv /\ EdgeInv /\ AckInv /\ TurnInv
      /\ SampleInv /\ TookInv /\ ExactInv
  BY Zenon, Parts DEF Second
<1>1. PlaceInv'
  BY <1>0, Configured, Lengths DEF PlayEnds, PlaceInv, cpu
<1>2. BufInv'
  BY <1>0, Configured, Lengths DEF PlayEnds, BufInv, Clocks, TargetCount, cpu
<1>3. PosInv'
  BY <1>0, Configured, Lengths DEF PlayEnds, Shows, PosInv, cpu
<1>4. EdgeInv'
  <2>1. Made' = Made /\ at # "ready" /\ at' # "ready"
    BY <1>0 DEF PlayEnds, Made, During, PosInv, cpu
  <2>2. UNCHANGED <<phase, conf, rnw, tstate, tedge, said>>
    BY DEF PlayEnds, cpu, target
  <2> QED
    BY <1>0, <2>1, <2>2, SameEdges
<1>5. AckInv'
  BY <1>0, Configured, Lengths DEF PlayEnds, AckInv, cpu, target
<1>6. TurnInv'
  <2>1. at \in During /\ noe' = idleWord.noe /\ dir' = idleWord.dir /\ UNCHANGED <<at, phase>>
    BY <1>0 DEF PlayEnds, PosInv, Shows, cpu
  <2>2. phase \in Heard => ~dir'
    <3>1. idleWord = Rest(buf[cur]) /\ (phase \in Heard => buf[cur].turn = "target")
      BY <1>0, <2>1 DEF PosInv, BufInv, Heard, TargetPhases
    <3> QED
      BY <2>1, <3>1 DEF Rest
  <2> QED
    BY <1>0, <2>1, <2>2 DEF TurnInv, During, After
<1>7. SampleInv'
  BY <1>0, Configured, Lengths DEF PlayEnds, SampleInv, Samples, Driven, Base, AckAt,
     DataAt, cpu, target
<1>8. TookInv'
  BY <1>0, Configured, Lengths DEF PlayEnds, TookInv, Made, Clocks, cpu, target
<1>9. ExactInv'
  BY <1>0, Configured, Lengths DEF PlayEnds, ExactInv, DataDone, Verdict, DataAt, AckAt,
     cpu, target
<1> QED
  BY Zenon, <1>1, <1>2, <1>3, <1>4, <1>5, <1>6, <1>7, <1>8, <1>9 DEF Second

\* A phase of the host is prepared, or only the idle level changes.
LEMMA HostBitsSecond == IInv /\ Second /\ HostBits => Second'
<1> SUFFICES ASSUME IInv, Second, HostBits PROVE Second'
  OBVIOUS
<1>0. /\ TargetTypes /\ PinTypes /\ DmaTypes /\ CpuTypes
      /\ BuffersFit /\ LanesInv /\ StepPhase /\ Prepared
      /\ PlaceInv /\ BufInv /\ PosInv /\ EdgeInv /\ AckInv /\ TurnInv
      /\ SampleInv /\ TookInv /\ ExactInv
  BY Zenon, Parts DEF Second
<1>1. PlaceInv'
  BY <1>0, Configured, Lengths DEF HostBits, PlaceInv, Before, After
<1>2. BufInv'
  BY <1>0, Configured, Lengths DEF HostBits, HostCount, Chunk, NewPhase, HostPhase,
     BufInv, Clocks, TargetCount, StepPhase, DmaTypes, CpuTypes, During, HostPhases,
     TargetPhases
<1>3. PosInv'
  BY <1>0, Configured, Lengths DEF HostBits, PosInv, During
<1>4. EdgeInv'
  BY <1>0, Configured, Lengths DEF HostBits, HostCount, EdgeInv, Asked, Follows, End,
     Made, Base, StepPhase, AckAt, DataAt, During, After, Heard, Counted, HostPhases,
     target
<1>5. AckInv'
  BY <1>0, Configured, Lengths DEF HostBits, AckInv, StepPhase, HostPhases
<1>6. TurnInv'
  BY <1>0, Configured, Lengths DEF HostBits, TurnInv, StepPhase, After, Heard, HostPhases
<1>7. SampleInv'
  BY <1>0, Configured, Lengths DEF HostBits, SampleInv, Samples, PosInv, During
<1>8. TookInv'
  <2>1. /\ at = "host" /\ at' \in {"next", "start", "pad"} /\ phase \in HostPhases /\ phase # "wdata"
        /\ UNCHANGED <<phase, said, took, rnw, ack, value, result, conf>>
    BY <1>0 DEF HostBits, StepPhase, target
  <2> QED
    BY <1>0, <2>1 DEF TookInv, HostPhases
<1>9. ExactInv'
  <2>1. /\ at = "host" /\ at' \in {"next", "start", "pad"} /\ phase \in HostPhases /\ phase # "wdata"
        /\ UNCHANGED <<phase, said, took, rnw, ack, value, result, conf>>
    BY <1>0 DEF HostBits, StepPhase, target
  <2> QED
    BY <1>0, <2>1 DEF ExactInv, DataDone, Verdict, HostPhases, DataAt, AckAt
<1> QED
  BY Zenon, <1>1, <1>2, <1>3, <1>4, <1>5, <1>6, <1>7, <1>8, <1>9 DEF Second

\* The pad is taken.
LEMMA AcquirePadSecond == IInv /\ Second /\ AcquirePad => Second'
<1> SUFFICES ASSUME IInv, Second, AcquirePad PROVE Second'
  OBVIOUS
<1>0. /\ TargetTypes /\ PinTypes /\ DmaTypes /\ CpuTypes
      /\ BuffersFit /\ LanesInv /\ StepPhase /\ Prepared
      /\ PlaceInv /\ BufInv /\ PosInv /\ EdgeInv /\ AckInv /\ TurnInv
      /\ SampleInv /\ TookInv /\ ExactInv
  BY Zenon, Parts DEF Second
<1>1. PlaceInv'
  BY <1>0, Configured, Lengths DEF AcquirePad, PlaceInv, Before
<1>2. BufInv'
  BY <1>0, Configured, Lengths DEF AcquirePad, BufInv, Clocks, TargetCount, dma
<1>3. PosInv'
  BY <1>0, Configured, Lengths DEF AcquirePad, PosInv, During, dma
<1>4. EdgeInv'
  BY <1>0, Configured, Lengths DEF AcquirePad, EdgeInv, Asked, Follows, End, Made, Base,
     AckAt, DataAt, During, After, target
<1>5. AckInv'
  BY <1>0, Configured, Lengths DEF AcquirePad, AckInv, target
<1>6. TurnInv'
  BY <1>0, Configured, Lengths DEF AcquirePad, TurnInv, StepPhase, After, Heard, HostPhases
<1>7. SampleInv'
  BY <1>0, Configured, Lengths DEF AcquirePad, SampleInv, Samples, PosInv, During, dma
<1>8. TookInv'
  BY <1>0, Configured, Lengths DEF AcquirePad, TookInv, Made, During, After, target
<1>9. ExactInv'
  BY <1>0, Configured, Lengths DEF AcquirePad, ExactInv, DataDone, Verdict, DataAt, AckAt,
     After, target
<1> QED
  BY Zenon, <1>1, <1>2, <1>3, <1>4, <1>5, <1>6, <1>7, <1>8, <1>9 DEF Second

\* A phase of the target is prepared.
LEMMA TargetBitsSecond == IInv /\ Second /\ TargetBits => Second'
<1> SUFFICES ASSUME IInv, Second, TargetBits PROVE Second'
  OBVIOUS
<1>0. /\ TargetTypes /\ PinTypes /\ DmaTypes /\ CpuTypes
      /\ BuffersFit /\ LanesInv /\ StepPhase /\ Prepared
      /\ PlaceInv /\ BufInv /\ PosInv /\ EdgeInv /\ AckInv /\ TurnInv
      /\ SampleInv /\ TookInv /\ ExactInv
  BY Zenon, Parts DEF Second
<1>1. PlaceInv'
  BY <1>0, Configured, Lengths DEF TargetBits, PlaceInv, Before, pins
<1>2. BufInv'
  BY <1>0, Configured, Lengths DEF TargetBits, NewPhase, TargetPhase, BufInv, Clocks,
     TargetCount, StepPhase, DmaTypes, CpuTypes, TargetPhases
<1>3. PosInv'
  BY <1>0, Configured, Lengths DEF TargetBits, PosInv, During
<1>4. EdgeInv'
  BY <1>0, Configured, Lengths DEF TargetBits, EdgeInv, Asked, Follows, End, Made, Base,
     AckAt, DataAt, During, After, target
<1>5. AckInv'
  BY <1>0, Configured, Lengths DEF TargetBits, AckInv, target
<1>6. TurnInv'
  BY <1>0, Configured, Lengths DEF TargetBits, TurnInv, After, pins
<1>7. SampleInv'
  BY <1>0, Configured, Lengths DEF TargetBits, SampleInv, Samples, PosInv, During
<1>8. TookInv'
  BY <1>0, Configured, Lengths DEF TargetBits, TookInv, Made, During, After, target
<1>9. ExactInv'
  BY <1>0, Configured, Lengths DEF TargetBits, ExactInv, DataDone, Verdict, DataAt, AckAt,
     After, target
<1> QED
  BY Zenon, <1>1, <1>2, <1>3, <1>4, <1>5, <1>6, <1>7, <1>8, <1>9 DEF Second

\* The data phase is prepared ahead, in the other buffer.
LEMMA PrepareAheadSecond == IInv /\ Second /\ PrepareAhead => Second'
<1> SUFFICES ASSUME IInv, Second, PrepareAhead PROVE Second'
  OBVIOUS
<1>0. /\ TargetTypes /\ PinTypes /\ DmaTypes /\ CpuTypes
      /\ BuffersFit /\ LanesInv /\ StepPhase /\ Prepared
      /\ PlaceInv /\ BufInv /\ PosInv /\ EdgeInv /\ AckInv /\ TurnInv
      /\ SampleInv /\ TookInv /\ ExactInv
  BY Zenon, Parts DEF Second
<1>1. PlaceInv'
  BY <1>0, Configured, Lengths DEF PrepareAhead, PlaceInv, During, pins
<1>2. BufInv'
  BY <1>0, Configured, Lengths DEF PrepareAhead, NewPhase, HostPhase, BufInv, Clocks,
     TargetCount, StepPhase, Prepared, DmaTypes, CpuTypes, During
<1>3. PosInv'
  <2>1. /\ at = "ahead" /\ at' = "finish" /\ phase = "ack" /\ nextBuffer = 1 - cur /\ cur \in {0, 1}
        /\ UNCHANGED <<pos, got, want, playing, noe, dir, idleWord, cur, phase, conf, rnw,
                       tstate, tedge, said, took>>
    BY <1>0 DEF PrepareAhead, StepPhase, Prepared, CpuTypes, pins, target
  <2>2. buf'[cur] = buf[cur]
    <3>1. PICK p : buf' = [buf EXCEPT ![nextBuffer] = p]
      BY DEF PrepareAhead, NewPhase
    <3> QED
      BY <1>0, <2>1, <3>1 DEF DmaTypes
  <2> QED
    BY <1>0, <2>1, <2>2 DEF PosInv, During
<1>4. EdgeInv'
  <2>1. /\ at = "ahead" /\ at' = "finish" /\ phase = "ack" /\ nextBuffer = 1 - cur /\ cur \in {0, 1}
        /\ UNCHANGED <<pos, got, want, playing, noe, dir, idleWord, cur, phase, conf, rnw,
                       tstate, tedge, said, took>>
    BY <1>0 DEF PrepareAhead, StepPhase, Prepared, CpuTypes, pins, target
  <2>2. buf'[cur] = buf[cur]
    <3>1. PICK p : buf' = [buf EXCEPT ![nextBuffer] = p]
      BY DEF PrepareAhead, NewPhase
    <3> QED
      BY <1>0, <2>1, <3>1 DEF DmaTypes
  <2>3. Made' = Made
    BY <2>1, <2>2 DEF Made, During, After
  <2> QED
    BY <1>0, <2>1, <2>3, SameEdges
<1>5. AckInv'
  BY <1>0, Configured, Lengths DEF PrepareAhead, AckInv, StepPhase
<1>6. TurnInv'
  BY <1>0, Configured, Lengths DEF PrepareAhead, TurnInv, StepPhase, pins
<1>7. SampleInv'
  BY <1>0, Configured, Lengths DEF PrepareAhead, SampleInv, Samples, Driven, Base, AckAt,
     DataAt, target
<1>8. TookInv'
  BY <1>0 DEF PrepareAhead, StepPhase, TookInv, target
<1>9. ExactInv'
  BY <1>0, Configured, Lengths DEF PrepareAhead, ExactInv, DataDone, PlaceInv, TargetPhases
<1> QED
  BY Zenon, <1>1, <1>2, <1>3, <1>4, <1>5, <1>6, <1>7, <1>8, <1>9 DEF Second

\* A phase that does not listen is over.
LEMMA WaitSecond == IInv /\ Second /\ Wait => Second'
<1> SUFFICES ASSUME IInv, Second, Wait PROVE Second'
  OBVIOUS
<1>0. /\ TargetTypes /\ PinTypes /\ DmaTypes /\ CpuTypes
      /\ BuffersFit /\ LanesInv /\ StepPhase /\ Prepared
      /\ PlaceInv /\ BufInv /\ PosInv /\ EdgeInv /\ AckInv /\ TurnInv
      /\ SampleInv /\ TookInv /\ ExactInv
  BY Zenon, Parts DEF Second
<1>1. PlaceInv'
  BY <1>0, Configured, Lengths DEF Wait, PlaceInv, After, pins
<1>2. BufInv'
  BY <1>0, Configured, Lengths DEF Wait, BufInv, StepPhase, During, TargetPhases
<1>3. PosInv'
  BY <1>0, Configured, Lengths DEF Wait, TxEof, Over, PosInv, During
<1>4. EdgeInv'
  <2>1. /\ at = "wait" /\ at' \in After /\ ~playing /\ phase \notin TargetPhases
        /\ UNCHANGED <<phase, conf, rnw, tstate, tedge, said, took, ack, value, result>>
    BY <1>0 DEF Wait, TxEof, StepPhase, After, target
  <2>2. Clocks' = Clocks /\ Made' = Clocks' /\ at' # "ready"
    BY <2>1, Zenon DEF Made, Clocks, TargetCount, During, After
  <2>3. phase \in {"request", "wdata", "dummy"} => Made = Clocks
    BY <2>1, Played DEF During, Counted
  <2>4. CASE phase \in {"request", "wdata", "dummy"}
    BY <1>0, <2>1, <2>2, <2>3, <2>4, SameEdges
  <2>5. CASE phase \notin {"request", "wdata", "dummy"}
    BY <1>0, <2>1, <2>2, <2>5 DEF EdgeInv, Counted, Heard, TargetPhases
  <2> QED
    BY <2>4, <2>5
<1>5. AckInv'
  BY <1>0, Configured, Lengths DEF Wait, AckInv, StepPhase, TargetPhases, target
<1>6. TurnInv'
  BY <1>0, Configured, Lengths DEF Wait, TxEof, TurnInv, Prepared, PosInv, Rest, During,
     pins
<1>7. SampleInv'
  BY <1>0, Configured, Lengths DEF Wait, Over, SampleInv, Samples
<1>8. TookInv'
  <2>1. /\ at = "wait" /\ at' \in After /\ ~playing /\ phase \notin TargetPhases
        /\ UNCHANGED <<phase, conf, rnw, tstate, tedge, said, took, ack, value, result>>
    BY <1>0 DEF Wait, TxEof, StepPhase, After, target
  <2>2. Clocks' = Clocks /\ Made' = Clocks' /\ at' # "ready"
    BY <2>1, Zenon DEF Made, Clocks, TargetCount, During, After
  <2>3. phase \in {"request", "wdata", "dummy"} => Made = Clocks
    BY <2>1, Played DEF During, Counted
  <2> QED
    BY <1>0, <2>1, <2>2, <2>3 DEF TookInv
<1>9. ExactInv'
  <2>1. /\ at = "wait" /\ at' \in After /\ ~playing /\ phase \notin TargetPhases
        /\ UNCHANGED <<phase, conf, rnw, tstate, tedge, said, took, ack, value, result>>
    BY <1>0 DEF Wait, TxEof, StepPhase, After, target
  <2>2. Clocks' = Clocks /\ Made' = Clocks' /\ at' # "ready"
    BY <2>1, Zenon DEF Made, Clocks, TargetCount, During, After
  <2>3. phase \in {"request", "wdata", "dummy"} => Made = Clocks
    BY <2>1, Played DEF During, Counted
  <2>4. phase = "wdata" /\ said # "none" => said = "OK" /\ ~rnw /\ took = DataBits
    BY <1>0, <2>1, <2>3 DEF AckInv, TookInv, Clocks
  <2>5. phase # "rdata"
    BY <2>1 DEF TargetPhases
  <2>6. DataAt' = DataAt
    BY <2>1 DEF DataAt, AckAt
  <2>7. CASE phase = "wdata"
    BY <2>1, <2>4, <2>7, Zenon DEF ExactInv
  <2>8. CASE phase # "wdata"
    <3>1. DataDone' => DataDone
      BY <2>1, <2>5, <2>8 DEF DataDone
    <3>2. Verdict' = Verdict
      BY <2>1, <2>2 DEF Verdict
    <3> QED
      BY <1>0, <2>1, <2>6, <3>1, <3>2, Zenon DEF ExactInv
  <2> QED
    BY <2>7, <2>8
<1> QED
  BY Zenon, <1>1, <1>2, <1>3, <1>4, <1>5, <1>6, <1>7, <1>8, <1>9 DEF Second

\* The pad is released.
LEMMA ReleaseSecond == IInv /\ Second /\ Release => Second'
<1> SUFFICES ASSUME IInv, Second, Release PROVE Second'
  OBVIOUS
<1>0. /\ TargetTypes /\ PinTypes /\ DmaTypes /\ CpuTypes
      /\ BuffersFit /\ LanesInv /\ StepPhase /\ Prepared
      /\ PlaceInv /\ BufInv /\ PosInv /\ EdgeInv /\ AckInv /\ TurnInv
      /\ SampleInv /\ TookInv /\ ExactInv
  BY Zenon, Parts DEF Second
<1>1. PlaceInv'
  BY <1>0, Configured, Lengths DEF Release, PlaceInv, After
<1>2. BufInv'
  BY <1>0, Configured, Lengths DEF Release, BufInv, StepPhase, During, TargetPhases
<1>3. PosInv'
  BY <1>0, Configured, Lengths DEF Release, PosInv, During, dma
<1>4. EdgeInv'
  BY <1>0, Configured, Lengths DEF Release, EdgeInv, Asked, Follows, End, Made, Base,
     StepPhase, Clocks, TargetCount, AckAt, DataAt, During, After, TargetPhases, target
<1>5. AckInv'
  BY <1>0, Configured, Lengths DEF Release, AckInv, StepPhase, TargetPhases, target
<1>6. TurnInv'
  BY <1>0, Configured, Lengths DEF Release, TurnInv, After, lanes
<1>7. SampleInv'
  BY <1>0, Configured, Lengths DEF Release, SampleInv, Samples, PosInv, During, dma
<1>8. TookInv'
  BY <1>0, Configured, Lengths DEF Release, TookInv, Made, Clocks, After, target
<1>9. ExactInv'
  <2>1. /\ at = "release" /\ at' = "next" /\ phase \notin TargetPhases
        /\ UNCHANGED <<phase, conf, rnw, said, took, ack, value, result>>
    BY <1>0 DEF Release, StepPhase, target
  <2>2. DataDone' => DataDone
    BY <2>1 DEF DataDone, After, TargetPhases
  <2>3. Verdict' = Verdict /\ DataAt' = DataAt
    BY <2>1 DEF Verdict, DataAt, AckAt
  <2> QED
    BY <1>0, <2>1, <2>2, <2>3, Zenon DEF ExactInv
<1> QED
  BY Zenon, <1>1, <1>2, <1>3, <1>4, <1>5, <1>6, <1>7, <1>8, <1>9 DEF Second

\* A phase follows another: the target's count is carried from one to the next.
LEMMA NextPhaseSecond == IInv /\ Second /\ NextPhase => Second'
<1> SUFFICES ASSUME IInv, Second, NextPhase PROVE Second'
  OBVIOUS
<1>0. /\ TargetTypes /\ PinTypes /\ DmaTypes /\ CpuTypes
      /\ BuffersFit /\ LanesInv /\ StepPhase /\ Prepared
      /\ PlaceInv /\ BufInv /\ PosInv /\ EdgeInv /\ AckInv /\ TurnInv
      /\ SampleInv /\ TookInv /\ ExactInv
  BY Zenon, Parts DEF Second
<1>1. PlaceInv'
  BY <1>0, Configured, Lengths DEF NextPhase, AfterPhase, Done, ToHost, ToTarget, Return,
     Stop, IdleOrPark, PlaceInv, Before, Heard, Counted, Transfers, pins
<1>2. BufInv'
  BY <1>0, Configured, Lengths DEF NextPhase, AfterPhase, Done, ToHost, ToTarget, Return,
     Stop, NoAnswer, NoAnswerTail, IdleOrPark, TargetPhase, HostPhase, BufInv, Clocks,
     TargetCount, StepPhase, Prepared, DmaTypes, CpuTypes, Before, During, After, Heard,
     Counted, Transfers, HostPhases, TargetPhases, Phases, pins, lanes, dma, cpu, target
<1>3. PosInv'
  BY <1>0, Configured, Lengths DEF NextPhase, AfterPhase, Done, ToHost, ToTarget, Return,
     Stop, IdleOrPark, PosInv, During, dma
<1>4. EdgeInv'
  <2> DEFINE t == conf.trn
             M == Made
             E == End
             b == Base
  <2>1. /\ at = "next" /\ (left > 0 => phase \in {"idle", "swj", "dout"})
        /\ UNCHANGED <<conf, rnw, tstate, tedge, said, ack>>
    BY <1>0 DEF NextPhase, StepPhase, target
  <2>2. /\ t \in Nat /\ t >= 1 /\ DataBits \in Nat /\ DataBits >= 1
        /\ t' = t /\ DataAt' = DataAt /\ DataAt = t + 11 /\ E' = E
        /\ E = DataAt + t + (IF said = "OK" \/ conf.dataPhase THEN DataBits ELSE 0)
    BY <1>0, <2>1, Configured, Lengths DEF DataAt, AckAt, End
  <2>3. M = Clocks /\ (at' \in Before => M' = 0)
    BY <2>1 DEF Made, Before, During, After
  <2>4. CASE phase = "request"
    <3>1. phase' = "ack" /\ at' = "target" /\ M = 8 /\ M' = 0
      BY <2>1, <2>3, <2>4 DEF NextPhase, AfterPhase, Done, ToTarget, Clocks, Before
    <3>2. \/ tstate = "lost" /\ said = "none"
          \/ said \in Acks /\ tstate = said /\ tedge = 8
      BY <1>0, <2>1, <2>4, <3>1 DEF EdgeInv, Asked
    <3>3. b' = 8
      BY <3>1 DEF Base
    <3> HIDE DEF t, M, E, b
    <3>4. Follows'
      BY <2>1, <2>2, <3>1, <3>2, <3>3 DEF Follows, M, E, b
    <3> QED
      BY <3>1, <3>4 DEF EdgeInv, Counted, Heard
  <2>5. CASE phase = "ack"
    <3>1. said \in {"none", ack} \/ ack = "bad"
      BY <1>0, <2>1, <2>5 DEF AckInv
    <3>2. b = 8 /\ M = t + 3 + (IF rnw THEN 0 ELSE t)
      BY <2>3, <2>5 DEF Base, Clocks, TargetCount
    <3> DEFINE n == DataAt + (IF rnw THEN 0 ELSE t)
    <3>3. \/ tstate = "lost" /\ said = "none"
          \/ /\ said \in Acks
             /\ \/ tstate = said /\ tedge = n /\ n < E
                \/ tstate = "idle" /\ n = E
      <4>1. Follows
        BY <1>0, <2>1, <2>5 DEF EdgeInv, Counted, Heard
      <4>2. \/ tstate = "lost" /\ said = "none"
            \/ /\ said \in Acks
               /\ \/ tstate = said /\ tedge = b + M /\ b + M < E
                  \/ tstate = "idle" /\ b + M = E
        BY <4>1, Zenon DEF Follows
      <4> HIDE DEF t, M, E, b
      <4>3. b + M = n
        BY <2>2, <3>2
      <4> QED
        BY <4>2, <4>3
    <3>4. \/ ack = "OK" /\ phase' = (IF rnw THEN "rdata" ELSE "wdata") /\ at' \in {"start", "pad"}
          \/ ack \in {"WAIT", "FAULT"} /\ rnw /\ phase' = NoAnswerTail /\ at' = "target"
          \/ ack \in {"WAIT", "FAULT"} /\ ~rnw /\ at' = "host"
               /\ phase' = (IF conf.dataPhase THEN "dummy" ELSE "giveback")
          \/ ack = "bad" /\ phase' = "backoff" /\ at' = "target"
      BY <2>1, <2>5 DEF NextPhase, AfterPhase, Done, NoAnswer, ToTarget, ToHost
    <3>5. M' = 0
      BY <2>3, <3>4 DEF Before
    <3>6. CASE phase' = "giveback"
      <4>1. said # "OK" /\ ~conf.dataPhase /\ ~rnw
        BY <3>1, <3>4, <3>6 DEF NoAnswerTail
      <4>2. n = E
        BY <2>2, <4>1
      <4> HIDE DEF n, t, E, b, M
      <4>3. tstate \in {"idle", "lost"}
        <5>1. E \in Nat
          BY <2>2
        <5> QED
          BY <3>3, <4>2, <5>1
      <4> QED
        BY <2>1, <3>6, <4>3 DEF EdgeInv, Counted, Heard
    <3>7. CASE phase' # "giveback"
      <4>1. phase' \in {"rdata", "wdata", "skip", "trnEnd", "dummy", "backoff"}
        BY <3>4, <3>7 DEF NoAnswerTail
      <4>2. b' = n
        BY <2>1, <2>2, <3>4, <3>7 DEF Base, NoAnswerTail
      <4> HIDE DEF n, t, E, b, M
      <4>3. n \in Nat
        BY <2>2 DEF n
      <4>4. b' + M' = n
        BY <3>5, <4>2, <4>3
      <4>5. Follows'
        <5>1. \/ tstate' = "lost" /\ said' = "none"
              \/ /\ said' \in Acks
                 /\ \/ tstate' = said' /\ tedge' = b' + M' /\ b' + M' < E'
                    \/ tstate' = "idle" /\ b' + M' = E'
          BY <2>1, <2>2, <3>3, <4>4
        <5> QED
          BY <5>1, Zenon DEF Follows, b, M, E
      <4> QED
        BY <3>4, <4>1, <4>5 DEF EdgeInv, Counted, Heard
    <3> QED
      BY <3>6, <3>7
  <2>6. CASE phase \in {"rdata", "wdata", "skip", "trnEnd", "dummy", "backoff"}
    <3>1. Follows \/ (phase = "backoff" /\ tstate = "lost")
      BY <1>0, <2>1, <2>6 DEF EdgeInv, Counted, Heard
    <3>2. M = Clocks
      BY <2>3
    <3>3. said \in Acks /\ phase # "backoff" => b + M = E
      <4>1. rnw <=> phase \in {"rdata", "skip", "trnEnd"} \/ (phase = "backoff" /\ rnw)
        BY <1>0, <2>1, <2>6 DEF AckInv, TargetTypes
      <4>2. /\ phase \in {"rdata", "wdata"} /\ said \in Acks => said = "OK"
            /\ phase \in {"skip", "dummy"} => conf.dataPhase
            /\ phase = "trnEnd" => ~conf.dataPhase /\ said # "OK"
        BY <1>0, <2>1 DEF AckInv, Acks
      <4>3. /\ phase \in {"rdata", "skip"} => b = DataAt /\ Clocks = DataBits + t
            /\ phase = "trnEnd" => b = DataAt /\ Clocks = t
            /\ phase \in {"wdata", "dummy"} => b = DataAt + t /\ Clocks = DataBits
        BY DEF Base, Clocks, TargetCount
      <4> HIDE DEF t, M, E, b
      <4> QED
        BY <2>2, <2>6, <3>2, <4>2, <4>3
    <3>4. phase = "backoff" => b + M >= E
      <4>1. phase = "backoff" => /\ b = DataAt + (IF rnw THEN 0 ELSE t)
                                 /\ Clocks = DataBits + (IF rnw THEN t ELSE 0)
        <5>1. CASE rnw
          BY <2>2, <5>1 DEF Base, Clocks, TargetCount
        <5>2. CASE ~rnw
          BY <2>2, <5>2 DEF Base, Clocks, TargetCount
        <5> QED
          BY <5>1, <5>2
      <4> HIDE DEF t, M, E, b
      <4> QED
        BY <2>2, <3>2, <4>1
    <3>5. tstate \in {"lost", "idle"}
      <4>1. \/ tstate = "lost"
            \/ /\ said \in Acks
               /\ \/ tstate = said /\ b + M < E
                  \/ tstate = "idle"
        BY <3>1, Zenon DEF Follows
      <4>2. b + M \in Int /\ E \in Int
        <5>1. b \in Nat /\ Clocks \in Nat
          BY <1>0, Configured, Lengths DEF Base, Clocks, TargetCount, DataAt, AckAt
        <5> HIDE DEF b, M, t, E
        <5> QED
          BY <2>2, <3>2, <5>1
      <4> DEFINE s == b + M
      <4>3. ~(s < E) \/ said \notin Acks
        <5> HIDE DEF b, M, E
        <5> QED
          BY <2>6, <3>3, <3>4, <4>2
      <4> HIDE DEF s, E
      <4> QED
        BY <4>1, <4>3 DEF s
    <3>6. phase' \notin {"request"} \union Counted \/ at' = "ready"
      BY <2>1, <2>6 DEF NextPhase, AfterPhase, Done, ToHost, IdleOrPark, Return, Counted,
         Heard
    <3> QED
      BY <2>1, <3>5, <3>6 DEF EdgeInv, Counted, Heard
  <2>7. CASE phase \notin {"request", "ack", "rdata", "wdata", "skip", "trnEnd", "dummy", "backoff"}
    <3>1. phase \notin {"request"} \union Counted
      BY <2>7 DEF Counted, Heard
    <3>2. phase' \notin {"request"} \union Counted \/ at' = "ready"
      BY <2>1, <2>7 DEF NextPhase, AfterPhase, Done, ToHost, ToTarget, IdleOrPark, Return,
         Stop, Counted, Heard
    <3> QED
      BY <1>0, <2>1, <3>1, <3>2 DEF EdgeInv, Counted, Heard
  <2> QED
    BY <2>4, <2>5, <2>6, <2>7
<1>5. AckInv'
  BY <1>0, Configured, Lengths DEF NextPhase, AfterPhase, Done, ToHost, ToTarget, Return,
     Stop, NoAnswer, NoAnswerTail, IdleOrPark, AckInv, target
<1>6. TurnInv'
  BY <1>0, Configured, Lengths DEF NextPhase, AfterPhase, Done, ToHost, ToTarget, Return,
     Stop, IdleOrPark, TurnInv, After, Heard, pins
<1>7. SampleInv'
  BY <1>0, Configured, Lengths DEF NextPhase, SampleInv, Samples, PosInv, During, dma
<1>8. TookInv'
  <2>1. /\ at = "next" /\ (left > 0 => phase \in {"idle", "swj", "dout"})
        /\ UNCHANGED <<conf, rnw, tstate, tedge, said, took, ack, pos, clkNoe>>
    BY <1>0 DEF NextPhase, StepPhase, dma, pins, target
  <2>2. phase' \in {"request", "ack", "wdata"} => at' = "ready" \/ (at' \in Before /\ phase = "request")
          \/ (phase = "ack" /\ phase' = "wdata" /\ at' \in Before)
    BY <2>1 DEF NextPhase, AfterPhase, Done, ToHost, ToTarget, IdleOrPark, Return, Stop,
       NoAnswerTail, Before
  <2>3. at' \in Before => Made' = 0
    BY DEF Made, Before, During, After
  <2> QED
    BY <1>0, <2>1, <2>2, <2>3 DEF TookInv
<1>9. ExactInv'
  BY <1>0, Configured, Lengths DEF NextPhase, AfterPhase, Done, ToHost, ToTarget, Return,
     Stop, NoAnswer, IdleOrPark, ExactInv, DataDone, Verdict, DataAt, AckAt, After, target
<1> QED
  BY Zenon, <1>1, <1>2, <1>3, <1>4, <1>5, <1>6, <1>7, <1>8, <1>9 DEF Second

\* DAP_SWD_Sequence goes on to its next sequence.
LEMMA NextSequenceSecond == IInv /\ Second /\ NextSequence => Second'
<1> SUFFICES ASSUME IInv, Second, NextSequence PROVE Second'
  OBVIOUS
<1>0. /\ TargetTypes /\ PinTypes /\ DmaTypes /\ CpuTypes
      /\ BuffersFit /\ LanesInv /\ StepPhase /\ Prepared
      /\ PlaceInv /\ BufInv /\ PosInv /\ EdgeInv /\ AckInv /\ TurnInv
      /\ SampleInv /\ TookInv /\ ExactInv
  BY Zenon, Parts DEF Second
<1>1. PlaceInv'
  <2>1. /\ at = "sequence" /\ at' \in {"outDisable", "outEnable"} /\ phase' \in {"none", "din", "dout"}
        /\ UNCHANGED <<clkNoe, tstate>>
    BY <1>0 DEF NextSequence, CpuTypes, pins, target
  <2>2. phase \notin Transfers
    BY <1>0, <2>1 DEF PlaceInv, Before, During, After
  <2> QED
    BY <1>0, <2>1, <2>2 DEF Transfers, Counted, Heard, PlaceInv
<1>2. BufInv'
  BY <1>0, Configured, Lengths DEF NextSequence, BufInv, During
<1>3. PosInv'
  BY <1>0, Configured, Lengths DEF NextSequence, PosInv, During, dma
<1>4. EdgeInv'
  <2>1. /\ at = "sequence" /\ at' \in {"outDisable", "outEnable"} /\ phase' \in {"none", "din", "dout"}
        /\ UNCHANGED <<clkNoe, tstate>>
    BY <1>0 DEF NextSequence, CpuTypes, pins, target
  <2>2. phase \notin Transfers
    BY <1>0, <2>1 DEF PlaceInv, Before, During, After
  <2> QED
    BY <1>0, <2>1, <2>2 DEF Transfers, Counted, Heard, EdgeInv
<1>5. AckInv'
  <2>1. /\ at = "sequence" /\ at' \in {"outDisable", "outEnable"} /\ phase' \in {"none", "din", "dout"}
        /\ UNCHANGED <<clkNoe, tstate>>
    BY <1>0 DEF NextSequence, CpuTypes, pins, target
  <2>2. phase \notin Transfers
    BY <1>0, <2>1 DEF PlaceInv, Before, During, After
  <2> QED
    BY <1>0, <2>1, <2>2 DEF AckInv
<1>6. TurnInv'
  <2>1. /\ at = "sequence" /\ at' \in {"outDisable", "outEnable"} /\ phase' \in {"none", "din", "dout"}
        /\ UNCHANGED <<clkNoe, tstate>>
    BY <1>0 DEF NextSequence, CpuTypes, pins, target
  <2>2. phase \notin Transfers
    BY <1>0, <2>1 DEF PlaceInv, Before, During, After
  <2> QED
    BY <1>0, <2>1, <2>2 DEF Heard, TurnInv
<1>7. SampleInv'
  <2>1. /\ at = "sequence" /\ at' \in {"outDisable", "outEnable"} /\ phase' \in {"none", "din", "dout"}
        /\ UNCHANGED <<clkNoe, tstate>>
    BY <1>0 DEF NextSequence, CpuTypes, pins, target
  <2>2. phase \notin Transfers
    BY <1>0, <2>1 DEF PlaceInv, Before, During, After
  <2> QED
    BY <1>0, <2>1, <2>2 DEF SampleInv
<1>8. TookInv'
  <2>1. /\ at = "sequence" /\ at' \in {"outDisable", "outEnable"} /\ phase' \in {"none", "din", "dout"}
        /\ UNCHANGED <<clkNoe, tstate>>
    BY <1>0 DEF NextSequence, CpuTypes, pins, target
  <2>2. phase \notin Transfers
    BY <1>0, <2>1 DEF PlaceInv, Before, During, After
  <2> QED
    BY <1>0, <2>1, <2>2 DEF TookInv
<1>9. ExactInv'
  <2>1. /\ at = "sequence" /\ at' \in {"outDisable", "outEnable"} /\ phase' \in {"none", "din", "dout"}
        /\ UNCHANGED <<clkNoe, tstate>>
    BY <1>0 DEF NextSequence, CpuTypes, pins, target
  <2>2. phase \notin Transfers
    BY <1>0, <2>1 DEF PlaceInv, Before, During, After
  <2> QED
    BY <1>0, <2>1, <2>2 DEF ExactInv, DataDone
<1> QED
  BY Zenon, <1>1, <1>2, <1>3, <1>4, <1>5, <1>6, <1>7, <1>8, <1>9 DEF Second

\* It releases the pad,
LEMMA OutDisableSecond == IInv /\ Second /\ OutDisable => Second'
<1> SUFFICES ASSUME IInv, Second, OutDisable PROVE Second'
  OBVIOUS
<1>0. /\ TargetTypes /\ PinTypes /\ DmaTypes /\ CpuTypes
      /\ BuffersFit /\ LanesInv /\ StepPhase /\ Prepared
      /\ PlaceInv /\ BufInv /\ PosInv /\ EdgeInv /\ AckInv /\ TurnInv
      /\ SampleInv /\ TookInv /\ ExactInv
  BY Zenon, Parts DEF Second
<1>1. PlaceInv'
  BY <1>0, Configured, Lengths DEF OutDisable, PlaceInv, StepPhase, Heard, Counted,
     Transfers
<1>2. BufInv'
  BY <1>0, Configured, Lengths DEF OutDisable, BufInv, During
<1>3. PosInv'
  BY <1>0, Configured, Lengths DEF OutDisable, PosInv, During, dma
<1>4. EdgeInv'
  BY <1>0, Configured, Lengths DEF OutDisable, EdgeInv, StepPhase, Heard, Counted, target
<1>5. AckInv'
  BY <1>0, Configured, Lengths DEF OutDisable, AckInv, StepPhase
<1>6. TurnInv'
  BY <1>0, Configured, Lengths DEF OutDisable, TurnInv, StepPhase, Heard
<1>7. SampleInv'
  BY <1>0, Configured, Lengths DEF OutDisable, SampleInv, PlaceInv, Before, During, After,
     Heard, Counted, Transfers
<1>8. TookInv'
  BY <1>0, Configured, Lengths DEF OutDisable, TookInv, PlaceInv, Before, During, After,
     Heard, Counted, Transfers
<1>9. ExactInv'
  BY <1>0, Configured, Lengths DEF OutDisable, ExactInv, DataDone, PlaceInv, Before,
     During, After, Transfers
<1> QED
  BY Zenon, <1>1, <1>2, <1>3, <1>4, <1>5, <1>6, <1>7, <1>8, <1>9 DEF Second

\* drives the idle level
LEMMA OutEnableSecond == IInv /\ Second /\ OutEnable => Second'
<1> SUFFICES ASSUME IInv, Second, OutEnable PROVE Second'
  OBVIOUS
<1>0. /\ TargetTypes /\ PinTypes /\ DmaTypes /\ CpuTypes
      /\ BuffersFit /\ LanesInv /\ StepPhase /\ Prepared
      /\ PlaceInv /\ BufInv /\ PosInv /\ EdgeInv /\ AckInv /\ TurnInv
      /\ SampleInv /\ TookInv /\ ExactInv
  BY Zenon, Parts DEF Second
<1>1. PlaceInv'
  BY <1>0, Configured, Lengths DEF OutEnable, PlaceInv, Before, During, After
<1>2. BufInv'
  BY <1>0, Configured, Lengths DEF OutEnable, BufInv, During
<1>3. PosInv'
  BY <1>0, Configured, Lengths DEF OutEnable, PosInv, During
<1>4. EdgeInv'
  BY <1>0, Configured, Lengths DEF OutEnable, EdgeInv, Asked, Follows, End, Made, Base,
     AckAt, DataAt, During, After, target
<1>5. AckInv'
  BY <1>0, Configured, Lengths DEF OutEnable, AckInv, PlaceInv, Before, During, After,
     Heard, Counted, Transfers
<1>6. TurnInv'
  BY <1>0, Configured, Lengths DEF OutEnable, TurnInv, PlaceInv, Before, During, After,
     Counted, Transfers
<1>7. SampleInv'
  BY <1>0, Configured, Lengths DEF OutEnable, SampleInv, Samples, PosInv, During
<1>8. TookInv'
  BY <1>0, Configured, Lengths DEF OutEnable, TookInv, PlaceInv, Before, During, After,
     Heard, Counted, Transfers
<1>9. ExactInv'
  BY <1>0, Configured, Lengths DEF OutEnable, ExactInv, DataDone, PlaceInv, Before,
     During, After, Transfers
<1> QED
  BY Zenon, <1>1, <1>2, <1>3, <1>4, <1>5, <1>6, <1>7, <1>8, <1>9 DEF Second

\* and takes the pad.
LEMMA EnablePadSecond == IInv /\ Second /\ EnablePad => Second'
<1> SUFFICES ASSUME IInv, Second, EnablePad PROVE Second'
  OBVIOUS
<1>0. /\ TargetTypes /\ PinTypes /\ DmaTypes /\ CpuTypes
      /\ BuffersFit /\ LanesInv /\ StepPhase /\ Prepared
      /\ PlaceInv /\ BufInv /\ PosInv /\ EdgeInv /\ AckInv /\ TurnInv
      /\ SampleInv /\ TookInv /\ ExactInv
  BY Zenon, Parts DEF Second
<1>1. PlaceInv'
  BY <1>0, Configured, Lengths DEF EnablePad, PlaceInv, Before
<1>2. BufInv'
  BY <1>0, Configured, Lengths DEF EnablePad, BufInv, During
<1>3. PosInv'
  BY <1>0, Configured, Lengths DEF EnablePad, PosInv, During, dma
<1>4. EdgeInv'
  BY <1>0, Configured, Lengths DEF EnablePad, EdgeInv, PlaceInv, Before, During, After,
     Transfers, target
<1>5. AckInv'
  BY <1>0, Configured, Lengths DEF EnablePad, AckInv
<1>6. TurnInv'
  BY <1>0, Configured, Lengths DEF EnablePad, TurnInv, Heard
<1>7. SampleInv'
  BY <1>0, Configured, Lengths DEF EnablePad, SampleInv, PlaceInv, Before, During, After,
     Heard, Counted, Transfers
<1>8. TookInv'
  BY <1>0, Configured, Lengths DEF EnablePad, TookInv
<1>9. ExactInv'
  BY <1>0, Configured, Lengths DEF EnablePad, ExactInv, DataDone, Verdict
<1> QED
  BY Zenon, <1>1, <1>2, <1>3, <1>4, <1>5, <1>6, <1>7, <1>8, <1>9 DEF Second

\* The clock translator is enabled, at the end of port set-up,
LEMMA ClockOnSecond == IInv /\ Second /\ ClockOn => Second'
<1> SUFFICES ASSUME IInv, Second, ClockOn PROVE Second'
  OBVIOUS
<1>0. /\ TargetTypes /\ PinTypes /\ DmaTypes /\ CpuTypes
      /\ BuffersFit /\ LanesInv /\ StepPhase /\ Prepared
      /\ PlaceInv /\ BufInv /\ PosInv /\ EdgeInv /\ AckInv /\ TurnInv
      /\ SampleInv /\ TookInv /\ ExactInv
  BY Zenon, Parts DEF Second
<1>1. PlaceInv'
  BY <1>0, Configured, Lengths DEF ClockOn, PlaceInv
<1>2. BufInv'
  BY <1>0, Configured, Lengths DEF ClockOn, BufInv, During
<1>3. PosInv'
  BY <1>0, Configured, Lengths DEF ClockOn, PosInv, During, dma
<1>4. EdgeInv'
  BY <1>0, Configured, Lengths DEF ClockOn, EdgeInv, PlaceInv, Before, During, After,
     Transfers, target
<1>5. AckInv'
  BY <1>0, Configured, Lengths DEF ClockOn, AckInv
<1>6. TurnInv'
  BY <1>0, Configured, Lengths DEF ClockOn, TurnInv
<1>7. SampleInv'
  BY <1>0, Configured, Lengths DEF ClockOn, SampleInv, PlaceInv, Before, During, After,
     Heard, Counted, Transfers
<1>8. TookInv'
  BY <1>0, Configured, Lengths DEF ClockOn, TookInv
<1>9. ExactInv'
  BY <1>0, Configured, Lengths DEF ClockOn, ExactInv, DataDone, PlaceInv, Before, During,
     After, Transfers
<1> QED
  BY Zenon, <1>1, <1>2, <1>3, <1>4, <1>5, <1>6, <1>7, <1>8, <1>9 DEF Second

\* and disabled, at the end of port off.
LEMMA ClockOffSecond == IInv /\ Second /\ ClockOff => Second'
<1> SUFFICES ASSUME IInv, Second, ClockOff PROVE Second'
  OBVIOUS
<1>0. /\ TargetTypes /\ PinTypes /\ DmaTypes /\ CpuTypes
      /\ BuffersFit /\ LanesInv /\ StepPhase /\ Prepared
      /\ PlaceInv /\ BufInv /\ PosInv /\ EdgeInv /\ AckInv /\ TurnInv
      /\ SampleInv /\ TookInv /\ ExactInv
  BY Zenon, Parts DEF Second
<1>1. PlaceInv'
  BY <1>0, Configured, Lengths DEF ClockOff, PlaceInv
<1>2. BufInv'
  BY <1>0, Configured, Lengths DEF ClockOff, BufInv, During
<1>3. PosInv'
  BY <1>0, Configured, Lengths DEF ClockOff, PosInv, During, dma
<1>4. EdgeInv'
  BY <1>0, Configured, Lengths DEF ClockOff, EdgeInv, PlaceInv, Before, During, After,
     Transfers, target
<1>5. AckInv'
  BY <1>0, Configured, Lengths DEF ClockOff, AckInv
<1>6. TurnInv'
  BY <1>0, Configured, Lengths DEF ClockOff, TurnInv
<1>7. SampleInv'
  BY <1>0, Configured, Lengths DEF ClockOff, SampleInv, PlaceInv, Before, During, After,
     Heard, Counted, Transfers
<1>8. TookInv'
  BY <1>0, Configured, Lengths DEF ClockOff, TookInv
<1>9. ExactInv'
  BY <1>0, Configured, Lengths DEF ClockOff, ExactInv, DataDone, PlaceInv, Before, During,
     After, Transfers
<1> QED
  BY Zenon, <1>1, <1>2, <1>3, <1>4, <1>5, <1>6, <1>7, <1>8, <1>9 DEF Second

\* A transfer is called.
LEMMA SWD_TransferSecond == IInv /\ Second /\ SWD_Transfer => Second'
<1> SUFFICES ASSUME IInv, Second, SWD_Transfer PROVE Second'
  OBVIOUS
<1>0. /\ TargetTypes /\ PinTypes /\ DmaTypes /\ CpuTypes
      /\ BuffersFit /\ LanesInv /\ StepPhase /\ Prepared
      /\ PlaceInv /\ BufInv /\ PosInv /\ EdgeInv /\ AckInv /\ TurnInv
      /\ SampleInv /\ TookInv /\ ExactInv
  BY Zenon, Parts DEF Second
<1>1. PlaceInv'
  BY <1>0, Configured, Lengths DEF SWD_Transfer, Call, PlaceInv, Before, pins
<1>2. BufInv'
  BY <1>0, Configured, Lengths DEF SWD_Transfer, Call, BufInv, During
<1>3. PosInv'
  BY <1>0, Configured, Lengths DEF SWD_Transfer, Call, PosInv, During, dma
<1>4. EdgeInv'
  BY <1>0, Configured, Lengths DEF SWD_Transfer, Call, Forget, EdgeInv, Asked, Made,
     During, After, Heard, Counted
<1>5. AckInv'
  BY <1>0, Configured, Lengths DEF SWD_Transfer, Call, AckInv
<1>6. TurnInv'
  BY <1>0, Configured, Lengths DEF SWD_Transfer, Call, TurnInv, After, Heard
<1>7. SampleInv'
  BY <1>0, Configured, Lengths DEF SWD_Transfer, Call, SampleInv
<1>8. TookInv'
  BY <1>0, Configured, Lengths DEF SWD_Transfer, Call, Forget, TookInv
<1>9. ExactInv'
  BY <1>0, Configured, Lengths DEF SWD_Transfer, Call, Forget, ExactInv
<1> QED
  BY Zenon, <1>1, <1>2, <1>3, <1>4, <1>5, <1>6, <1>7, <1>8, <1>9 DEF Second

\* An SWJ sequence is called.
LEMMA SWJ_SequenceSecond == IInv /\ Second /\ SWJ_Sequence => Second'
<1> SUFFICES ASSUME IInv, Second, SWJ_Sequence PROVE Second'
  OBVIOUS
<1>0. /\ TargetTypes /\ PinTypes /\ DmaTypes /\ CpuTypes
      /\ BuffersFit /\ LanesInv /\ StepPhase /\ Prepared
      /\ PlaceInv /\ BufInv /\ PosInv /\ EdgeInv /\ AckInv /\ TurnInv
      /\ SampleInv /\ TookInv /\ ExactInv
  BY Zenon, Parts DEF Second
<1>1. PlaceInv'
  BY <1>0, Configured, Lengths DEF SWJ_Sequence, Call, PlaceInv, Heard, Counted, Transfers
<1>2. BufInv'
  BY <1>0, Configured, Lengths DEF SWJ_Sequence, Call, BufInv, During
<1>3. PosInv'
  BY <1>0, Configured, Lengths DEF SWJ_Sequence, Call, PosInv, During, dma
<1>4. EdgeInv'
  BY <1>0, Configured, Lengths DEF SWJ_Sequence, Call, EdgeInv, Heard, Counted
<1>5. AckInv'
  BY <1>0, Configured, Lengths DEF SWJ_Sequence, Call, AckInv
<1>6. TurnInv'
  BY <1>0, Configured, Lengths DEF SWJ_Sequence, Call, TurnInv, Heard
<1>7. SampleInv'
  BY <1>0, Configured, Lengths DEF SWJ_Sequence, Call, SampleInv
<1>8. TookInv'
  BY <1>0, Configured, Lengths DEF SWJ_Sequence, Call, TookInv
<1>9. ExactInv'
  BY <1>0, Configured, Lengths DEF SWJ_Sequence, Call, Forget, ExactInv
<1> QED
  BY Zenon, <1>1, <1>2, <1>3, <1>4, <1>5, <1>6, <1>7, <1>8, <1>9 DEF Second

\* SWD sequences are called.
LEMMA DAP_SWD_SequenceSecond == IInv /\ Second /\ DAP_SWD_Sequence => Second'
<1> SUFFICES ASSUME IInv, Second, DAP_SWD_Sequence PROVE Second'
  OBVIOUS
<1>0. /\ TargetTypes /\ PinTypes /\ DmaTypes /\ CpuTypes
      /\ BuffersFit /\ LanesInv /\ StepPhase /\ Prepared
      /\ PlaceInv /\ BufInv /\ PosInv /\ EdgeInv /\ AckInv /\ TurnInv
      /\ SampleInv /\ TookInv /\ ExactInv
  BY Zenon, Parts DEF Second
<1>1. PlaceInv'
  BY <1>0, Configured, Lengths DEF DAP_SWD_Sequence, Call, PlaceInv, Heard, Counted,
     Transfers
<1>2. BufInv'
  BY <1>0, Configured, Lengths DEF DAP_SWD_Sequence, Call, BufInv, During
<1>3. PosInv'
  BY <1>0, Configured, Lengths DEF DAP_SWD_Sequence, Call, PosInv, During, dma
<1>4. EdgeInv'
  BY <1>0, Configured, Lengths DEF DAP_SWD_Sequence, Call, EdgeInv, Heard, Counted
<1>5. AckInv'
  BY <1>0, Configured, Lengths DEF DAP_SWD_Sequence, Call, AckInv
<1>6. TurnInv'
  BY <1>0, Configured, Lengths DEF DAP_SWD_Sequence, Call, TurnInv, Heard
<1>7. SampleInv'
  BY <1>0, Configured, Lengths DEF DAP_SWD_Sequence, Call, SampleInv
<1>8. TookInv'
  BY <1>0, Configured, Lengths DEF DAP_SWD_Sequence, Call, TookInv
<1>9. ExactInv'
  BY <1>0, Configured, Lengths DEF DAP_SWD_Sequence, Call, Forget, ExactInv
<1> QED
  BY Zenon, <1>1, <1>2, <1>3, <1>4, <1>5, <1>6, <1>7, <1>8, <1>9 DEF Second

\* The idle level is set.
LEMMA SetDataIdleSecond == IInv /\ Second /\ SetDataIdle => Second'
<1> SUFFICES ASSUME IInv, Second, SetDataIdle PROVE Second'
  OBVIOUS
<1>0. /\ TargetTypes /\ PinTypes /\ DmaTypes /\ CpuTypes
      /\ BuffersFit /\ LanesInv /\ StepPhase /\ Prepared
      /\ PlaceInv /\ BufInv /\ PosInv /\ EdgeInv /\ AckInv /\ TurnInv
      /\ SampleInv /\ TookInv /\ ExactInv
  BY Zenon, Parts DEF Second
<1>1. PlaceInv'
  BY <1>0, Configured, Lengths DEF SetDataIdle, Call, PlaceInv, Heard, Counted, Transfers
<1>2. BufInv'
  BY <1>0, Configured, Lengths DEF SetDataIdle, Call, BufInv, During
<1>3. PosInv'
  BY <1>0, Configured, Lengths DEF SetDataIdle, Call, PosInv, During, dma
<1>4. EdgeInv'
  BY <1>0, Configured, Lengths DEF SetDataIdle, Call, EdgeInv, Heard, Counted
<1>5. AckInv'
  BY <1>0, Configured, Lengths DEF SetDataIdle, Call, AckInv
<1>6. TurnInv'
  BY <1>0, Configured, Lengths DEF SetDataIdle, Call, TurnInv, Heard
<1>7. SampleInv'
  BY <1>0, Configured, Lengths DEF SetDataIdle, Call, SampleInv
<1>8. TookInv'
  BY <1>0, Configured, Lengths DEF SetDataIdle, Call, TookInv
<1>9. ExactInv'
  BY <1>0, Configured, Lengths DEF SetDataIdle, Call, Forget, ExactInv
<1> QED
  BY Zenon, <1>1, <1>2, <1>3, <1>4, <1>5, <1>6, <1>7, <1>8, <1>9 DEF Second

\* Turnaround and data phase are configured, between calls.
LEMMA SWD_ConfigureSecond == IInv /\ Second /\ SWD_Configure => Second'
<1> SUFFICES ASSUME IInv, Second, SWD_Configure PROVE Second'
  OBVIOUS
<1>0. /\ TargetTypes /\ PinTypes /\ DmaTypes /\ CpuTypes
      /\ BuffersFit /\ LanesInv /\ StepPhase /\ Prepared
      /\ PlaceInv /\ BufInv /\ PosInv /\ EdgeInv /\ AckInv /\ TurnInv
      /\ SampleInv /\ TookInv /\ ExactInv
  BY Zenon, Parts DEF Second
<1>1. PlaceInv'
  BY <1>0, Configured, Lengths DEF SWD_Configure, PlaceInv
<1>2. BufInv'
  BY <1>0, Configured, Lengths DEF SWD_Configure, BufInv, During
<1>3. PosInv'
  BY <1>0, Configured, Lengths DEF SWD_Configure, PosInv, During, dma
<1>4. EdgeInv'
  BY <1>0, Configured, Lengths DEF SWD_Configure, EdgeInv, target
<1>5. AckInv'
  BY <1>0, Configured, Lengths DEF SWD_Configure, AckInv
<1>6. TurnInv'
  BY <1>0, Configured, Lengths DEF SWD_Configure, TurnInv
<1>7. SampleInv'
  BY <1>0, Configured, Lengths DEF SWD_Configure, SampleInv
<1>8. TookInv'
  BY <1>0, Configured, Lengths DEF SWD_Configure, TookInv
<1>9. ExactInv'
  BY <1>0, Configured, Lengths DEF SWD_Configure, ExactInv, DataDone
<1> QED
  BY Zenon, <1>1, <1>2, <1>3, <1>4, <1>5, <1>6, <1>7, <1>8, <1>9 DEF Second

\* The port is set up.
LEMMA swd_esp_parlio_setupSecond == IInv /\ Second /\ swd_esp_parlio_setup => Second'
<1> SUFFICES ASSUME IInv, Second, swd_esp_parlio_setup PROVE Second'
  OBVIOUS
<1>0. /\ TargetTypes /\ PinTypes /\ DmaTypes /\ CpuTypes
      /\ BuffersFit /\ LanesInv /\ StepPhase /\ Prepared
      /\ PlaceInv /\ BufInv /\ PosInv /\ EdgeInv /\ AckInv /\ TurnInv
      /\ SampleInv /\ TookInv /\ ExactInv
  BY Zenon, Parts DEF Second
<1>1. PlaceInv'
  BY <1>0, Configured, Lengths DEF swd_esp_parlio_setup, Call, PlaceInv, Heard, Counted,
     Transfers
<1>2. BufInv'
  BY <1>0, Configured, Lengths DEF swd_esp_parlio_setup, Call, BufInv, During
<1>3. PosInv'
  BY <1>0, Configured, Lengths DEF swd_esp_parlio_setup, Call, PosInv, During, dma
<1>4. EdgeInv'
  BY <1>0, Configured, Lengths DEF swd_esp_parlio_setup, Call, EdgeInv, Heard, Counted
<1>5. AckInv'
  BY <1>0, Configured, Lengths DEF swd_esp_parlio_setup, Call, AckInv
<1>6. TurnInv'
  BY <1>0, Configured, Lengths DEF swd_esp_parlio_setup, Call, TurnInv, Heard
<1>7. SampleInv'
  BY <1>0, Configured, Lengths DEF swd_esp_parlio_setup, Call, SampleInv
<1>8. TookInv'
  BY <1>0, Configured, Lengths DEF swd_esp_parlio_setup, Call, TookInv
<1>9. ExactInv'
  BY <1>0, Configured, Lengths DEF swd_esp_parlio_setup, Call, Forget, ExactInv
<1> QED
  BY Zenon, <1>1, <1>2, <1>3, <1>4, <1>5, <1>6, <1>7, <1>8, <1>9 DEF Second

\* The port is switched off.
LEMMA swd_esp_parlio_offSecond == IInv /\ Second /\ swd_esp_parlio_off => Second'
<1> SUFFICES ASSUME IInv, Second, swd_esp_parlio_off PROVE Second'
  OBVIOUS
<1>0. /\ TargetTypes /\ PinTypes /\ DmaTypes /\ CpuTypes
      /\ BuffersFit /\ LanesInv /\ StepPhase /\ Prepared
      /\ PlaceInv /\ BufInv /\ PosInv /\ EdgeInv /\ AckInv /\ TurnInv
      /\ SampleInv /\ TookInv /\ ExactInv
  BY Zenon, Parts DEF Second
<1>1. PlaceInv'
  BY <1>0, Configured, Lengths DEF swd_esp_parlio_off, Call, PlaceInv, Heard, Counted,
     Transfers
<1>2. BufInv'
  BY <1>0, Configured, Lengths DEF swd_esp_parlio_off, Call, BufInv, During
<1>3. PosInv'
  BY <1>0, Configured, Lengths DEF swd_esp_parlio_off, Call, PosInv, During, dma
<1>4. EdgeInv'
  BY <1>0, Configured, Lengths DEF swd_esp_parlio_off, Call, EdgeInv, Heard, Counted
<1>5. AckInv'
  BY <1>0, Configured, Lengths DEF swd_esp_parlio_off, Call, AckInv
<1>6. TurnInv'
  BY <1>0, Configured, Lengths DEF swd_esp_parlio_off, Call, TurnInv, Heard
<1>7. SampleInv'
  BY <1>0, Configured, Lengths DEF swd_esp_parlio_off, Call, SampleInv
<1>8. TookInv'
  BY <1>0, Configured, Lengths DEF swd_esp_parlio_off, Call, TookInv
<1>9. ExactInv'
  BY <1>0, Configured, Lengths DEF swd_esp_parlio_off, Call, Forget, ExactInv
<1> QED
  BY Zenon, <1>1, <1>2, <1>3, <1>4, <1>5, <1>6, <1>7, <1>8, <1>9 DEF Second


-----------------------------------------------------------------------------
\* The second invariant holds initially,
LEMMA InitSecond == Init => Second
<1> SUFFICES ASSUME Init PROVE Second
  OBVIOUS
<1>1. PlaceInv /\ BufInv /\ PosInv
  BY DEF Init, PlaceInv, BufInv, PosInv, Transfers, Counted, Heard, During
<1>2. EdgeInv /\ AckInv /\ TurnInv
  BY DEF Init, EdgeInv, AckInv, TurnInv, Counted, Heard
<1>3. SampleInv /\ TookInv /\ ExactInv
  BY DEF Init, SampleInv, TookInv, ExactInv, DataDone
<1> QED
  BY <1>1, <1>2, <1>3 DEF Second

\* and every step preserves it, with the first.
LEMMA NextSecond == IInv /\ Second /\ [Next]_vars => Second'
<1> SUFFICES ASSUME IInv, Second, [Next]_vars PROVE Second'
  OBVIOUS
<1>1. CASE Dma
  BY <1>1, PlaySecond, PlayEndsSecond, Zenon DEF Dma
<1>2. CASE Cpu
  BY <1>2, HostBitsSecond, AcquirePadSecond, TargetBitsSecond, StartSecond,
     PrepareAheadSecond, TimeoutSecond, WaitSecond, ReleaseSecond, FinishSecond,
     NextPhaseSecond, NextSequenceSecond, OutDisableSecond, OutEnableSecond,
     EnablePadSecond, ClockOnSecond, ClockOffSecond, Zenon DEF Cpu
<1>3. CASE Api
  BY <1>3, SWD_TransferSecond, SWJ_SequenceSecond, DAP_SWD_SequenceSecond,
     SetDataIdleSecond, SWD_ConfigureSecond, swd_esp_parlio_setupSecond,
     swd_esp_parlio_offSecond, Zenon DEF Api
<1>4. CASE UNCHANGED vars
  <2>1. /\ UNCHANGED <<noe, dir, clkNoe, buf, playing, pos, idleWord, got, want>>
        /\ UNCHANGED <<cur, ahead, at, phase, ack, value, result, conf, rnw>>
        /\ UNCHANGED <<tstate, tedge, said, took>>
    BY <1>4, Zenon DEF vars, pins, dma, cpu, target
  <2>2. Clocks' = Clocks /\ Made' = Made /\ End' = End /\ Base' = Base /\ DataAt' = DataAt
    <3>1. Clocks' = Clocks
      BY <2>1, Zenon DEF Clocks, TargetCount
    <3> QED
      BY <2>1, <3>1, Zenon DEF Made, End, Base, DataAt, AckAt
  <2>3. PlaceInv' /\ BufInv' /\ PosInv'
    BY <2>1, <2>2, Zenon DEF Second, PlaceInv, BufInv, PosInv
  <2>4. EdgeInv' /\ AckInv' /\ TurnInv'
    BY <2>1, <2>2, Zenon DEF Second, EdgeInv, Asked, Follows, AckInv, TurnInv
  <2>5. SampleInv' /\ TookInv' /\ ExactInv'
    BY <2>1, <2>2, Zenon DEF Second, SampleInv, Samples, Driven, AckAt, TookInv, ExactInv,
       DataDone, Verdict
  <2> QED
    BY <2>3, <2>4, <2>5, Zenon DEF Second
<1> QED
  BY <1>1, <1>2, <1>3, <1>4, Zenon DEF Next

\* So both hold in every reachable state.
LEMMA SecondInvariance == Spec => [](IInv /\ Second)
<1>1. Init => IInv /\ Second
  BY InitIInv, InitSecond
<1>2. IInv /\ Second /\ [Next]_vars => IInv' /\ Second'
  BY NextIInv, NextSecond
<1> QED
  BY <1>1, <1>2, PTL DEF Spec

-----------------------------------------------------------------------------
\* A transfer that is answered and reports OK was answered OK, and then the bits of a
\* read are in their places and those of a write were all taken: for any turnaround, with
\* or without the data phase after WAIT and FAULT, and wherever a phase timed out before.
THEOREM TransfersAreExact == Spec => []OkIsExact
<1>1. Second => OkIsExact
  BY Zenon DEF Second, ExactInv, DataDone, Verdict, OkIsExact
<1> QED
  BY <1>1, SecondInvariance, PTL

\* What a step does to the target.
LEMMA TargetStep ==
  ASSUME [Next]_vars
  PROVE  Play \/ result' = "ERROR" \/ UNCHANGED <<tstate, tedge>>
<1>1. CASE Next
  BY <1>1, Zenon DEF Next, Dma, Cpu, Api, Call, PlayEnds, HostBits, AcquirePad,
     TargetBits, Start, PrepareAhead, Timeout, Aborts, Fail, Wait, Release, Finish,
     NextPhase, NextSequence, OutDisable, OutEnable, EnablePad, ClockOn, ClockOff,
     SWD_Transfer, SWJ_Sequence, DAP_SWD_Sequence, SetDataIdle, SWD_Configure,
     swd_esp_parlio_setup, swd_esp_parlio_off, target
<1>2. CASE UNCHANGED vars
  BY <1>2, Zenon DEF vars, target
<1> QED
  BY <1>1, <1>2

\* A target that follows a transfer is lost to it only in a backoff, a sequence or a phase
\* that failed, and every call returns with the target between transfers or lost.
THEOREM StaysInStep == Spec => InStep
<1>1. IInv /\ Second /\ Second' /\ [Next]_vars =>
        [ /\ at' = "ready" => tstate' \in {"idle", "lost"}
          /\ tstate' = "lost" /\ tstate \notin {"request", "lost"}
               => phase \in {"backoff", "swj", "din", "dout"} \/ result' = "ERROR" ]_vars
  <2> SUFFICES ASSUME IInv, Second, Second', [Next]_vars
               PROVE  /\ at' = "ready" => tstate' \in {"idle", "lost"}
                      /\ tstate' = "lost" /\ tstate \notin {"request", "lost"}
                           => phase \in {"backoff", "swj", "din", "dout"} \/ result' = "ERROR"
    OBVIOUS
  <2>1. at' = "ready" => tstate' \in {"idle", "lost"}
    BY DEF Second, EdgeInv
  <2>2. ASSUME tstate' = "lost", tstate \notin {"request", "lost"}, result' # "ERROR"
        PROVE  phase \in {"backoff", "swj", "din", "dout"}
    <3>1. Play
      BY <2>2, TargetStep
    <3>2. CASE phase \notin {"request"} \union Counted
      BY <2>2, <3>1, <3>2, QuietEdge
    <3>3. CASE phase \in {"request"} \union Counted
      <4>1. Clocked
        BY <2>2, <3>1, WordCounts DEF target
      <4>2. phase # "request"
        BY <2>2, <3>1, <4>1, RequestEdge
      <4>3. phase = "backoff"
        BY <2>2, <3>1, <3>3, <4>1, <4>2, BurstEdge DEF Acks
      <4> QED
        BY <4>3
    <3> QED
      BY <3>2, <3>3
  <2> QED
    BY <2>1, <2>2
<1> QED
  BY <1>1, SecondInvariance, PTL DEF Spec, InStep

\* The target drives in the phases it is heard in, and the host does not drive there.
OwnTurn == TargetDrives => phase \in Heard /\ ~HostDrives

\* That follows from the invariants.
LEMMA TargetTurn == IInv /\ Second => OwnTurn
<1> SUFFICES ASSUME IInv, Second, TargetDrives PROVE phase \in Heard /\ ~HostDrives
  BY DEF OwnTurn
<1>0. TargetTypes /\ DmaTypes /\ CpuTypes /\ BuffersFit /\ PosInv /\ EdgeInv /\ AckInv /\ TurnInv
  BY Zenon, Parts DEF Second
<1>1. tstate \in Acks /\ tedge >= AckAt
      /\ tedge < DataAt + (IF rnw /\ HasData THEN DataBits ELSE 0)
  BY DEF TargetDrives
<1>2. at # "ready" /\ phase \in {"request"} \union Counted
  BY <1>0, <1>1 DEF EdgeInv, Acks
<1>3. /\ conf.trn \in Nat /\ conf.trn >= 1 /\ AckAt = conf.trn + 8 /\ DataAt = conf.trn + 11
  BY <1>0, Configured DEF AckAt, DataAt
<1>4. phase # "request"
  BY <1>0, <1>1, <1>2, <1>3 DEF EdgeInv, Asked, Acks
<1>5. phase \notin {"wdata", "dummy"}
  <2> SUFFICES ASSUME phase \in {"wdata", "dummy"} PROVE FALSE
    OBVIOUS
  <2>1. Follows /\ ~rnw
    BY <1>0, <1>2 DEF EdgeInv, AckInv
  <2>2. tedge = (DataAt + conf.trn) + Made
    BY <1>1, <2>1 DEF Follows, Acks, Base
  <2>3. Made \in Nat
    <3>1. Clocks \in Nat
      BY Lengths DEF Clocks
    <3>2. Lead(buf[cur]) \in Nat /\ pos \in Nat
      BY <1>0, Lengths DEF Lead, DmaTypes
    <3> DEFINE l == Lead(buf[cur])
    <3>3. (IF pos <= l THEN 0 ELSE pos - l) \in Nat
      <4> HIDE DEF l
      <4> QED
        BY <3>2 DEF l
    <3> QED
      BY <3>1, <3>3 DEF Made
  <2> DEFINE M == Made
  <2> HIDE DEF M
  <2> QED
    BY <1>1, <1>3, <2>1, <2>2, <2>3 DEF M
<1>6. phase \in Heard
  BY <1>2, <1>4, <1>5 DEF Counted
<1>7. ~HostDrives
  BY <1>0, <1>2, <1>6 DEF TurnInv, HostDrives
<1> QED
  BY <1>6, <1>7

\* A step changes what the host drives or what the target drives, never both, unless
\* the target is stray: a phase that fails outside a transfer leaves the target alone.
LEMMA OneOfTheTwo ==
  ASSUME IInv, Second, Second', [Next]_vars, OwnTurn', stray = "no", stray' = "no"
  PROVE  (HostDrives' <=> HostDrives) \/ (TargetDrives' <=> TargetDrives)
<1>0. TurnInv /\ TurnInv'
  BY Zenon DEF Second
<1>1. Fail => UNCHANGED <<tstate, tedge>>
  BY DEF Fail, LeavesTarget
<1>2. \/ Play
      \/ UNCHANGED <<noe, dir>>
      \/ UNCHANGED <<tstate, tedge, conf, rnw>>
  <2>1. CASE Timeout \/ Start \/ Finish
    BY <1>1, <2>1, Zenon DEF Timeout, Aborts, Start, Finish, lanes, pins, target
  <2>2. CASE Next /\ ~(Timeout \/ Start \/ Finish)
    BY <2>2, Zenon DEF Next, Dma, Cpu, Api, Call, PlayEnds, HostBits, AcquirePad,
       TargetBits, PrepareAhead, Wait, Release, NextPhase, NextSequence,
       OutDisable, OutEnable, EnablePad, ClockOn, ClockOff, SWD_Transfer, SWJ_Sequence,
       DAP_SWD_Sequence, SetDataIdle, SWD_Configure, swd_esp_parlio_setup,
       swd_esp_parlio_off, target, pins
  <2>3. CASE UNCHANGED vars
    BY <2>3, Zenon DEF vars, pins
  <2> QED
    BY <2>1, <2>2, <2>3
<1>3. CASE UNCHANGED <<noe, dir>>
  BY <1>3, Zenon DEF HostDrives
<1>4. CASE UNCHANGED <<tstate, tedge, conf, rnw>>
  BY <1>4, Zenon DEF TargetDrives, HasData, AckAt, DataAt
<1>5. CASE Play
  <2>1. at' = at /\ phase' = phase /\ at # "ready"
    BY <1>5, WordCounts
  <2>2. CASE phase \in Heard
    BY <1>0, <2>1, <2>2 DEF TurnInv, HostDrives
  <2>3. CASE phase \notin Heard
    BY <2>1, <2>3, TargetTurn DEF OwnTurn
  <2> QED
    BY <2>2, <2>3
<1> QED
  BY <1>2, <1>3, <1>4, <1>5

\* The wire between the translator and the target has one driver at a time, and is
\* released between the turn of one and that of the other, until a phase fails in the
\* middle of a transfer; and again from the next line reset on.
THEOREM TurnsAreTaken == Spec => TurnsSpec
<1>1. Init => Turns!Init
  BY DEF Init, Driver, HostDrives, TargetDrives, Acks, Turns!Init
<1>2. IInv' /\ Second' => OwnTurn'
  BY TargetTurn, PTL
<1>3. IInv /\ Second /\ IInv' /\ Second' /\ [Next]_vars => [Turns!Next]_Driver
  <2> SUFFICES ASSUME IInv, Second, IInv', Second', [Next]_vars PROVE [Turns!Next]_Driver
    OBVIOUS
  <2>1. ~(HostDrives /\ TargetDrives) /\ ~(HostDrives' /\ TargetDrives')
    BY <1>2, TargetTurn DEF OwnTurn
  <2>2. stray = "no" /\ stray' = "no" =>
          (HostDrives' <=> HostDrives) \/ (TargetDrives' <=> TargetDrives)
    BY <1>2, OneOfTheTwo
  <2>3. /\ stray # "no" => Driver = "none"
        /\ stray = "no" => Driver = IF HostDrives THEN "host"
                                   ELSE IF TargetDrives THEN "target" ELSE "none"
    BY <2>1 DEF Driver
  <2>4. /\ stray' # "no" => Driver' = "none"
        /\ stray' = "no" => Driver' = IF HostDrives' THEN "host"
                                     ELSE IF TargetDrives' THEN "target" ELSE "none"
    BY <2>1 DEF Driver
  <2>5. Driver' = "none" \/ Driver = "none" \/ Driver' = Driver
    BY <2>1, <2>2, <2>3, <2>4
  <2>6. Driver' \in Turns!Drivers
    BY <2>4 DEF Turns!Drivers
  <2> QED
    BY <2>5, <2>6 DEF Turns!Next, Turns!Release, Turns!Drive
<1> QED
  BY <1>1, <1>3, SecondInvariance, PTL DEF Spec, TurnsSpec, Turns!Spec
=============================================================================
