--------------------------- MODULE SwdioBus_proofs ---------------------------
(***************************************************************************)
(* Proofs about SwdioBus, for any turnaround lengths, idle cycles and      *)
(* lengths of the data phase and of SWJ sequences.                         *)
(***************************************************************************)
EXTENDS SwdioBus, TLAPS

\* Which phases a position of the host belongs to.
Placed ==
  /\ at = "out" => phase \in HostTurn \ {"dummy"}
  /\ at = "sample" => phase \in {"ack", "rdata"}
  /\ at \in {"low", "high"} => phase \notin {"park", "setup"}
  /\ at \in ToTarget => phase = "trnAck"
  /\ at \in ToHost => phase \in {"wdata", "dummy", "idle", "park", "setup"}
  /\ at = "clkOn" => phase = "setup"
  /\ at \in Offs \union {"off", "ready"} => phase = "park"
  /\ phase \notin {"park", "setup"} => n >= 1

\* Where the pins are, at each position of the host.
PinsPlaced ==
  /\ at \in Bits => ~noe /\ (pad <=> dir) /\ (dir <=> phase \in HostTurn)
  /\ at \in {"ready", "tdClk", "tdIsolate", "offClk", "offIsolate", "clkOn"} => ~noe /\ pad /\ dir
  /\ at \in {"tdRelease", "offRelease"} => noe /\ ~clk /\ pad /\ dir
  /\ at \in {"tdTurn", "offTurn"} => noe /\ ~clk /\ ~pad /\ dir
  /\ at \in {"tdEnable", "offClkNoe"} => noe /\ ~clk /\ ~pad /\ ~dir
  /\ at \in {"off", "hdClk", "hdIsolate"} => (pad <=> dir) /\ (noe => clkNoe)
  /\ at \in {"hdTurn", "hdPreload", "hdPad", "hdEnable"} => noe /\ ~clk
  /\ at = "hdTurn" => (pad <=> dir)
  /\ at \in {"hdPreload", "hdPad", "hdEnable"} => dir
  /\ at = "hdEnable" => pad
  /\ at \in {"tdIsolate", "hdIsolate", "offIsolate"} => ~clk
  /\ clkNoe => at \in ToHost \union {"off", "clkOn"} /\ (at # "off" => phase = "setup")

\* The edges the target has counted, at each phase of the host.
InStep ==
  \/ tstate = "lost"
  \/ phase \in {"idle", "park", "swj", "setup"} /\ tstate = "idle"
  \/ phase = "request" /\ n = 8 /\ tstate = "idle"
  \/ phase = "request" /\ n < 8 /\ tstate = "request" /\ tedge + n = 8
  \/ phase = "trnAck" /\ tstate \in Acks /\ tedge + n = AckAt
  \/ /\ phase = "ack" /\ tstate \in Acks /\ n <= 3 /\ tedge + n = DataAt
     /\ at = "high" /\ n = 1 => ack \in {tstate, "bad"}
  \/ /\ phase = "rdata" /\ tstate = "OK" /\ rnw /\ n <= DataBits
     /\ tedge + n = DataAt + DataBits
  \/ phase = "trnRead" /\ tstate = "OK" /\ rnw /\ tedge + n = Transfer
  \/ phase = "trnWrite" /\ tstate = "OK" /\ ~rnw /\ tedge + n = DataAt + conf.trn
  \/ phase = "wdata" /\ tstate = "OK" /\ ~rnw /\ n <= DataBits /\ tedge + n = Transfer
  \/ /\ phase = "skip" /\ tstate \in {"WAIT", "FAULT"} /\ conf.dataPhase /\ rnw
     /\ tedge + n = DataAt + DataBits
  \/ /\ phase = "trnEnd" /\ tstate \in {"WAIT", "FAULT"}
     /\ tedge + n = DataAt + conf.trn + (IF conf.dataPhase /\ rnw THEN DataBits ELSE 0)
  \/ /\ phase = "dummy" /\ tstate \in {"WAIT", "FAULT"} /\ conf.dataPhase /\ ~rnw
     /\ n <= DataBits /\ tedge + n = Transfer
  \/ /\ phase = "backoff" /\ ack = "bad" /\ tstate \in Acks
     /\ tedge + n = DataAt + conf.trn + DataBits /\ tedge < Transfer
  \/ phase = "backoff" /\ ack = "bad" /\ tstate = "idle" /\ n = DataBits

\* The level the target takes for a start bit: high at the first edge of the
\* request, low at every idle cycle.
StartBit ==
  at \in {"low", "high"} =>
    /\ phase = "idle" => out = 0
    /\ phase = "request" /\ n = 8 => out = 1

IInv == TypeOK /\ Placed /\ PinsPlaced /\ StartBit /\ InStep

\* The strengthened invariant holds initially,
LEMMA InitIInv == Init => IInv
<1> SUFFICES ASSUME Init PROVE IInv
  OBVIOUS
<1> USE DEF Init
<1>a. /\ clk \in BOOLEAN /\ clkNoe \in BOOLEAN /\ noe \in BOOLEAN
      /\ dir \in BOOLEAN /\ pad \in BOOLEAN /\ rnw \in BOOLEAN
  BY Zenon
<1>b. /\ out \in 0..2 /\ n \in Nat /\ tedge \in Nat /\ conf \in Configs
  OBVIOUS
<1>1. TypeOK
  BY <1>a, <1>b DEF TypeOK, Acks, Phases, HostTurn
<1>2. Placed /\ InStep /\ StartBit
  BY DEF Placed, InStep, StartBit, Bits, ToTarget, ToHost, Offs, HostTurn, TargetTurn,
     Phases, Acks
<1>3. PinsPlaced
  BY Zenon DEF PinsPlaced, Bits, ToHost
<1> QED
  BY <1>1, <1>2, <1>3 DEF IInv

\* What the configuration and the bit counts are, in Next's terms.
Cycles == /\ conf.trn \in Nat /\ conf.trn >= 1 /\ conf.idle \in Nat
          /\ DataBits \in Nat /\ DataBits >= 1
          /\ SwjBits \in Nat /\ SwjBits >= 1

\* The members of the two constant sets are numbers.
LEMMA TurnaroundTypes == ASSUME NEW t \in Turnarounds PROVE t \in Nat /\ t >= 1
BY CyclesAssumption

\* The same of the idle cycles.
LEMMA IdleTypes == ASSUME NEW i \in IdleCycles PROVE i \in Nat
BY CyclesAssumption

\* In every state the lengths are those of Cycles.
LEMMA CyclesTypes == IInv => Cycles
<1> SUFFICES ASSUME conf \in Configs PROVE Cycles
  BY DEF IInv, TypeOK
<1>1. conf.trn \in Turnarounds /\ conf.idle \in IdleCycles
  BY DEF Configs
<1>2. /\ DataBits \in Nat /\ DataBits >= 1
      /\ SwjBits \in Nat /\ SwjBits >= 1
  BY CyclesAssumption
<1> QED
  BY <1>1, <1>2, TurnaroundTypes, IdleTypes DEF Cycles

\* What holds at a rising edge, for the lemmas on it.
Edge == /\ Cycles /\ tedge \in Nat /\ n \in Nat /\ n >= 1 /\ rnw \in BOOLEAN
        /\ phase \in Phases \ {"park", "setup"} /\ InStep /\ StartBit
        /\ ~noe /\ (dir <=> phase \in HostTurn)
        /\ at = "high" /\ TargetEdge /\ UNCHANGED <<rnw, ack, conf>>

\* Host and target stay in step from bit to bit of a phase,
LEMMA NextBitInStep == Edge /\ n > 1 /\ n' = n - 1 /\ phase' = phase /\ at' # "high" => InStep'
<1> SUFFICES ASSUME Edge, n > 1 /\ n' = n - 1 /\ phase' = phase /\ at' # "high" PROVE InStep'
  OBVIOUS
<1> USE DEF Edge, Cycles, InStep, TargetEdge, Counts, HostDrives, HostTurn, AckAt,
           DataAt, HasData, Transfer, Acks, target, StartBit
<1>1. CASE phase = "request"
  BY <1>1
<1>2. CASE phase = "trnAck"
  BY <1>2
<1>3. CASE phase = "ack"
  BY <1>3
<1>4. CASE phase = "rdata"
  BY <1>4
<1>5. CASE phase = "trnRead"
  BY <1>5
<1>6. CASE phase = "trnWrite"
  BY <1>6
<1>7. CASE phase = "wdata"
  BY <1>7
<1>8. CASE phase = "skip"
  BY <1>8
<1>9. CASE phase = "trnEnd"
  BY <1>9
<1>10. CASE phase = "dummy"
  BY <1>10
<1>11. CASE phase = "backoff"
  BY <1>11
<1>12. CASE phase = "idle"
  BY <1>12
<1>13. CASE phase = "swj"
  BY <1>13
<1> QED
  BY <1>1, <1>2, <1>3, <1>4, <1>5, <1>6, <1>7, <1>8, <1>9, <1>10, <1>11, <1>12, <1>13
     DEF Phases, TargetTurn

\* and from the last bit of a phase to the next phase.
LEMMA NextPhaseInStep == Edge /\ n = 1 /\ NextPhase => InStep'
<1> SUFFICES ASSUME Edge, n = 1 /\ NextPhase PROVE InStep'
  OBVIOUS
<1> USE DEF Edge, Cycles, InStep, TargetEdge, Counts, HostDrives, HostTurn, AckAt,
           DataAt, HasData, Transfer, Acks, target, StartBit,
           NextPhase, Enter, Continue, TurnToTarget, TurnToHost, IdlePhase, NoAnswer
<1>1. CASE phase = "request"
  BY <1>1
<1>2. CASE phase = "trnAck"
  BY <1>2
<1>3. CASE phase = "ack"
  BY <1>3
<1>4. CASE phase = "rdata"
  BY <1>4
<1>5. CASE phase = "trnRead"
  BY <1>5
<1>6. CASE phase = "trnWrite"
  BY <1>6
<1>7. CASE phase = "wdata"
  BY <1>7
<1>8. CASE phase = "skip"
  BY <1>8
<1>9. CASE phase = "trnEnd"
  BY <1>9
<1>10. CASE phase = "dummy"
  BY <1>10
<1>11. CASE phase = "backoff"
  BY <1>11
<1>12. CASE phase = "idle"
  BY <1>12
<1>13. CASE phase = "swj"
  BY <1>13
<1> QED
  BY <1>1, <1>2, <1>3, <1>4, <1>5, <1>6, <1>7, <1>8, <1>9, <1>10, <1>11, <1>12, <1>13
     DEF Phases, TargetTurn

\* Where the host goes from the last bit of a phase.
LEMMA NextPhasePlaced ==
  Edge /\ n = 1 /\ NextPhase =>
    /\ phase' \in Phases /\ n' \in Nat /\ at' \in {"out", "low", "tdClk", "hdClk", "ready"}
    /\ Placed'
    /\ at' = "out" => phase' \in HostTurn /\ phase \in HostTurn
    /\ at' = "low" => phase' \notin HostTurn /\ phase \notin HostTurn
    /\ at' = "tdClk" => phase \in HostTurn
    /\ at' = "ready" => phase \in HostTurn
BY DEF Edge, Cycles, Phases, HostTurn, TargetTurn, Bits, Placed, ToTarget, ToHost, Offs, Begin,
   NextPhase, Enter, Continue, TurnToTarget, TurnToHost, IdlePhase, NoAnswer

\* What the target is at after an edge.
LEMMA EdgeTypes ==
  Edge => tstate' \in Acks \union {"idle", "request", "lost"} /\ tedge' \in Nat
BY DEF Edge, TargetEdge, Counts, InStep, Acks, target

\* A rising edge: the host takes the next bit or the next phase, and the
\* target counts.
LEMMA RiseIInv == IInv /\ Rise => IInv'
<1> SUFFICES ASSUME IInv, Rise PROVE IInv'
  OBVIOUS
<1>1. /\ at = "high" /\ ~clkNoe /\ ~noe /\ (pad <=> dir) /\ (dir <=> phase \in HostTurn)
      /\ phase \notin {"park", "setup"}
  BY DEF IInv, PinsPlaced, Placed, Rise, Bits
<1>2. UNCHANGED <<clkNoe, noe, dir, pad, out, rnw, ack, conf>>
  BY DEF Rise
<1>3. clk' = TRUE
  BY DEF Rise
<1>4. n \in Nat /\ n >= 1 /\ rnw \in BOOLEAN /\ phase \in Phases /\ tedge \in Nat
  BY <1>1 DEF IInv, TypeOK, Placed
<1>5. Edge
  BY <1>1, <1>2, <1>4, CyclesTypes DEF Edge, Rise, IInv
<1>6. CASE n > 1
  <2>1. /\ phase' = phase /\ n' = n - 1 /\ at' \in {"out", "low"}
        /\ at' = "out" => phase \in {"request", "wdata", "swj"}
    BY <1>1, <1>4, <1>6 DEF Rise, Enter, Begin
  <2>2. TypeOK'
    <3>1. n' \in Nat
      BY <1>4, <1>6, <2>1
    <3> QED
      BY <1>2, <1>3, <1>5, <2>1, <3>1, EdgeTypes DEF IInv, TypeOK, Bits
  <2>3. Placed'
    BY <1>1, <1>4, <1>6, <2>1 DEF Placed, HostTurn, ToTarget, ToHost, Offs
  <2>4. PinsPlaced'
    BY <1>1, <1>2, <2>1 DEF PinsPlaced, Bits, ToHost
  <2>5. StartBit'
    BY <1>1, <1>2, <1>4, <1>6, <2>1 DEF IInv, StartBit, Rise, Enter, Begin
  <2> QED
    BY <1>5, <1>6, <2>1, <2>2, <2>3, <2>4, <2>5, NextBitInStep DEF IInv
<1>7. CASE n = 1
  <2>1. NextPhase
    BY <1>7 DEF Rise
  <2>2. TypeOK'
    BY <1>2, <1>3, <1>5, <1>7, <2>1, NextPhasePlaced, EdgeTypes
       DEF IInv, TypeOK, Bits, ToTarget, ToHost
  <2>3. PinsPlaced'
    BY <1>1, <1>2, <1>5, <1>7, <2>1, NextPhasePlaced DEF PinsPlaced, Bits, ToHost
  <2>4. StartBit'
    BY <2>1, <1>4, <1>7 DEF StartBit, Begin, NextPhase, Enter, Continue, TurnToTarget,
       TurnToHost
  <2> QED
    BY <1>5, <1>7, <2>1, <2>2, <2>3, <2>4, NextPhasePlaced, NextPhaseInStep DEF IInv
<1> QED
  BY <1>4, <1>6, <1>7

\* and every step preserves it.
LEMMA NextIInv == IInv /\ [Next]_vars => IInv'
<1> SUFFICES ASSUME IInv, [Next]_vars PROVE IInv'
  OBVIOUS
<1> USE DEF IInv, TypeOK, Placed, Bits, ToTarget, ToHost, Offs, HostTurn, TargetTurn,
   Phases, Acks
<1>0. CASE UNCHANGED vars
  <2>1. UNCHANGED pins /\ UNCHANGED host /\ UNCHANGED target
    BY <1>0 DEF vars
  <2>2. TypeOK'
    BY <2>1 DEF pins, host, target
  <2>3. Placed' /\ StartBit'
    BY <2>1 DEF StartBit, pins, host
  <2>4. PinsPlaced'
    BY <2>1 DEF PinsPlaced, pins, host
  <2>5. InStep'
    BY <2>1 DEF InStep, host, target, AckAt, DataAt, HasData, Transfer
  <2> QED
    BY <2>2, <2>3, <2>4, <2>5
<1>1. CASE TdClk
  <2>1. TypeOK'
    BY <1>1 DEF TdClk, target, Go
  <2>4. Placed' /\ StartBit'
    BY <1>1  DEF StartBit, TdClk, target, Go
  <2>2. PinsPlaced'
    BY <1>1 DEF PinsPlaced, TdClk, target, Go
  <2>3. InStep'
    BY <1>1, CyclesTypes DEF Cycles, InStep, AckAt, DataAt, HasData, Transfer, TdClk,
       target, Go
  <2> QED
    BY <2>1, <2>2, <2>3, <2>4
<1>2. CASE TdIsolate
  <2>1. TypeOK'
    BY <1>2 DEF TdIsolate, target, Go
  <2>4. Placed' /\ StartBit'
    BY <1>2  DEF StartBit, TdIsolate, target, Go
  <2>2. PinsPlaced'
    BY <1>2 DEF PinsPlaced, TdIsolate, target, Go
  <2>3. InStep'
    BY <1>2, CyclesTypes DEF Cycles, InStep, AckAt, DataAt, HasData, Transfer, TdIsolate,
       target, Go
  <2> QED
    BY <2>1, <2>2, <2>3, <2>4
<1>3. CASE TdRelease
  <2>1. TypeOK'
    BY <1>3 DEF TdRelease, target, Go
  <2>4. Placed' /\ StartBit'
    BY <1>3  DEF StartBit, TdRelease, target, Go
  <2>2. PinsPlaced'
    BY <1>3 DEF PinsPlaced, TdRelease, target, Go
  <2>3. InStep'
    BY <1>3, CyclesTypes DEF Cycles, InStep, AckAt, DataAt, HasData, Transfer, TdRelease,
       target, Go
  <2> QED
    BY <2>1, <2>2, <2>3, <2>4
<1>4. CASE TdTurn
  <2>1. TypeOK'
    BY <1>4 DEF TdTurn, target, Go
  <2>4. Placed' /\ StartBit'
    BY <1>4  DEF StartBit, TdTurn, target, Go
  <2>2. PinsPlaced'
    BY <1>4 DEF PinsPlaced, TdTurn, target, Go
  <2>3. InStep'
    BY <1>4, CyclesTypes DEF Cycles, InStep, AckAt, DataAt, HasData, Transfer, TdTurn,
       target, Go
  <2> QED
    BY <2>1, <2>2, <2>3, <2>4
<1>5. CASE TdEnable
  <2>1. TypeOK'
    BY <1>5 DEF TdEnable, target, Begin, Go
  <2>4. Placed' /\ StartBit'
    BY <1>5  DEF StartBit, TdEnable, target, Begin, Go
  <2>2. PinsPlaced'
    BY <1>5 DEF PinsPlaced, TdEnable, target, Begin, Go
  <2>3. InStep'
    BY <1>5, CyclesTypes DEF Cycles, InStep, AckAt, DataAt, HasData, Transfer, TdEnable,
       target, Begin, Go
  <2> QED
    BY <2>1, <2>2, <2>3, <2>4
<1>6. CASE HdClk
  <2>1. TypeOK'
    BY <1>6 DEF HdClk, target, Go
  <2>4. Placed' /\ StartBit'
    BY <1>6  DEF StartBit, HdClk, target, Go
  <2>2. PinsPlaced'
    BY <1>6 DEF PinsPlaced, HdClk, target, Go
  <2>3. InStep'
    BY <1>6, CyclesTypes DEF Cycles, InStep, AckAt, DataAt, HasData, Transfer, HdClk,
       target, Go
  <2> QED
    BY <2>1, <2>2, <2>3, <2>4
<1>7. CASE HdIsolate
  <2>1. TypeOK'
    BY <1>7 DEF HdIsolate, target, Go
  <2>4. Placed' /\ StartBit'
    BY <1>7  DEF StartBit, HdIsolate, target, Go
  <2>2. PinsPlaced'
    BY <1>7 DEF PinsPlaced, HdIsolate, target, Go
  <2>3. InStep'
    BY <1>7, CyclesTypes DEF Cycles, InStep, AckAt, DataAt, HasData, Transfer, HdIsolate,
       target, Go
  <2> QED
    BY <2>1, <2>2, <2>3, <2>4
<1>8. CASE HdTurn
  <2>1. TypeOK'
    BY <1>8 DEF HdTurn, target, Go
  <2>4. Placed' /\ StartBit'
    BY <1>8  DEF StartBit, HdTurn, target, Go
  <2>2. PinsPlaced'
    BY <1>8 DEF PinsPlaced, HdTurn, target, Go
  <2>3. InStep'
    BY <1>8, CyclesTypes DEF Cycles, InStep, AckAt, DataAt, HasData, Transfer, HdTurn,
       target, Go
  <2> QED
    BY <2>1, <2>2, <2>3, <2>4
<1>9. CASE HdPreload
  <2>1. TypeOK'
    BY <1>9 DEF HdPreload, target, Bit, Preload, Go
  <2>4. Placed' /\ StartBit'
    BY <1>9  DEF StartBit, HdPreload, target, Bit, Preload, Go
  <2>2. PinsPlaced'
    BY <1>9 DEF PinsPlaced, HdPreload, target, Bit, Preload, Go
  <2>3. InStep'
    BY <1>9, CyclesTypes DEF Cycles, InStep, AckAt, DataAt, HasData, Transfer, HdPreload,
       target, Bit, Preload, Go
  <2> QED
    BY <2>1, <2>2, <2>3, <2>4
<1>10. CASE HdPad
  <2>1. TypeOK'
    BY <1>10 DEF HdPad, target, Go
  <2>4. Placed' /\ StartBit'
    BY <1>10  DEF StartBit, HdPad, target, Go
  <2>2. PinsPlaced'
    BY <1>10 DEF PinsPlaced, HdPad, target, Go
  <2>3. InStep'
    BY <1>10, CyclesTypes DEF Cycles, InStep, AckAt, DataAt, HasData, Transfer, HdPad,
       target, Go
  <2> QED
    BY <2>1, <2>2, <2>3, <2>4
<1>11. CASE HdEnable
  <2>a. /\ noe' = FALSE /\ UNCHANGED <<clk, clkNoe, dir, pad, out, phase, n, rnw, ack, conf>>
        /\ UNCHANGED <<tstate, tedge>> /\ at = "hdEnable"
    BY <1>11 DEF HdEnable, Go, target
  <2>b. \/ phase = "setup" /\ at' = "clkOn"
        \/ phase \in {"wdata", "idle", "park"} /\ at' = "out"
        \/ phase = "dummy" /\ at' = "low"
    BY <1>11 DEF HdEnable, Go, Begin
  <2>c. dir /\ pad /\ (clkNoe => phase = "setup")
    BY <2>a DEF PinsPlaced
  <2>d. noe' \in BOOLEAN /\ ~noe' /\ dir' /\ pad' /\ (clkNoe' => clkNoe)
    BY <2>a, <2>c, Zenon
  <2>1. TypeOK'
    BY <2>a, <2>b, <2>d
  <2>4. Placed' /\ StartBit'
    BY <1>11  DEF StartBit, HdEnable, target, Begin, Go
  <2>2. PinsPlaced'
    BY <2>a, <2>b, <2>c, <2>d DEF PinsPlaced
  <2>3. InStep'
    BY <1>11, CyclesTypes DEF Cycles, InStep, AckAt, DataAt, HasData, Transfer, HdEnable,
       target, Begin, Go
  <2> QED
    BY <2>1, <2>2, <2>3, <2>4
<1>12. CASE WriteOut
  <2>1. TypeOK'
    BY <1>12 DEF WriteOut, target, Bit, Go
  <2>4. Placed' /\ StartBit'
    BY <1>12  DEF StartBit, WriteOut, target, Bit, Go
  <2>2. PinsPlaced'
    BY <1>12 DEF PinsPlaced, WriteOut, target, Bit, Go
  <2>3. InStep'
    BY <1>12, CyclesTypes DEF Cycles, InStep, AckAt, DataAt, HasData, Transfer, WriteOut,
       target, Bit, Go
  <2> QED
    BY <2>1, <2>2, <2>3, <2>4
<1>13. CASE Park
  <2>1. TypeOK'
    BY <1>13 DEF Park, target, Go
  <2>4. Placed' /\ StartBit'
    BY <1>13  DEF StartBit, Park, target, Go
  <2>2. PinsPlaced'
    BY <1>13 DEF PinsPlaced, Park, target, Go
  <2>3. InStep'
    BY <1>13, CyclesTypes DEF Cycles, InStep, AckAt, DataAt, HasData, Transfer, Park,
       target, Go
  <2> QED
    BY <2>1, <2>2, <2>3, <2>4
<1>14. CASE Fall
  <2>a. /\ clk' = FALSE /\ UNCHANGED <<clkNoe, noe, dir, pad, out, phase, n, rnw, ack, conf>>
        /\ UNCHANGED <<tstate, tedge>> /\ at' \in {"sample", "high"}
    BY <1>14 DEF Fall, Go, target
  <2>b. clk' \in BOOLEAN
    BY <2>a, Zenon
  <2>1. TypeOK'
    BY <2>a, <2>b
  <2>4. Placed' /\ StartBit'
    BY <1>14  DEF StartBit, Fall, target, Go
  <2>2. PinsPlaced'
    BY <1>14 DEF PinsPlaced, Fall, target, Go
  <2>3. InStep'
    BY <1>14, CyclesTypes DEF Cycles, InStep, AckAt, DataAt, HasData, Transfer, Fall,
       target, Go
  <2> QED
    BY <2>1, <2>2, <2>3, <2>4
<1>15. CASE Sample
  <2>1. TypeOK'
    BY <1>15 DEF Sample, pins, target
  <2>4. Placed' /\ StartBit'
    BY <1>15  DEF StartBit, Sample, pins, target
  <2>2. PinsPlaced'
    BY <1>15 DEF PinsPlaced, Sample, pins, target
  <2>3. InStep'
    BY <1>15, CyclesTypes DEF Cycles, InStep, AckAt, DataAt, HasData, Transfer, Sample,
       pins, target
  <2> QED
    BY <2>1, <2>2, <2>3, <2>4
<1>16. CASE Rise
  BY <1>16, RiseIInv
<1>17. CASE ClkOn
  <2>1. TypeOK'
    BY <1>17 DEF ClkOn, target, Enter
  <2>4. Placed' /\ StartBit'
    BY <1>17  DEF StartBit, ClkOn, target, Enter
  <2>2. PinsPlaced'
    BY <1>17 DEF PinsPlaced, ClkOn, target, Enter
  <2>3. InStep'
    BY <1>17, CyclesTypes DEF Cycles, InStep, AckAt, DataAt, HasData, Transfer, ClkOn,
       target, Enter
  <2> QED
    BY <2>1, <2>2, <2>3, <2>4
<1>18. CASE OffClk
  <2>1. TypeOK'
    BY <1>18 DEF OffClk, target, Go
  <2>4. Placed' /\ StartBit'
    BY <1>18  DEF StartBit, OffClk, target, Go
  <2>2. PinsPlaced'
    BY <1>18 DEF PinsPlaced, OffClk, target, Go
  <2>3. InStep'
    BY <1>18, CyclesTypes DEF Cycles, InStep, AckAt, DataAt, HasData, Transfer, OffClk,
       target, Go
  <2> QED
    BY <2>1, <2>2, <2>3, <2>4
<1>19. CASE OffIsolate
  <2>1. TypeOK'
    BY <1>19 DEF OffIsolate, target, Go
  <2>4. Placed' /\ StartBit'
    BY <1>19  DEF StartBit, OffIsolate, target, Go
  <2>2. PinsPlaced'
    BY <1>19 DEF PinsPlaced, OffIsolate, target, Go
  <2>3. InStep'
    BY <1>19, CyclesTypes DEF Cycles, InStep, AckAt, DataAt, HasData, Transfer, OffIsolate,
       target, Go
  <2> QED
    BY <2>1, <2>2, <2>3, <2>4
<1>20. CASE OffRelease
  <2>1. TypeOK'
    BY <1>20 DEF OffRelease, target, Go
  <2>4. Placed' /\ StartBit'
    BY <1>20  DEF StartBit, OffRelease, target, Go
  <2>2. PinsPlaced'
    BY <1>20 DEF PinsPlaced, OffRelease, target, Go
  <2>3. InStep'
    BY <1>20, CyclesTypes DEF Cycles, InStep, AckAt, DataAt, HasData, Transfer, OffRelease,
       target, Go
  <2> QED
    BY <2>1, <2>2, <2>3, <2>4
<1>21. CASE OffTurn
  <2>1. TypeOK'
    BY <1>21 DEF OffTurn, target, Go
  <2>4. Placed' /\ StartBit'
    BY <1>21  DEF StartBit, OffTurn, target, Go
  <2>2. PinsPlaced'
    BY <1>21 DEF PinsPlaced, OffTurn, target, Go
  <2>3. InStep'
    BY <1>21, CyclesTypes DEF Cycles, InStep, AckAt, DataAt, HasData, Transfer, OffTurn,
       target, Go
  <2> QED
    BY <2>1, <2>2, <2>3, <2>4
<1>22. CASE OffClkNoe
  <2>1. TypeOK'
    BY <1>22 DEF OffClkNoe, target, Go
  <2>4. Placed' /\ StartBit'
    BY <1>22  DEF StartBit, OffClkNoe, target, Go
  <2>2. PinsPlaced'
    BY <1>22 DEF PinsPlaced, OffClkNoe, target, Go
  <2>3. InStep'
    BY <1>22, CyclesTypes DEF Cycles, InStep, AckAt, DataAt, HasData, Transfer, OffClkNoe,
       target, Go
  <2> QED
    BY <2>1, <2>2, <2>3, <2>4
<1>23. CASE SWD_Transfer
  <2>1. TypeOK'
    BY <1>23 DEF SWD_Transfer, pins, target, Begin, Enter, Continue
  <2>4. Placed' /\ StartBit'
    BY <1>23  DEF StartBit, SWD_Transfer, pins, target, Begin, Enter, Continue
  <2>2. PinsPlaced'
    BY <1>23 DEF PinsPlaced, SWD_Transfer, pins, target, Begin, Enter, Continue
  <2>3. InStep'
    BY <1>23, CyclesTypes DEF Cycles, InStep, AckAt, DataAt, HasData, Transfer,
       SWD_Transfer, pins, target, Begin, Enter, Continue
  <2> QED
    BY <2>1, <2>2, <2>3, <2>4
<1>24. CASE SWJ_Sequence
  <2>1. TypeOK'
    BY <1>24, CyclesTypes DEF Cycles, SWJ_Sequence, pins, target, Begin, Enter, Continue
  <2>4. Placed' /\ StartBit'
    BY <1>24 , CyclesTypes DEF StartBit, Cycles, SWJ_Sequence, pins, target, Begin, Enter,
       Continue
  <2>2. PinsPlaced'
    BY <1>24 DEF PinsPlaced, SWJ_Sequence, pins, target, Begin, Enter, Continue
  <2>3. InStep'
    BY <1>24, CyclesTypes DEF Cycles, InStep, AckAt, DataAt, HasData, Transfer,
       SWJ_Sequence, pins, target, Begin, Enter, Continue
  <2> QED
    BY <2>1, <2>2, <2>3, <2>4
<1>25. CASE SWD_Configure
  <2>1. TypeOK'
    BY <1>25 DEF SWD_Configure, pins, target, Configs
  <2>4. Placed' /\ StartBit'
    BY <1>25  DEF StartBit, SWD_Configure, pins, target, Configs
  <2>2. PinsPlaced'
    BY <1>25 DEF PinsPlaced, SWD_Configure, pins, target, Configs
  <2>3. InStep'
    BY <1>25, CyclesTypes DEF Cycles, InStep, AckAt, DataAt, HasData, Transfer,
       SWD_Configure, pins, target, Configs
  <2> QED
    BY <2>1, <2>2, <2>3, <2>4
<1>26. CASE Setup
  <2>1. TypeOK'
    BY <1>26 DEF Setup, pins, target, Enter, TurnToHost
  <2>4. Placed' /\ StartBit'
    BY <1>26  DEF StartBit, Setup, pins, target, Enter, TurnToHost
  <2>2. PinsPlaced'
    BY <1>26 DEF PinsPlaced, Setup, pins, target, Enter, TurnToHost
  <2>3. InStep'
    BY <1>26, CyclesTypes DEF Cycles, InStep, AckAt, DataAt, HasData, Transfer, Setup, pins,
       target, Enter, TurnToHost
  <2> QED
    BY <2>1, <2>2, <2>3, <2>4
<1>27. CASE Off
  <2>1. TypeOK'
    BY <1>27 DEF Off, pins, target, Go
  <2>4. Placed' /\ StartBit'
    BY <1>27  DEF StartBit, Off, pins, target, Go
  <2>2. PinsPlaced'
    BY <1>27 DEF PinsPlaced, Off, pins, target, Go
  <2>3. InStep'
    BY <1>27, CyclesTypes DEF Cycles, InStep, AckAt, DataAt, HasData, Transfer, Off, pins,
       target, Go
  <2> QED
    BY <2>1, <2>2, <2>3, <2>4
<1> QED
  BY <1>0, <1>1, <1>2, <1>3, <1>4, <1>5, <1>6, <1>7, <1>8, <1>9, <1>10, <1>11, <1>12, <1>13,
     <1>14, <1>15, <1>16, <1>17, <1>18, <1>19, <1>20, <1>21, <1>22, <1>23, <1>24, <1>25,
     <1>26, <1>27
     DEF Next, Run, Call, Handoff, Clocking, PortOff

\* The strengthened invariant: pins, phases and the edges counted agree.
THEOREM SpecIInv == Spec => []IInv
BY InitIInv, NextIInv, PTL DEF Spec

\* Every variable keeps its type.
THEOREM SpecTypeOK == Spec => []TypeOK
<1>1. IInv => TypeOK
  BY DEF IInv
<1> QED
  BY <1>1, SpecIInv, PTL

\* The translator never meets the pad as an output, nor drives a floating
\* input onto the target.
THEOREM SpecPadMatchesTranslator == Spec => []PadMatchesTranslator
<1>1. IInv => PadMatchesTranslator
  BY DEF IInv, TypeOK, PinsPlaced, PadMatchesTranslator, Bits, ToTarget, ToHost, Offs
<1> QED
  BY <1>1, SpecIInv, PTL

\* No handoff and no port-off leaves SWCLK high on a live clock line.
THEOREM SpecIsolatedClockLow == Spec => []IsolatedClockLow
<1>1. IInv => IsolatedClockLow
  BY DEF IInv, TypeOK, PinsPlaced, IsolatedClockLow, Bits, ToTarget, ToHost, Offs
<1> QED
  BY <1>1, SpecIInv, PTL

\* Host and target never drive the wire together.
LEMMA IInvNoBusClash == IInv => NoBusClash
<1> SUFFICES ASSUME IInv, HostDrives, TargetDrives PROVE FALSE
  BY DEF NoBusClash
<1>1. Cycles
  BY CyclesTypes
<1>2. tstate \in Acks /\ tedge >= AckAt /\ tedge < DataAt + (IF rnw /\ HasData THEN DataBits ELSE 0)
  BY DEF TargetDrives
<1>3. n \in Nat /\ tedge \in Nat /\ (phase \notin {"park", "setup"} => n >= 1)
  BY DEF IInv, TypeOK, Placed
<1>4. phase \in HostTurn \union {"trnAck", "setup"}
  BY DEF IInv, TypeOK, PinsPlaced, Placed, HostDrives, Bits, ToTarget, ToHost, Offs,
     HostTurn
<1>5. InStep
  BY DEF IInv
<1>6. CASE phase = "trnAck"
  BY <1>1, <1>2, <1>3, <1>5, <1>6 DEF InStep, Cycles, AckAt, DataAt, Acks
<1>7. CASE phase \in {"wdata", "dummy"}
  BY <1>1, <1>2, <1>3, <1>5, <1>7 DEF InStep, Cycles, AckAt, DataAt, HasData, Transfer, Acks
<1>8. CASE phase \in {"request", "idle", "park", "swj", "setup"}
  BY <1>2, <1>5, <1>8 DEF InStep, Acks
<1> QED
  BY <1>4, <1>6, <1>7, <1>8 DEF HostTurn

\* Host and target never drive the wire together, in any reachable state.
THEOREM SpecNoBusClash == Spec => []NoBusClash
BY SpecIInv, IInvNoBusClash, PTL

\* A call leaves the target between transfers, for every length of the
\* turnaround, every answer and every data phase.
THEOREM SpecInSync == Spec => []InSync
<1>1. IInv => InSync
  BY DEF IInv, Placed, InStep, InSync, Offs, Acks
<1> QED
  BY <1>1, SpecIInv, PTL

\* Every bit is read at the edge at which its sender has it on the wire.
THEOREM SpecBitsAligned == Spec => []BitsAligned
<1>1. IInv => BitsAligned
  <2> SUFFICES ASSUME IInv PROVE BitsAligned
    OBVIOUS
  <2>1. Cycles /\ InStep /\ n \in Nat /\ tedge \in Nat
    BY CyclesTypes DEF IInv, TypeOK
  <2>2. at \in {"sample", "high"} => n >= 1 /\ phase \notin {"park", "setup"}
    BY DEF IInv, Placed
  <2>3. at = "sample" /\ phase = "ack" /\ tstate \in Acks => TargetDrives /\ tedge + n = DataAt
    <3> SUFFICES ASSUME at = "sample", phase = "ack", tstate \in Acks
                 PROVE  TargetDrives /\ tedge + n = DataAt
      OBVIOUS
    <3> QED
      BY <2>1, <2>2 DEF InStep, TargetDrives, Cycles, AckAt, DataAt, Acks
  <2>4. at = "sample" /\ phase = "rdata" /\ tstate \in Acks =>
          tstate = "OK" /\ TargetDrives /\ tedge + n = DataAt + DataBits
    BY <2>1, <2>2 DEF InStep, TargetDrives, Cycles, AckAt, DataAt, HasData, Acks
  <2>5. at = "high" /\ TargetSamples /\ ack # "bad" => phase = "wdata" /\ tedge + n = Transfer
    BY <2>1, <2>2 DEF InStep, TargetSamples, Cycles, AckAt, DataAt, Acks
  <2>6. at = "high" /\ phase = "wdata" => HostDrives
    BY DEF IInv, PinsPlaced, HostDrives, Bits, HostTurn
  <2> QED
    BY <2>3, <2>4, <2>5, <2>6 DEF BitsAligned
<1> QED
  BY <1>1, SpecIInv, PTL

\* DIR1 changes only behind the isolated translator.
THEOREM SpecDirOnlyIsolated == Spec => DirOnlyIsolated
<1>1. IInv /\ [Next]_vars => [dir' # dir => noe /\ noe' /\ ~pad /\ ~pad' /\ ~clk]_vars
  <2> SUFFICES ASSUME IInv, Next, dir' # dir PROVE noe /\ noe' /\ ~pad /\ ~pad' /\ ~clk
    BY DEF vars
  <2>1. TdTurn \/ HdTurn \/ OffTurn
    BY DEF Next, Run, Call, Handoff, Clocking, PortOff, TdClk, TdIsolate, TdRelease,
       TdEnable,
           HdClk, HdIsolate, HdPreload, HdPad, HdEnable, WriteOut, Park, Fall, Sample, Rise, ClkOn,
           OffClk, OffIsolate, OffRelease, OffClkNoe, Off, SWD_Transfer, SWJ_Sequence,
           SWD_Configure, Setup, pins
  <2>2. at = "tdTurn" \/ at = "hdTurn" \/ at = "offTurn"
    BY <2>1 DEF TdTurn, HdTurn, OffTurn, Go
  <2>3. noe' = noe /\ pad' = pad
    BY <2>1 DEF TdTurn, HdTurn, OffTurn
  <2>4. noe /\ ~clk
    BY <2>2 DEF IInv, PinsPlaced
  <2>5. at = "hdTurn" => ~pad
    <3>1. at = "hdTurn" => dir' = TRUE
      BY <2>1 DEF TdTurn, HdTurn, OffTurn, Go
    <3>2. at = "hdTurn" => ~dir
      BY <3>1, Zenon DEF IInv, TypeOK
    <3>3. at = "hdTurn" => (pad <=> dir)
      BY DEF IInv, PinsPlaced
    <3> QED
      BY <3>2, <3>3, Zenon
  <2>6. at \in {"tdTurn", "offTurn"} => ~pad
    BY DEF IInv, PinsPlaced
  <2>7. ~pad
    BY <2>2, <2>5, <2>6
  <2> QED
    BY <2>3, <2>4, <2>7, Zenon
<1> QED
  BY <1>1, SpecIInv, PTL DEF Spec, DirOnlyIsolated

\* The target that answered is not lost by the host's clocks.
THEOREM SpecStaysInStep == Spec => StaysInStep
<1> DEFINE Kept == tstate' = "lost" /\ tstate \notin {"request", "lost"}
                     => phase = "backoff" \/ phase = "swj"
<1>1. IInv /\ [Next]_vars => [Kept]_vars
  <2> SUFFICES ASSUME IInv, Next, tstate' = "lost", tstate \notin {"request", "lost"},
                      phase # "swj"
               PROVE  phase = "backoff"
    BY DEF vars
  <2>1. Rise /\ TargetEdge
    BY DEF Next, Run, Call, Handoff, Clocking, PortOff, TdClk, TdIsolate, TdRelease, TdTurn,
       TdEnable,
           HdClk, HdIsolate, HdTurn, HdPreload, HdPad, HdEnable, WriteOut, Park, Fall, Sample, Rise,
           ClkOn, OffClk, OffIsolate, OffRelease, OffTurn, OffClkNoe, Off, SWD_Transfer,
           SWJ_Sequence, SWD_Configure, Setup, pins, target
  <2>2. tstate = "idle" /\ ~HostDrives
    BY <2>1 DEF TargetEdge, Counts, target, Acks
  <2>3. at = "high" /\ phase \notin HostTurn
    BY <2>1, <2>2 DEF Rise, IInv, PinsPlaced, HostDrives, Bits
  <2> QED
    BY <2>2, <2>3 DEF IInv, InStep, Placed, Acks, HostTurn
<1> QED
  BY <1>1, SpecIInv, PTL DEF Spec, StaysInStep

\* The wire as BusTurns has it: SwdioBus implements one driver at a time with
\* a release between two drivers.
THEOREM SpecTurns == Spec => TurnsSpec
<1>1. Init => Turns!Init
  BY DEF Init, Turns!Init, Driver, HostDrives, TargetDrives, Acks
<1>2. NoBusClash /\ NoBusClash' /\ [Next]_vars => [Turns!Next]_Driver
  <2> SUFFICES ASSUME NoBusClash, NoBusClash', [Next]_vars, Driver' # Driver
               PROVE  Turns!Next
    BY DEF Turns!Next
  <2>2. UNCHANGED <<noe, dir>> \/ UNCHANGED <<target, conf, rnw>>
    BY DEF Next, Run, Call, Handoff, Clocking, PortOff, TdClk, TdIsolate, TdRelease, TdTurn,
       TdEnable,
           HdClk, HdIsolate, HdTurn, HdPreload, HdPad, HdEnable, WriteOut, Park, Fall, Sample, Rise,
           ClkOn, OffClk, OffIsolate, OffRelease, OffTurn, OffClkNoe, Off, SWD_Transfer,
           SWJ_Sequence, SWD_Configure, Setup, pins, target, vars, host, Go, Enter, Continue,
           TurnToHost
  <2>3. (HostDrives' <=> HostDrives) \/ (TargetDrives' <=> TargetDrives)
    BY <2>2 DEF HostDrives, TargetDrives, target, AckAt, DataAt, HasData
  <2>4. Driver' \in {"none", "host", "target"} /\ (Driver' = "none" \/ Driver = "none")
    BY <2>3, Zenon DEF Driver, NoBusClash
  <2> QED
    BY <2>4 DEF Turns!Next, Turns!Release, Turns!Drive, Turns!Drivers
<1> QED
  BY <1>1, <1>2, SpecNoBusClash, PTL DEF Spec, TurnsSpec, Turns!Spec
=============================================================================
