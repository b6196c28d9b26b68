---------------------------- MODULE SpiBus_proofs ----------------------------
(***************************************************************************)
(* Proofs about SpiBus, for any turnarounds, lengths and either alignment: *)
(* the clocks the engine has made in a phase and the edges the target has  *)
(* counted are the same number, so that the samples of an answer and of a  *)
(* read are the bits meant, a target that follows a transfer is never left *)
(* in the middle of one, and the wire changes hands as the protocol says.  *)
(***************************************************************************)
EXTENDS SpiBus, SequenceTheorems, TLAPS

Transfers == {"request", "ack", "rdata", "wdata", "skip", "zero", "backoff",
              "readBack", "idle", "giveback"}
OneBurst  == {"ack", "rdata", "wdata", "skip", "zero", "backoff"}

\* Where the CPU is in a call, and what is routed there.
PlaceInv ==
  /\ at = "ready" => phase \notin Listens \union {"request", "dout"}
  /\ at \in {"start", "clock"} => phase \in Sends \union Listens
  /\ at = "sequence" => phase \in {"none", "din", "dout"}
  /\ at \in {"turn", "next"} => phase \notin {"none", "off"}
  /\ phase \in Transfers => cs
  /\ cs /\ (phase = "setup" => at = "ready") => ~clkNoe

\* The clocks of a phase: the data phases and the answer are one transaction each.
CountInv ==
  /\ at # "clock" => clocks = 0 /\ done = 0
  /\ at = "turn" => left = Bits(phase)
  /\ at \in {"start", "clock"} => left + clocks <= Bits(phase)
  /\ at = "next" => left = 0
  /\ phase \in OneBurst => /\ at = "start" => left = Bits(phase)
                           /\ at = "clock" => left = 0 /\ clocks = Bits(phase)
  /\ Len(got) = IF phase \in Listens THEN done ELSE 0

\* The pad and DIR1 are turned together, before the phase that needs them turned,
\* and the translator is enabled inside a transaction only.
WireInv ==
  /\ pad = dir
  /\ noe <=> ~(at = "clock" /\ cs)
  /\ phase \in Listens /\ (at # "turn" \/ phase \notin {"ack", "din"}) => ~dir
  /\ cs => /\ at = "ready" => dir
           /\ phase \in {"request", "idle", "swj"} => dir
           /\ at = "sequence" /\ phase = "none" => dir
           /\ at # "turn" /\ phase \in {"wdata", "zero", "dout"} \union Turns => dir
  /\ phase = "request" => idleLevel = 1
  /\ phase = "wdata" /\ at \in {"start", "clock"} => idleLevel = Data(1)
  /\ at = "clock" /\ done = 0 /\ phase \in Sends => idleLevel = Bit(phase, 1)

\* Clocks the phase has made, and the edge of the target a transfer ends at.
Made == (Bits(phase) - left) - (clocks - done)
End  == DataAt + conf.trn + (IF said = "OK" \/ conf.dataPhase THEN DataBits ELSE 0)

\* The target counts the clocks of the call, from edge `base` on.
Follows(base) ==
  \/ tstate = "lost" /\ said = "none"
  \/ /\ said \in Acks
     /\ \/ tstate = said /\ tedge = base + Made /\ base + Made < End
        \/ tstate = "idle" /\ base + Made = End

Asked ==
  \/ said = "none" /\ \/ tstate = "lost"
                      \/ tstate = "idle" /\ Made = 0
                      \/ tstate = "request" /\ tedge = Made /\ Made \in 1..7
  \/ said \in Acks /\ tstate = said /\ tedge = 8 /\ Made = 8

EdgeInv ==
  /\ phase = "request" => Asked
  /\ phase = "ack" => Follows(8)
  /\ phase = "backoff" => tstate = "lost" \/ Follows(DataAt + conf.trn)
  /\ phase \in {"rdata", "wdata", "skip", "zero"} /\ at # "ready"
       => Follows(DataAt + conf.trn)
  /\ phase \notin {"request"} \union OneBurst \/ at = "ready" => tstate \in {"idle", "lost"}

\* What the CPU has made of the answer.
AckInv ==
  /\ phase = "ack" /\ at = "next" /\ said # "none" => ack \in {said, "bad"}
  /\ phase \in {"rdata", "wdata"} /\ at # "ready" => said \in {"OK", "none"}
  /\ phase = "rdata" => rnw
  /\ phase = "wdata" /\ at # "ready" => ~rnw
  /\ phase \in {"skip", "zero"} /\ at # "ready" => conf.dataPhase
  /\ phase = "zero" /\ at # "ready" => ~rnw

\* The sample of clock k, counted from edge `base`, where the target drives.
Edge(base, k) == IF standard THEN base + k - 1 ELSE base + k
Driven(e) == /\ AckAt <= e
             /\ e < DataAt + (IF rnw /\ (said = "OK" \/ conf.dataPhase) THEN DataBits ELSE 0)
Samples(s, base) ==
  \A k \in 1..Len(s) : Driven(Edge(base, k)) => s[k] = Edge(base, k)

SampleInv ==
  /\ phase = "ack" /\ said # "none" => Samples(got, 8)
  /\ phase = "rdata" /\ said # "none" => Samples(got, DataAt + conf.trn)
  /\ (phase = "ack" /\ at = "next") \/ phase = "rdata"
       => /\ Len(response) = 2 * conf.trn + 3
          /\ said # "none" => Samples(response, 8)

\* Every bit of write data the host has clocked out the target has taken.
TookInv ==
  /\ phase \in {"request", "ack"} => took = 0
  /\ phase = "wdata" /\ at # "ready" /\ said # "none" => took = Made

\* What OK stands for once the data phase is over.
Verdict == IF at = "ready" THEN result ELSE ack
DataDone == \/ phase \in {"readBack", "idle"}
            \/ phase = "wdata" /\ at \in {"next", "ready"}
            \/ phase = "rdata" /\ at = "next"
ExactInv ==
  DataDone /\ Verdict = "OK" /\ said # "none" =>
    /\ said = "OK"
    /\ IF rnw THEN Append(value, parity) = [k \in 1..DataBits |-> DataAt + k - 1]
              ELSE took = DataBits

IInv == /\ TypeOK /\ PlaceInv /\ CountInv /\ WireInv
        /\ EdgeInv /\ AckInv /\ SampleInv /\ TookInv /\ ExactInv

\* The parts of TypeOK.
PinTypes ==
  /\ standard \in BOOLEAN
  /\ cs \in BOOLEAN /\ noe \in BOOLEAN /\ dir \in BOOLEAN /\ pad \in BOOLEAN
  /\ clkNoe \in BOOLEAN /\ idleLevel \in Labels
BurstTypes == clocks \in 0..PhaseBits /\ done \in 0..clocks /\ got \in Seq(Nat)
CpuTypes ==
  /\ at \in {"ready", "turn", "start", "clock", "next", "sequence"}
  /\ phase \in Phases /\ left \in Nat /\ rest \in Seq({"din", "dout"})
AnswerTypes ==
  /\ response \in Seq(Nat) /\ ack \in Acks \union {"bad", "ERROR"}
  /\ value \in Seq(Nat) /\ parity \in Nat
  /\ result \in Acks \union {"bad", "ERROR", "done", "none"}

\* TypeOK in its parts.
LEMMA Parts == TypeOK <=> TargetTypes /\ PinTypes /\ BurstTypes /\ CpuTypes /\ AnswerTypes
BY Zenon DEF TypeOK, PinTypes, BurstTypes, CpuTypes, AnswerTypes

-----------------------------------------------------------------------------
\* The lengths are numbers; the data phases and the answer fit in a transaction.
LEMMA Lengths == /\ DataBits \in Nat /\ DataBits >= 1
                 /\ PhaseBits \in Nat /\ PhaseBits >= DataBits
                 /\ SequenceBits \in Nat /\ SequenceBits >= 1
BY CyclesAssumption, SpiAssumption

\* The members of the two constant sets are numbers.
LEMMA TurnaroundTypes ==
  ASSUME NEW t \in Turnarounds
  PROVE  t \in Nat /\ t >= 1 /\ PhaseBits >= 2 * t + 3 /\ DataBits >= t + 2
BY CyclesAssumption, SpiAssumption

\* The same of the idle cycles.
LEMMA IdleTypes == ASSUME NEW i \in IdleCycles PROVE i \in Nat
BY CyclesAssumption

\* The lengths that are configured.
LEMMA Configured ==
  ASSUME TargetTypes
  PROVE  /\ conf.trn \in Nat /\ conf.trn >= 1 /\ conf.idle \in Nat
         /\ conf.dataPhase \in BOOLEAN
         /\ PhaseBits >= 2 * conf.trn + 3 /\ DataBits >= conf.trn + 2
<1>1. conf.trn \in Turnarounds /\ conf.idle \in IdleCycles /\ conf.dataPhase \in BOOLEAN
  BY DEF TargetTypes, Configs
<1> QED
  BY <1>1, TurnaroundTypes, IdleTypes

\* A phase has so many clocks.
LEMMA BitsTypes == ASSUME TargetTypes, NEW p PROVE Bits(p) \in Nat
BY Configured, Lengths DEF Bits

\* The levels of a phase are labels.
LEMMA LevelTypes ==
  ASSUME NEW p \in Phases, NEW k \in Nat
  PROVE  /\ {0, 1} \subseteq Labels /\ First(p) \in Labels
         /\ p \in Sends /\ p # "wdata" => Bit(p, k) \in Labels
<1>1. {0, 1, 2} \subseteq Labels
  BY DEF Labels, Levels
<1>2. Data(1) \in Labels
  BY Lengths DEF Labels
<1> QED
  BY <1>1, <1>2 DEF First, Bit, Sends

-----------------------------------------------------------------------------
\* What the host makes of the samples of an answer is an answer,
LEMMA AckTypes == ASSUME TargetTypes, NEW b PROVE AckOf(b) \subseteq Acks \union {"bad"}
BY DEF AckOf, TargetTypes

\* and the right one, if the samples are those of the target's ACK.
LEMMA AckIsRead ==
  ASSUME IInv, at = "clock", done = clocks, phase = "ack", said # "none"
  PROVE  AckOf(SubSeq(got, AckShift + 1, AckShift + 3)) \subseteq {said, "bad"}
<1>0. TargetTypes /\ BurstTypes /\ CountInv /\ SampleInv /\ standard \in BOOLEAN
  BY Zenon, Parts DEF IInv, PinTypes
<1> DEFINE t == conf.trn
           A == AckShift
<1>1. t \in Nat /\ t >= 1
  BY <1>0, Configured
<1>2. (standard /\ A = t) \/ (~standard /\ A = t - 1)
  BY <1>0 DEF AckShift
<1>3. got \in Seq(Nat) /\ Len(got) = 2 * t + 3
  BY <1>0 DEF BurstTypes, CountInv, OneBurst, Listens, Bits
<1> HIDE DEF t, A
<1>4. \A k \in 1..3 : A + k \in 1..Len(got) /\ got[A + k] = 8 + t + k - 1
  <2> TAKE k \in 1..3
  <2>1. A + k \in 1..Len(got)
    BY <1>1, <1>2, <1>3
  <2>2. Edge(8, A + k) = 8 + t + k - 1
    BY <1>0, <1>1, <1>2 DEF Edge
  <2>3. Driven(Edge(8, A + k))
    <3>1. AckAt = 8 + t /\ DataAt = 8 + t + 3
      BY <1>1 DEF AckAt, DataAt, t
    <3>2. \A e \in Nat : AckAt <= e /\ e < DataAt => Driven(e)
      BY <1>1, <3>1, Lengths DEF Driven
    <3> QED
      BY <1>1, <2>2, <3>1, <3>2
  <2>4. Samples(got, 8)
    BY <1>0 DEF SampleInv
  <2> QED
    BY <2>1, <2>2, <2>3, <2>4 DEF Samples
<1>5. SubSeq(got, A + 1, A + 3) = [k \in 1..3 |-> AckAt + k - 1]
  <2> DEFINE s == SubSeq(got, A + 1, A + 3)
             r == [k \in 1..3 |-> AckAt + k - 1]
  <2>1. A \in Int /\ AckAt = 8 + t
    BY <1>0, <1>1, <1>2 DEF AckAt, t
  <2>2. \A i \in (A + 1)..(A + 3) : got[i] \in Nat
    BY <1>1, <1>2, <1>3
  <2>3. s \in Seq(Nat) /\ Len(s) = 3 /\ \A i \in 1..3 : s[i] = got[A + i]
    <3>1. A + 1 \in Int /\ A + 3 \in Int /\ (A + 3) - (A + 1) + 1 = 3 /\ A + 1 <= A + 3
      BY <2>1
    <3>2. /\ s \in Seq(Nat)
          /\ Len(s) = IF A + 1 <= A + 3 THEN (A + 3) - (A + 1) + 1 ELSE 0
          /\ \A i \in 1..((A + 3) - (A + 1) + 1) : s[i] = got[A + 1 + i - 1]
      BY <2>2, <3>1, SubSeqProperties
    <3>3. \A i \in 1..3 : A + 1 + i - 1 = A + i
      BY <2>1
    <3>4. \A i \in 1..3 : s[i] = got[A + 1 + i - 1]
      BY <3>1, <3>2
    <3> HIDE DEF s
    <3> QED
      BY <3>1, <3>2, <3>3, <3>4
  <2>4. r \in Seq(Nat) /\ Len(r) = 3 /\ \A i \in 1..3 : r[i] = 8 + t + i - 1
    BY <1>1, <2>1
  <2> HIDE DEF s, r
  <2>5. \A i \in 1..3 : s[i] = r[i]
    BY <1>4, <2>3, <2>4
  <2>6. s = r
    BY <2>3, <2>4, <2>5, SeqEqual
  <2> QED
    BY <2>6 DEF s, r
<1> QED
  BY <1>5 DEF AckOf, A

\* The parts of a read: some bits came with the answer, the rest after it.
LEMMA ReadParts ==
  ASSUME IInv, at = "clock", done = clocks, phase = "rdata"
  PROVE  /\ ReadValue \in Seq(Nat) /\ Len(ReadValue) = DataBits - 1
         /\ PrefixCount \in 1..(DataBits - 1) /\ AckShift \in Nat
         /\ AckShift + 3 + PrefixCount = Len(response)
         /\ ParityShift + 1 = DataBits - PrefixCount /\ Len(got) = DataBits
         /\ \A k \in 1..(DataBits - 1) :
              ReadValue[k] = IF k <= PrefixCount THEN response[AckShift + 3 + k]
                                                 ELSE got[k - PrefixCount]
<1>0. /\ TargetTypes /\ BurstTypes /\ CountInv /\ SampleInv /\ standard \in BOOLEAN
      /\ response \in Seq(Nat)
  BY Zenon, Parts DEF IInv, PinTypes, AnswerTypes
<1> DEFINE t == conf.trn
           A == AckShift
           P == PrefixCount
           x == SubSeq(response, A + 4, A + 3 + P)
           y == SubSeq(got, 1, DataBits - 1 - P)
<1>1. t \in Nat /\ t >= 1 /\ DataBits >= t + 2 /\ DataBits \in Nat
  BY <1>0, Configured, Lengths
<1>2. got \in Seq(Nat) /\ Len(got) = DataBits /\ Len(response) = 2 * t + 3
  BY <1>0 DEF BurstTypes, CountInv, SampleInv, OneBurst, Listens, Bits
<1>3. A \in Nat /\ P \in 1..(DataBits - 1) /\ A + 3 + P = 2 * t + 3
  <2>1. (standard /\ A = t /\ P = t) \/ (~standard /\ A = t - 1 /\ P = t + 1)
    BY <1>0 DEF AckShift, PrefixCount
  <2> HIDE DEF t, A, P
  <2> QED
    BY <1>1, <2>1
<1>4. ParityShift + 1 = DataBits - P
  BY <1>1, <1>3 DEF ParityShift
<1>5. ReadValue = x \o y
  BY DEF ReadValue
<1> HIDE DEF A, P, t
<1>6. x \in Seq(Nat) /\ Len(x) = P /\ \A k \in 1..P : x[k] = response[A + 3 + k]
  <2>1. \A i \in (A + 4)..(A + 3 + P) : response[i] \in Nat
    BY <1>0, <1>1, <1>2, <1>3
  <2>2. A + 4 \in Int /\ A + 3 + P \in Int /\ A + 4 <= A + 3 + P
    BY <1>1, <1>3
  <2>3. /\ x \in Seq(Nat)
        /\ Len(x) = IF A + 4 <= A + 3 + P THEN (A + 3 + P) - (A + 4) + 1 ELSE 0
        /\ \A i \in 1..((A + 3 + P) - (A + 4) + 1) : x[i] = response[A + 4 + i - 1]
    BY <2>1, <2>2, SubSeqProperties
  <2> HIDE DEF x
  <2>4. (A + 3 + P) - (A + 4) + 1 = P /\ P >= 1 /\ A + 4 <= A + 3 + P
    BY <1>1, <1>3
  <2>5. \A k \in 1..P : A + 4 + k - 1 = A + 3 + k
    BY <1>1, <1>3
  <2>6. Len(x) = P /\ \A k \in 1..P : x[k] = response[A + 4 + k - 1]
    BY <2>3, <2>4
  <2> QED
    BY <2>3, <2>5, <2>6
<1>7. /\ y \in Seq(Nat) /\ Len(y) = DataBits - 1 - P
      /\ \A k \in 1..(DataBits - 1 - P) : y[k] = got[k]
  <2> DEFINE n == DataBits - 1 - P
  <2>1. n \in Nat /\ n <= Len(got)
    BY <1>1, <1>2, <1>3
  <2> HIDE DEF n
  <2>2. \A i \in 1..n : got[i] \in Nat
    BY <1>2, <2>1
  <2>3. /\ y \in Seq(Nat) /\ Len(y) = IF 1 <= n THEN n - 1 + 1 ELSE 0
        /\ \A i \in 1..(n - 1 + 1) : y[i] = got[1 + i - 1]
    BY <2>1, <2>2, SubSeqProperties DEF n
  <2> HIDE DEF y
  <2>4. Len(y) = n /\ \A k \in 1..n : y[k] = got[k]
    BY <2>1, <2>3
  <2> QED
    BY <2>3, <2>4 DEF n
<1> HIDE DEF x, y
<1>8. /\ x \o y \in Seq(Nat) /\ Len(x \o y) = Len(x) + Len(y)
      /\ \A i \in 1..(Len(x) + Len(y)) :
           (x \o y)[i] = IF i <= Len(x) THEN x[i] ELSE y[i - Len(x)]
  BY <1>6, <1>7, ConcatProperties
<1> DEFINE z == x \o y
<1>9. z \in Seq(Nat) /\ Len(z) = DataBits - 1
  BY <1>1, <1>3, <1>6, <1>7, <1>8
<1> HIDE DEF z
<1>10. \A k \in 1..(DataBits - 1) : z[k] = IF k <= P THEN response[A + 3 + k] ELSE got[k - P]
  <2> TAKE k \in 1..(DataBits - 1)
  <2>1. z[k] = IF k <= P THEN x[k] ELSE y[k - P]
    BY <1>1, <1>3, <1>6, <1>7, <1>8 DEF z
  <2> QED
    BY <1>1, <1>3, <1>6, <1>7, <2>1
<1> QED
  BY <1>1, <1>2, <1>3, <1>4, <1>5, <1>9, <1>10 DEF z, A, P

\* They are the bits of the target's data, in either alignment.
LEMMA ReadIsData ==
  ASSUME IInv, at = "clock", done = clocks, phase = "rdata", said = "OK"
  PROVE  Append(ReadValue, got[ParityShift + 1]) = [k \in 1..DataBits |-> DataAt + k - 1]
<1>0. /\ TargetTypes /\ BurstTypes /\ SampleInv /\ AckInv /\ standard \in BOOLEAN
      /\ response \in Seq(Nat)
  BY Zenon, Parts DEF IInv, PinTypes, AnswerTypes
<1> DEFINE t == conf.trn
           A == AckShift
           P == PrefixCount
           v == ReadValue
           g == got[ParityShift + 1]
           r == [k \in 1..DataBits |-> DataAt + k - 1]
<1>1. t \in Nat /\ t >= 1 /\ DataBits >= t + 2 /\ DataBits \in Nat
  BY <1>0, Configured, Lengths
<1>2. /\ v \in Seq(Nat) /\ Len(v) = DataBits - 1 /\ P \in 1..(DataBits - 1) /\ A \in Nat
      /\ A + 3 + P = Len(response) /\ ParityShift + 1 = DataBits - P /\ Len(got) = DataBits
      /\ \A k \in 1..(DataBits - 1) :
           v[k] = IF k <= P THEN response[A + 3 + k] ELSE got[k - P]
  BY ReadParts
<1>3. got \in Seq(Nat) /\ g = got[DataBits - P]
  BY <1>0, <1>2 DEF BurstTypes
<1>4. (standard /\ A = t /\ P = t) \/ (~standard /\ A = t - 1 /\ P = t + 1)
  BY <1>0 DEF AckShift, PrefixCount
<1>5. DataAt = t + 11
  BY <1>1 DEF DataAt, AckAt
<1>6. \A e \in Nat : DataAt <= e /\ e < DataAt + DataBits => Driven(e)
  BY <1>0, <1>1, <1>5 DEF Driven, AckInv, AckAt
<1> HIDE DEF v, g, A, P, t
<1> P \in Nat /\ P >= 1 /\ P <= DataBits - 1
  BY <1>1, <1>2
<1>7. \A k \in 1..P : response[A + 3 + k] = DataAt + k - 1
  <2> TAKE k \in 1..P
  <2>1. A + 3 + k \in 1..Len(response)
    BY <1>1, <1>2
  <2>2. Edge(8, A + 3 + k) = DataAt + k - 1
    BY <1>0, <1>1, <1>2, <1>4, <1>5 DEF Edge
  <2>3. Driven(DataAt + k - 1)
    <3> DEFINE e == DataAt + k - 1
    <3>1. e \in Nat /\ DataAt <= e /\ e < DataAt + DataBits
      BY <1>1, <1>5
    <3> HIDE DEF e
    <3>2. Driven(e)
      BY <1>6, <3>1
    <3> QED
      BY <3>2 DEF e
  <2>4. Samples(response, 8)
    BY <1>0 DEF SampleInv
  <2> QED
    BY <2>1, <2>2, <2>3, <2>4 DEF Samples
<1>8. \A k \in (P + 1)..DataBits : got[k - P] = DataAt + k - 1
  <2> TAKE k \in (P + 1)..DataBits
  <2>1. k - P \in 1..Len(got)
    BY <1>1, <1>2
  <2>2. Edge(DataAt + t, k - P) = DataAt + k - 1
    BY <1>0, <1>1, <1>2, <1>4, <1>5 DEF Edge
  <2>3. Driven(DataAt + k - 1)
    BY <1>1, <1>2, <1>5, <1>6
  <2>4. Samples(got, DataAt + t)
    BY <1>0 DEF SampleInv, t
  <2> QED
    BY <2>1, <2>2, <2>3, <2>4 DEF Samples
<1>9. g \in Nat /\ g = DataAt + DataBits - 1
  <2>1. DataBits \in (P + 1)..DataBits
    BY <1>1, <1>2
  <2>2. g = DataAt + DataBits - 1
    BY <1>3, <1>8, <2>1
  <2> QED
    BY <1>1, <1>5, <2>2
<1>10. \A k \in 1..(DataBits - 1) : v[k] = DataAt + k - 1
  <2> TAKE k \in 1..(DataBits - 1)
  <2>1. v[k] = IF k <= P THEN response[A + 3 + k] ELSE got[k - P]
    BY <1>2
  <2>2. CASE k <= P
    BY <1>1, <1>7, <2>1, <2>2
  <2>3. CASE ~(k <= P)
    <3>1. k \in (P + 1)..DataBits
      BY <1>1, <2>3
    <3> QED
      BY <1>8, <2>1, <2>3, <3>1
  <2> QED
    BY <2>2, <2>3
<1> DEFINE w == Append(v, g)
<1>11. /\ w \in Seq(Nat) /\ Len(w) = DataBits
       /\ \A k \in 1..DataBits : w[k] = IF k = DataBits THEN g ELSE v[k]
  BY <1>1, <1>2, <1>9
<1>12. r \in Seq(Nat) /\ Len(r) = DataBits /\ \A k \in 1..DataBits : r[k] = DataAt + k - 1
  BY <1>1, <1>5
<1> HIDE DEF w, r
<1>13. \A k \in 1..DataBits : w[k] = r[k]
  <2> TAKE k \in 1..DataBits
  <2>1. r[k] = DataAt + k - 1
    BY <1>12
  <2>2. CASE k = DataBits
    BY <1>9, <1>11, <2>1, <2>2
  <2>3. CASE k # DataBits
    <3>1. k \in 1..(DataBits - 1)
      BY <1>1, <2>3
    <3> QED
      BY <1>10, <1>11, <2>1, <2>3, <3>1
  <2> QED
    BY <2>2, <2>3
<1>14. w = r
  BY <1>11, <1>12, <1>13, SeqEqual
<1> QED
  BY <1>14 DEF w, r, v, g

\* The bus is turned before a phase.
LEMMA TurnIInv == IInv /\ Turn => IInv'
<1> SUFFICES ASSUME IInv, Turn PROVE IInv'
  OBVIOUS
<1>0. /\ TypeOK /\ TargetTypes /\ PinTypes /\ BurstTypes /\ CpuTypes /\ AnswerTypes
      /\ PlaceInv /\ CountInv /\ WireInv
      /\ EdgeInv /\ AckInv /\ SampleInv /\ TookInv /\ ExactInv
  BY Zenon, Parts DEF IInv
<1>1. TargetTypes'
  BY <1>0 DEF Turn, TargetTypes, target
<1>2. PinTypes'
  BY <1>0, LevelTypes DEF Turn, TargetDrive, HostDrive, ToHost, PinTypes, Sends, Phases
<1>3. BurstTypes'
  BY <1>0 DEF Turn, BurstTypes, burst
<1>4. CpuTypes'
  BY <1>0 DEF Turn, CpuTypes
<1>5. AnswerTypes'
  BY <1>0 DEF Turn, AnswerTypes, answer
<1>6. PlaceInv'
  BY <1>0 DEF Turn, PlaceInv, CpuTypes, Phases
<1>7. CountInv'
  BY <1>0 DEF Turn, CountInv, CpuTypes, Bits, Turns, burst
<1>8. WireInv'
  <2>0. at = "turn" /\ at' \in {"next", "start"} /\ noe /\ noe' /\ pad = dir
    BY <1>0 DEF Turn, WireInv
  <2>1. CASE ToTarget(phase)
    BY <1>0, <2>0, <2>1 DEF Turn, TargetDrive, ToTarget, ToHost, WireInv, Turns
  <2>2. CASE ToHost(phase)
    BY <1>0, <2>0, <2>2 DEF Turn, HostDrive, ToTarget, ToHost, First, WireInv, Listens,
       Turns
  <2>3. CASE ~ToTarget(phase) /\ ~ToHost(phase)
    BY <1>0, <2>0, <2>3 DEF Turn, ToTarget, ToHost, WireInv
  <2> QED
    BY <2>1, <2>2, <2>3
<1>9. EdgeInv'
  BY <1>0 DEF Turn, EdgeInv, Asked, Follows, End, Made, Bits, AckAt, DataAt, burst, target
<1>10. AckInv'
  BY <1>0 DEF Turn, AckInv, Turns, target
<1>11. SampleInv'
  BY <1>0 DEF Turn, SampleInv, Samples, Edge, Driven, AckAt, DataAt, Turns, burst, answer,
     target
<1>12. TookInv'
  BY <1>0 DEF Turn, TookInv, Made, Bits, burst, target
<1>13. ExactInv'
  BY <1>0 DEF Turn, ExactInv, DataDone, Verdict, DataAt, AckAt, Turns, answer, target
<1>14. TypeOK'
  BY <1>1, <1>2, <1>3, <1>4, <1>5 DEF TypeOK, PinTypes, BurstTypes, CpuTypes, AnswerTypes
<1> QED
  BY Zenon, <1>6, <1>7, <1>8, <1>9, <1>10, <1>11, <1>12, <1>13, <1>14 DEF IInv

\* A transaction takes its clocks from those left of the phase.
LEMMA StartIInv == IInv /\ Start => IInv'
<1> SUFFICES ASSUME IInv, Start PROVE IInv'
  OBVIOUS
<1>0. /\ TypeOK /\ TargetTypes /\ PinTypes /\ BurstTypes /\ CpuTypes /\ AnswerTypes
      /\ PlaceInv /\ CountInv /\ WireInv
      /\ EdgeInv /\ AckInv /\ SampleInv /\ TookInv /\ ExactInv
  BY Zenon, Parts DEF IInv
<1>1. TargetTypes'
  BY <1>0 DEF Start, TargetTypes, target
<1>2. PinTypes'
  BY <1>0, LevelTypes DEF Start, FirstLevel, PinTypes, Phases
<1>3. BurstTypes'
  <2>1. /\ left \in Nat /\ PhaseBits \in Nat /\ clocks' = Chunk /\ done' = 0 /\ got' = <<>>
    BY <1>0, Lengths, Zenon DEF Start, CpuTypes
  <2>2. Chunk \in 0..PhaseBits
    BY <2>1 DEF Chunk
  <2> QED
    BY <2>1, <2>2 DEF BurstTypes
<1>4. CpuTypes'
  BY <1>0, Lengths DEF Start, Chunk, CpuTypes
<1>5. AnswerTypes'
  BY <1>0 DEF Start, AnswerTypes, answer
<1>6. PlaceInv'
  BY <1>0 DEF Start, PlaceInv
<1>7. CountInv'
  BY <1>0, Configured, Lengths DEF Start, Chunk, CountInv, CpuTypes, Bits, OneBurst
<1>8. WireInv'
  BY <1>0 DEF Start, FirstLevel, WireInv, Bit
<1>9. EdgeInv'
  <2>1. Bits(phase) \in Nat /\ Bits(phase)' = Bits(phase)
    BY <1>0, BitsTypes, Zenon DEF Start, Bits
  <2>2. left \in Nat /\ PhaseBits \in Nat /\ clocks = 0 /\ done = 0
    BY <1>0, Lengths DEF Start, CpuTypes, CountInv
  <2>3. Chunk \in Nat
    BY <2>2 DEF Chunk
  <2>4. Made' = Made
    <3> DEFINE B == Bits(phase)
               C == Chunk
    <3>1. B \in Nat /\ C \in Nat /\ B' = B
      BY <2>1, <2>3
    <3>2. left' = left - C /\ clocks' = C /\ done' = 0
      BY DEF Start
    <3>3. Made = (B - left) - (clocks - done) /\ Made' = (B' - left') - (clocks' - done')
      BY Zenon DEF Made
    <3> HIDE DEF B, C
    <3> QED
      BY <2>2, <3>1, <3>2, <3>3
  <2>5. End' = End /\ DataAt' = DataAt
    BY Zenon DEF Start, End, DataAt, AckAt, target
  <2> QED
    BY <1>0, <2>4, <2>5, Zenon DEF EdgeInv, Asked, Follows, Start, target
<1>10. AckInv'
  BY <1>0 DEF Start, AckInv, target
<1>11. SampleInv'
  BY <1>0 DEF Start, SampleInv, Samples, Edge, Driven, AckAt, DataAt, answer, target
<1>12. TookInv'
  BY <1>0, Lengths DEF Start, Chunk, TookInv, Made, Bits, CountInv, CpuTypes, target
<1>13. ExactInv'
  BY <1>0 DEF Start, ExactInv, DataDone, Verdict, DataAt, AckAt, answer, target
<1>14. TypeOK'
  BY <1>1, <1>2, <1>3, <1>4, <1>5 DEF TypeOK, PinTypes, BurstTypes, CpuTypes, AnswerTypes
<1> QED
  BY Zenon, <1>6, <1>7, <1>8, <1>9, <1>10, <1>11, <1>12, <1>13, <1>14 DEF IInv

\* A transaction ends: the samples of the answer are kept, those of a read put together.
LEMMA FinishIInv == IInv /\ Finish => IInv'
<1> SUFFICES ASSUME IInv, Finish PROVE IInv'
  OBVIOUS
<1>0. /\ TypeOK /\ TargetTypes /\ PinTypes /\ BurstTypes /\ CpuTypes /\ AnswerTypes
      /\ PlaceInv /\ CountInv /\ WireInv
      /\ EdgeInv /\ AckInv /\ SampleInv /\ TookInv /\ ExactInv
  BY Zenon, Parts DEF IInv
<1>1. TargetTypes'
  BY <1>0 DEF Finish, TargetTypes, target
<1>2. PinTypes'
  <2>1. clocks \in Nat
    BY <1>0, Lengths DEF BurstTypes
  <2>2. phase \in Phases
    BY <1>0 DEF CpuTypes
  <2> QED
    BY <1>0, <2>1, <2>2, LevelTypes DEF Finish, PinTypes
<1>3. BurstTypes'
  BY <1>0, Lengths DEF Finish, BurstTypes
<1>4. CpuTypes'
  BY <1>0 DEF Finish, CpuTypes
<1>5. AnswerTypes'
  <2>1. CASE phase = "ack"
    <3>1. ack' \in AckOf(SubSeq(got, AckShift + 1, AckShift + 3)) /\ response' = got
          /\ UNCHANGED <<value, parity, result>>
      BY <2>1, Zenon DEF Finish
    <3>2. ack' \in Acks \union {"bad"}
      BY <1>0, <3>1, AckTypes
    <3> QED
      BY <1>0, <3>1, <3>2 DEF AnswerTypes, BurstTypes
  <2>2. CASE phase = "rdata"
    <3>1. /\ ack' \in {"OK", "ERROR"} /\ value' = ReadValue /\ parity' = got[ParityShift + 1]
          /\ UNCHANGED <<response, result>>
      BY <2>2, Zenon DEF Finish
    <3>2. /\ ReadValue \in Seq(Nat) /\ PrefixCount \in 1..(DataBits - 1)
          /\ ParityShift + 1 = DataBits - PrefixCount /\ Len(got) = DataBits
      BY <2>2, ReadParts DEF Finish
    <3>3. ParityShift + 1 \in 1..Len(got)
      BY <3>2, Lengths
    <3>4. got[ParityShift + 1] \in Nat
      BY <1>0, <3>3, ElementOfSeq DEF BurstTypes
    <3> QED
      BY <1>0, <3>1, <3>2, <3>4 DEF AnswerTypes, Acks
  <2>3. CASE phase \notin {"ack", "rdata"}
    BY <1>0, <2>3 DEF Finish, AnswerTypes
  <2> QED
    BY <2>1, <2>2, <2>3
<1>6. PlaceInv'
  BY <1>0 DEF Finish, PlaceInv, Sends, Listens
<1>7. CountInv'
  BY <1>0, Configured, Lengths DEF Finish, CountInv, CpuTypes, BurstTypes, Bits, OneBurst
<1>8. WireInv'
  BY <1>0 DEF Finish, WireInv
<1>9. EdgeInv'
  BY <1>0, Lengths, BitsTypes, LevelTypes DEF Finish, EdgeInv, Asked, Follows, End, Made,
     CpuTypes, BurstTypes, Bits, AckAt, DataAt, Transfers, OneBurst, target
<1>10. AckInv'
  <2>1. at = "clock" /\ at' \in {"start", "next"} /\ UNCHANGED <<phase, said, rnw, conf>>
    BY DEF Finish, target
  <2>2. CASE phase = "ack"
    <3>1. said # "none" => ack' \in {said, "bad"}
      BY <2>2, AckIsRead DEF Finish
    <3> QED
      BY <2>1, <2>2, <3>1 DEF AckInv
  <2>3. CASE phase # "ack"
    BY <1>0, <2>1, <2>3 DEF AckInv
  <2> QED
    BY <2>2, <2>3
<1>11. SampleInv'
  <2>1. /\ at = "clock" /\ at' \in {"start", "next"} /\ got' = <<>> /\ done = clocks
        /\ response' = (IF phase = "ack" THEN got ELSE response)
        /\ UNCHANGED <<phase, said, rnw, conf, standard>>
    BY DEF Finish, target
  <2>2. \A b : Samples(got, b)'
    BY <2>1 DEF Samples
  <2>3. Samples(response, 8)' = Samples(response', 8)
    BY <2>1, Zenon DEF Samples, Edge, Driven, DataAt, AckAt
  <2>4. CASE phase = "ack"
    <3>1. Len(got) = 2 * conf.trn + 3
      BY <1>0, <2>1, <2>4 DEF CountInv, OneBurst, Listens, Bits
    <3>2. said # "none" => Samples(got, 8)
      BY <1>0, <2>4 DEF SampleInv
    <3> QED
      BY <2>1, <2>2, <2>3, <2>4, <3>1, <3>2 DEF SampleInv
  <2>5. CASE phase # "ack"
    BY <1>0, <2>1, <2>2, <2>3, <2>5 DEF SampleInv
  <2> QED
    BY <2>4, <2>5
<1>12. TookInv'
  BY <1>0, Lengths DEF Finish, TookInv, Made, Bits, CountInv, OneBurst, target
<1>13. ExactInv'
  <2>1. /\ at = "clock" /\ at' \in {"start", "next"} /\ done = clocks
        /\ UNCHANGED <<phase, said, took, rnw, conf>>
    BY DEF Finish, target
  <2>2. phase \notin {"readBack"}
    BY <1>0, <2>1 DEF PlaceInv, Sends, Listens
  <2>3. CASE phase = "idle"
    <3>1. UNCHANGED <<ack, value, parity>>
      BY <2>3 DEF Finish
    <3> QED
      BY <1>0, <2>1, <2>3, <3>1 DEF ExactInv, DataDone, Verdict, DataAt, AckAt
  <2>4. CASE phase = "wdata"
    <3>1. left = 0 /\ clocks = Bits(phase) /\ clocks \in Nat /\ Bits(phase) = DataBits
      BY <1>0, <2>1, <2>4 DEF CountInv, OneBurst, BurstTypes, Bits
    <3>2. Made = DataBits
      BY <2>1, <3>1 DEF Made
    <3>3. ~rnw /\ said \in {"OK", "none"} /\ (said # "none" => took = DataBits)
      BY <1>0, <2>1, <2>4, <3>2 DEF AckInv, TookInv
    <3> QED
      BY <2>1, <2>4, <3>3, Zenon DEF ExactInv
  <2>5. CASE phase = "rdata"
    <3>1. value' = ReadValue /\ parity' = got[ParityShift + 1]
      BY <2>5 DEF Finish
    <3>2. rnw /\ said \in {"OK", "none"}
      BY <1>0, <2>1, <2>5 DEF AckInv
    <3>3. said = "OK" => Append(ReadValue, got[ParityShift + 1])
                           = [k \in 1..DataBits |-> DataAt + k - 1]
      BY <2>1, <2>5, ReadIsData
    <3>4. DataAt' = DataAt
      BY <2>1 DEF DataAt, AckAt
    <3> QED
      BY <2>1, <3>1, <3>2, <3>3, <3>4, Zenon DEF ExactInv
  <2>6. CASE phase \notin {"readBack", "idle", "wdata", "rdata"}
    BY <2>1, <2>6 DEF ExactInv, DataDone
  <2> QED
    BY <2>2, <2>3, <2>4, <2>5, <2>6
<1>14. TypeOK'
  BY <1>1, <1>2, <1>3, <1>4, <1>5 DEF TypeOK, PinTypes, BurstTypes, CpuTypes, AnswerTypes
<1> QED
  BY Zenon, <1>6, <1>7, <1>8, <1>9, <1>10, <1>11, <1>12, <1>13, <1>14 DEF IInv

\* A phase follows another: the target's count is carried from one to the next.
LEMMA NextPhaseIInv == IInv /\ NextPhase => IInv'
<1> SUFFICES ASSUME IInv, NextPhase PROVE IInv'
  OBVIOUS
<1>0. /\ TypeOK /\ TargetTypes /\ PinTypes /\ BurstTypes /\ CpuTypes /\ AnswerTypes
      /\ PlaceInv /\ CountInv /\ WireInv
      /\ EdgeInv /\ AckInv /\ SampleInv /\ TookInv /\ ExactInv
  BY Zenon, Parts DEF IInv
<1>1. TargetTypes'
  BY <1>0 DEF NextPhase, TargetTypes, target
<1>2. PinTypes'
  BY <1>0 DEF NextPhase, PinTypes, pins
<1>3. BurstTypes'
  BY <1>0 DEF NextPhase, BurstTypes, burst
<1>4. CpuTypes'
  BY <1>0, BitsTypes DEF NextPhase, To, AfterNoAnswer, CpuTypes, Sends, Listens, Turns,
     Phases
<1>5. AnswerTypes'
  BY <1>0 DEF NextPhase, AnswerTypes, answer
<1>6. PlaceInv'
  BY <1>0 DEF NextPhase, To, AfterNoAnswer, PlaceInv, Transfers, pins
<1>7. CountInv'
  BY <1>0 DEF NextPhase, To, CountInv, Bits, burst
<1>8. WireInv'
  BY <1>0 DEF NextPhase, To, AfterNoAnswer, WireInv, Listens, Turns, pins
<1>9. EdgeInv'
  <2> DEFINE t == conf.trn
             M == Made
             E == End
  <2>0. at = "next" /\ left = 0 /\ clocks = 0 /\ done = 0 /\ at' = "turn" /\ phase' \in Phases
    BY <1>0, <1>4 DEF NextPhase, CountInv, To, CpuTypes
  <2>1. UNCHANGED <<clocks, done, ack, conf, rnw, tstate, tedge, said, took>>
    BY DEF NextPhase, burst, answer, target
  <2>2. M = Bits(phase) /\ M' = 0
    <3>1. left' = Bits(phase') /\ Bits(phase) \in Nat /\ Bits(phase') \in Nat
      BY <1>0, BitsTypes DEF NextPhase, To
    <3>2. Made' = (Bits(phase') - left') - (clocks' - done')
      BY <2>1 DEF Made, Bits
    <3>3. Made = (Bits(phase) - left) - (clocks - done)
      BY Zenon DEF Made
    <3> DEFINE B == Bits(phase)
               C == Bits(phase')
    <3>4. left = 0 /\ clocks = 0 /\ done = 0 /\ clocks' = 0 /\ done' = 0
      BY <2>0, <2>1
    <3>5. M = (B - left) - (clocks - done) /\ M' = (C - left') - (clocks' - done')
      BY <3>2, <3>3 DEF M
    <3>6. B \in Nat /\ C \in Nat /\ left' = C
      BY <3>1
    <3> HIDE DEF B, C
    <3>7. M = B /\ M' = 0
      BY <3>4, <3>5, <3>6
    <3> QED
      BY <3>7 DEF B
  <2>3. /\ t \in Nat /\ t >= 1 /\ DataBits \in Nat /\ DataBits >= 1
        /\ t' = t /\ DataAt' = DataAt /\ DataAt = t + 11 /\ E' = E
        /\ E = DataAt + t + (IF said = "OK" \/ conf.dataPhase THEN DataBits ELSE 0)
    BY <1>0, <2>1, Configured, Lengths DEF DataAt, AckAt, End
  <2>4. phase' # "request" /\ phase' # "none"
    BY DEF NextPhase, To, AfterNoAnswer
  <2> HIDE DEF t, M, E
  <2>5. CASE phase = "request"
    <3>1. phase' = "ack" /\ M = 8
      BY <2>2, <2>5 DEF NextPhase, To, Bits
    <3>2. \/ tstate = "lost" /\ said = "none"
          \/ said \in Acks /\ tstate = said /\ tedge = 8
      BY <1>0, <2>5, <3>1 DEF EdgeInv, Asked, M
    <3>3. Follows(8)'
      BY <2>1, <2>2, <2>3, <3>2 DEF Follows, M, E
    <3> QED
      BY <2>0, <3>1, <3>3 DEF EdgeInv, OneBurst
  <2>6. CASE phase = "ack"
    <3>1. said \in {"none", ack} \/ ack = "bad"
      BY <1>0, <2>0, <2>2, <2>6 DEF AckInv
    <3>2. M = 2 * t + 3
      BY <2>2, <2>6 DEF Bits, t
    <3>3. \/ tstate = "lost" /\ said = "none"
          \/ /\ said \in Acks
             /\ \/ tstate = said /\ tedge = DataAt + t /\ DataAt + t < E
                \/ tstate = "idle" /\ DataAt + t = E
      <4>1. Follows(8)
        BY <1>0, <2>6 DEF EdgeInv
      <4>2. \/ tstate = "lost" /\ said = "none"
            \/ /\ said \in Acks
               /\ \/ tstate = said /\ tedge = 8 + M /\ 8 + M < E
                  \/ tstate = "idle" /\ 8 + M = E
        BY <4>1, Zenon DEF Follows, M, E
      <4>3. 8 + M = DataAt + t
        BY <2>3, <3>2
      <4> QED
        BY <4>2, <4>3
    <3>4. /\ Follows(DataAt + t)'
          /\ said # "OK" /\ ~conf.dataPhase => tstate \in {"idle", "lost"}
      BY <2>1, <2>2, <2>3, <3>3 DEF Follows, M, E
    <3>5. \/ ack = "OK" /\ phase' = (IF rnw THEN "rdata" ELSE "wdata")
          \/ ack \in {"WAIT", "FAULT"} /\ phase' = AfterNoAnswer
          \/ ack = "bad" /\ phase' = "backoff"
      BY <2>6 DEF NextPhase, To, NoAnswer
    <3>6. CASE phase' = "giveback"
      <4>1. said # "OK" /\ ~conf.dataPhase
        BY <3>1, <3>5, <3>6 DEF AfterNoAnswer
      <4> QED
        BY <2>0, <2>1, <3>4, <3>6, <4>1 DEF EdgeInv, OneBurst
    <3>7. CASE phase' # "giveback"
      <4>1. phase' \in {"rdata", "wdata", "skip", "zero", "backoff"}
        BY <3>5, <3>7 DEF AfterNoAnswer
      <4> QED
        BY <2>0, <3>4, <4>1 DEF EdgeInv, OneBurst, t
    <3> QED
      BY <3>6, <3>7
  <2>7. CASE phase \in {"rdata", "wdata", "skip", "backoff"}
    <3>1. M = DataBits
      BY <2>2, <2>7 DEF Bits
    <3>2. tstate \in {"lost", "idle"}
      <4>1. Follows(DataAt + t) \/ tstate = "lost"
        BY <1>0, <2>0, <2>7 DEF EdgeInv, t
      <4> QED
        BY <2>3, <3>1, <4>1 DEF Follows, M, E
    <3>3. phase' \in {"readBack", "idle", "giveback"}
      BY <2>7 DEF NextPhase, To
    <3> QED
      BY <2>1, <3>2, <3>3 DEF EdgeInv, OneBurst
  <2>8. CASE phase = "readBack"
    <3>1. phase' = "idle" /\ tstate \in {"idle", "lost"}
      BY <1>0, <2>8 DEF NextPhase, To, EdgeInv, OneBurst
    <3> QED
      BY <2>1, <3>1 DEF EdgeInv, OneBurst
  <2> QED
    BY <2>5, <2>6, <2>7, <2>8 DEF NextPhase
<1>10. AckInv'
  BY <1>0 DEF NextPhase, To, AfterNoAnswer, AckInv, target
<1>11. SampleInv'
  BY <1>0 DEF NextPhase, To, SampleInv, Samples, Edge, Driven, AckAt, DataAt, CountInv,
     burst, answer, target
<1>12. TookInv'
  BY <1>0, Lengths DEF NextPhase, To, TookInv, Made, Bits, CountInv, burst, target
<1>13. ExactInv'
  BY <1>0 DEF NextPhase, To, AfterNoAnswer, ExactInv, DataDone, Verdict, DataAt, AckAt,
     answer, target
<1>14. TypeOK'
  BY <1>1, <1>2, <1>3, <1>4, <1>5 DEF TypeOK, PinTypes, BurstTypes, CpuTypes, AnswerTypes
<1> QED
  BY Zenon, <1>6, <1>7, <1>8, <1>9, <1>10, <1>11, <1>12, <1>13, <1>14 DEF IInv

\* A transfer returns.
LEMMA ReturnIInv == IInv /\ Return => IInv'
<1> SUFFICES ASSUME IInv, Return PROVE IInv'
  OBVIOUS
<1>0. /\ TypeOK /\ TargetTypes /\ PinTypes /\ BurstTypes /\ CpuTypes /\ AnswerTypes
      /\ PlaceInv /\ CountInv /\ WireInv
      /\ EdgeInv /\ AckInv /\ SampleInv /\ TookInv /\ ExactInv
  BY Zenon, Parts DEF IInv
<1>1. TargetTypes'
  BY <1>0 DEF Return, TargetTypes, target
<1>2. PinTypes'
  BY <1>0, LevelTypes DEF Return, PinTypes, Phases
<1>3. BurstTypes'
  BY <1>0 DEF Return, BurstTypes, burst
<1>4. CpuTypes'
  BY <1>0 DEF Return, CpuTypes
<1>5. AnswerTypes'
  BY <1>0 DEF Return, AnswerTypes
<1>6. PlaceInv'
  BY <1>0 DEF Return, PlaceInv, Listens
<1>7. CountInv'
  BY <1>0 DEF Return, CountInv, burst
<1>8. WireInv'
  BY <1>0 DEF Return, WireInv, Turns
<1>9. EdgeInv'
  BY <1>0, Configured, Lengths, LevelTypes DEF Return, EdgeInv, Asked, Follows, End, Made,
     AckInv, CountInv, PlaceInv, CpuTypes, BurstTypes, Bits, AckAt, DataAt, Sends,
     Listens, Turns, Transfers, OneBurst, Phases, Acks, pins, burst, answer, target, vars
<1>10. AckInv'
  BY <1>0 DEF Return, AckInv
<1>11. SampleInv'
  BY <1>0 DEF Return, SampleInv
<1>12. TookInv'
  BY <1>0 DEF Return, TookInv
<1>13. ExactInv'
  BY <1>0 DEF Return, ExactInv, DataDone, Verdict, DataAt, AckAt, target
<1>14. TypeOK'
  BY <1>1, <1>2, <1>3, <1>4, <1>5 DEF TypeOK, PinTypes, BurstTypes, CpuTypes, AnswerTypes
<1> QED
  BY Zenon, <1>6, <1>7, <1>8, <1>9, <1>10, <1>11, <1>12, <1>13, <1>14 DEF IInv

\* The other calls return.
LEMMA EndsIInv == IInv /\ Ends => IInv'
<1> SUFFICES ASSUME IInv, Ends PROVE IInv'
  OBVIOUS
<1>0. /\ TypeOK /\ TargetTypes /\ PinTypes /\ BurstTypes /\ CpuTypes /\ AnswerTypes
      /\ PlaceInv /\ CountInv /\ WireInv
      /\ EdgeInv /\ AckInv /\ SampleInv /\ TookInv /\ ExactInv
  BY Zenon, Parts DEF IInv
<1>1. TargetTypes'
  BY <1>0 DEF Ends, TargetTypes, target
<1>2. PinTypes'
  BY <1>0 DEF Ends, PinTypes
<1>3. BurstTypes'
  BY <1>0 DEF Ends, BurstTypes, burst
<1>4. CpuTypes'
  BY <1>0 DEF Ends, CpuTypes
<1>5. AnswerTypes'
  BY <1>0 DEF Ends, AnswerTypes
<1>6. PlaceInv'
  BY <1>0 DEF Ends, PlaceInv, Listens
<1>7. CountInv'
  BY <1>0 DEF Ends, CountInv, burst
<1>8. WireInv'
  BY <1>0 DEF Ends, WireInv, Turns
<1>9. EdgeInv'
  BY <1>0 DEF Ends, EdgeInv, OneBurst, target
<1>10. AckInv'
  BY <1>0 DEF Ends, AckInv
<1>11. SampleInv'
  BY <1>0 DEF Ends, SampleInv
<1>12. TookInv'
  BY <1>0 DEF Ends, TookInv
<1>13. ExactInv'
  BY <1>0 DEF Ends, ExactInv, DataDone
<1>14. TypeOK'
  BY <1>1, <1>2, <1>3, <1>4, <1>5 DEF TypeOK, PinTypes, BurstTypes, CpuTypes, AnswerTypes
<1> QED
  BY Zenon, <1>6, <1>7, <1>8, <1>9, <1>10, <1>11, <1>12, <1>13, <1>14 DEF IInv

\* DAP_SWD_Sequence goes on to its next sequence.
LEMMA NextSequenceIInv == IInv /\ NextSequence => IInv'
<1> SUFFICES ASSUME IInv, NextSequence PROVE IInv'
  OBVIOUS
<1>0. /\ TypeOK /\ TargetTypes /\ PinTypes /\ BurstTypes /\ CpuTypes /\ AnswerTypes
      /\ PlaceInv /\ CountInv /\ WireInv
      /\ EdgeInv /\ AckInv /\ SampleInv /\ TookInv /\ ExactInv
  BY Zenon, Parts DEF IInv
<1>1. TargetTypes'
  BY <1>0 DEF NextSequence, TargetTypes, target
<1>2. PinTypes'
  BY <1>0 DEF NextSequence, PinTypes, pins
<1>3. BurstTypes'
  BY <1>0 DEF NextSequence, BurstTypes, burst
<1>4. CpuTypes'
  BY <1>0, BitsTypes DEF NextSequence, To, CpuTypes, Sends, Listens, Turns, Phases
<1>5. AnswerTypes'
  BY <1>0 DEF NextSequence, AnswerTypes, answer
<1>6. PlaceInv'
  BY <1>0 DEF NextSequence, To, PlaceInv, CpuTypes, Transfers, pins
<1>7. CountInv'
  BY <1>0 DEF NextSequence, To, CountInv, Bits, burst
<1>8. WireInv'
  BY <1>0 DEF NextSequence, To, WireInv, CpuTypes, Listens, pins
<1>9. EdgeInv'
  BY <1>0 DEF NextSequence, To, EdgeInv, PlaceInv, CpuTypes, OneBurst, target
<1>10. AckInv'
  BY <1>0, Configured, Lengths, BitsTypes, LevelTypes DEF NextSequence, To, AckInv,
     CpuTypes, Sends, Transfers, Acks, answer, target
<1>11. SampleInv'
  BY <1>0, Lengths DEF NextSequence, To, SampleInv, CpuTypes
<1>12. TookInv'
  BY <1>0 DEF NextSequence, To, TookInv, CpuTypes
<1>13. ExactInv'
  BY <1>0 DEF NextSequence, To, ExactInv, DataDone, CpuTypes
<1>14. TypeOK'
  BY <1>1, <1>2, <1>3, <1>4, <1>5 DEF TypeOK, PinTypes, BurstTypes, CpuTypes, AnswerTypes
<1> QED
  BY Zenon, <1>6, <1>7, <1>8, <1>9, <1>10, <1>11, <1>12, <1>13, <1>14 DEF IInv

\* A transfer is called.
LEMMA swd_esp_spi_transferIInv == IInv /\ swd_esp_spi_transfer => IInv'
<1> SUFFICES ASSUME IInv, swd_esp_spi_transfer PROVE IInv'
  OBVIOUS
<1>0. /\ TypeOK /\ TargetTypes /\ PinTypes /\ BurstTypes /\ CpuTypes /\ AnswerTypes
      /\ PlaceInv /\ CountInv /\ WireInv
      /\ EdgeInv /\ AckInv /\ SampleInv /\ TookInv /\ ExactInv
  BY Zenon, Parts DEF IInv
<1>1. TargetTypes'
  BY <1>0 DEF swd_esp_spi_transfer, Forget, TargetTypes
<1>2. PinTypes'
  BY <1>0, LevelTypes DEF swd_esp_spi_transfer, Forget, PinTypes, Phases
<1>3. BurstTypes'
  BY <1>0 DEF swd_esp_spi_transfer, Forget, BurstTypes, burst
<1>4. CpuTypes'
  BY <1>0, BitsTypes DEF swd_esp_spi_transfer, To, CpuTypes, Sends, Phases
<1>5. AnswerTypes'
  BY <1>0 DEF swd_esp_spi_transfer, Forget, AnswerTypes
<1>6. PlaceInv'
  BY <1>0 DEF swd_esp_spi_transfer, To, PlaceInv
<1>7. CountInv'
  BY <1>0 DEF swd_esp_spi_transfer, To, Forget, CountInv, Bits, burst
<1>8. WireInv'
  BY <1>0 DEF swd_esp_spi_transfer, To, Forget, WireInv, Listens
<1>9. EdgeInv'
  BY <1>0 DEF swd_esp_spi_transfer, To, Forget, EdgeInv, Asked, Made, CountInv, Bits, burst
<1>10. AckInv'
  BY <1>0 DEF swd_esp_spi_transfer, To, AckInv
<1>11. SampleInv'
  BY <1>0 DEF swd_esp_spi_transfer, To, SampleInv
<1>12. TookInv'
  BY <1>0 DEF swd_esp_spi_transfer, Forget, TookInv
<1>13. ExactInv'
  BY <1>0 DEF swd_esp_spi_transfer, Forget, ExactInv
<1>14. TypeOK'
  BY <1>1, <1>2, <1>3, <1>4, <1>5 DEF TypeOK, PinTypes, BurstTypes, CpuTypes, AnswerTypes
<1> QED
  BY Zenon, <1>6, <1>7, <1>8, <1>9, <1>10, <1>11, <1>12, <1>13, <1>14 DEF IInv

\* An SWJ sequence is called.
LEMMA swd_esp_spi_swj_sequenceIInv == IInv /\ swd_esp_spi_swj_sequence => IInv'
<1> SUFFICES ASSUME IInv, swd_esp_spi_swj_sequence PROVE IInv'
  OBVIOUS
<1>0. /\ TypeOK /\ TargetTypes /\ PinTypes /\ BurstTypes /\ CpuTypes /\ AnswerTypes
      /\ PlaceInv /\ CountInv /\ WireInv
      /\ EdgeInv /\ AckInv /\ SampleInv /\ TookInv /\ ExactInv
  BY Zenon, Parts DEF IInv
<1>1. TargetTypes'
  BY <1>0 DEF swd_esp_spi_swj_sequence, Forget, TargetTypes
<1>2. PinTypes'
  BY <1>0 DEF swd_esp_spi_swj_sequence, Forget, PinTypes
<1>3. BurstTypes'
  BY <1>0 DEF swd_esp_spi_swj_sequence, Forget, BurstTypes, burst
<1>4. CpuTypes'
  BY <1>0, BitsTypes DEF swd_esp_spi_swj_sequence, To, CpuTypes, Sends, Phases
<1>5. AnswerTypes'
  BY <1>0 DEF swd_esp_spi_swj_sequence, Forget, AnswerTypes
<1>6. PlaceInv'
  BY <1>0 DEF swd_esp_spi_swj_sequence, To, PlaceInv, Transfers
<1>7. CountInv'
  BY <1>0 DEF swd_esp_spi_swj_sequence, To, Forget, CountInv, Bits, burst
<1>8. WireInv'
  BY <1>0 DEF swd_esp_spi_swj_sequence, To, Forget, WireInv, Listens
<1>9. EdgeInv'
  BY <1>0 DEF swd_esp_spi_swj_sequence, To, Forget, EdgeInv
<1>10. AckInv'
  BY <1>0 DEF swd_esp_spi_swj_sequence, To, AckInv
<1>11. SampleInv'
  BY <1>0 DEF swd_esp_spi_swj_sequence, To, SampleInv
<1>12. TookInv'
  BY <1>0 DEF swd_esp_spi_swj_sequence, To, TookInv
<1>13. ExactInv'
  BY <1>0 DEF swd_esp_spi_swj_sequence, Forget, ExactInv
<1>14. TypeOK'
  BY <1>1, <1>2, <1>3, <1>4, <1>5 DEF TypeOK, PinTypes, BurstTypes, CpuTypes, AnswerTypes
<1> QED
  BY Zenon, <1>6, <1>7, <1>8, <1>9, <1>10, <1>11, <1>12, <1>13, <1>14 DEF IInv

\* SWD sequences are called.
LEMMA DAP_SWD_SequenceIInv == IInv /\ DAP_SWD_Sequence => IInv'
<1> SUFFICES ASSUME IInv, DAP_SWD_Sequence PROVE IInv'
  OBVIOUS
<1>0. /\ TypeOK /\ TargetTypes /\ PinTypes /\ BurstTypes /\ CpuTypes /\ AnswerTypes
      /\ PlaceInv /\ CountInv /\ WireInv
      /\ EdgeInv /\ AckInv /\ SampleInv /\ TookInv /\ ExactInv
  BY Zenon, Parts DEF IInv
<1>1. TargetTypes'
  BY <1>0 DEF DAP_SWD_Sequence, Forget, TargetTypes
<1>2. PinTypes'
  BY <1>0 DEF DAP_SWD_Sequence, Forget, PinTypes
<1>3. BurstTypes'
  BY <1>0 DEF DAP_SWD_Sequence, Forget, BurstTypes, burst
<1>4. CpuTypes'
  BY <1>0, SpiAssumption DEF DAP_SWD_Sequence, CpuTypes, Phases
<1>5. AnswerTypes'
  BY <1>0 DEF DAP_SWD_Sequence, Forget, AnswerTypes
<1>6. PlaceInv'
  BY <1>0 DEF DAP_SWD_Sequence, PlaceInv, Transfers
<1>7. CountInv'
  BY <1>0 DEF DAP_SWD_Sequence, Forget, CountInv, burst
<1>8. WireInv'
  BY <1>0 DEF DAP_SWD_Sequence, Forget, WireInv, Listens
<1>9. EdgeInv'
  BY <1>0 DEF DAP_SWD_Sequence, Forget, EdgeInv
<1>10. AckInv'
  BY <1>0 DEF DAP_SWD_Sequence, AckInv
<1>11. SampleInv'
  BY <1>0 DEF DAP_SWD_Sequence, SampleInv
<1>12. TookInv'
  BY <1>0 DEF DAP_SWD_Sequence, TookInv
<1>13. ExactInv'
  BY <1>0 DEF DAP_SWD_Sequence, Forget, ExactInv
<1>14. TypeOK'
  BY <1>1, <1>2, <1>3, <1>4, <1>5 DEF TypeOK, PinTypes, BurstTypes, CpuTypes, AnswerTypes
<1> QED
  BY Zenon, <1>6, <1>7, <1>8, <1>9, <1>10, <1>11, <1>12, <1>13, <1>14 DEF IInv

\* The idle level is set.
LEMMA SetDataIdleIInv == IInv /\ SetDataIdle => IInv'
<1> SUFFICES ASSUME IInv, SetDataIdle PROVE IInv'
  OBVIOUS
<1>0. /\ TypeOK /\ TargetTypes /\ PinTypes /\ BurstTypes /\ CpuTypes /\ AnswerTypes
      /\ PlaceInv /\ CountInv /\ WireInv
      /\ EdgeInv /\ AckInv /\ SampleInv /\ TookInv /\ ExactInv
  BY Zenon, Parts DEF IInv
<1>1. TargetTypes'
  BY <1>0 DEF SetDataIdle, TargetTypes, target
<1>2. PinTypes'
  BY <1>0, LevelTypes DEF SetDataIdle, PinTypes, Phases
<1>3. BurstTypes'
  BY <1>0 DEF SetDataIdle, BurstTypes, burst
<1>4. CpuTypes'
  BY <1>0 DEF SetDataIdle, CpuTypes
<1>5. AnswerTypes'
  BY <1>0 DEF SetDataIdle, AnswerTypes, answer
<1>6. PlaceInv'
  BY <1>0 DEF SetDataIdle, PlaceInv
<1>7. CountInv'
  BY <1>0 DEF SetDataIdle, CountInv, burst
<1>8. WireInv'
  BY <1>0 DEF SetDataIdle, WireInv, PlaceInv
<1>9. EdgeInv'
  BY <1>0 DEF SetDataIdle, EdgeInv, PlaceInv, Listens, target
<1>10. AckInv'
  BY <1>0 DEF SetDataIdle, AckInv
<1>11. SampleInv'
  BY <1>0 DEF SetDataIdle, SampleInv, PlaceInv, Listens
<1>12. TookInv'
  BY <1>0 DEF SetDataIdle, TookInv, PlaceInv, Listens
<1>13. ExactInv'
  BY <1>0 DEF SetDataIdle, ExactInv, DataDone, Verdict, DataAt, AckAt, answer, target
<1>14. TypeOK'
  BY <1>1, <1>2, <1>3, <1>4, <1>5 DEF TypeOK, PinTypes, BurstTypes, CpuTypes, AnswerTypes
<1> QED
  BY Zenon, <1>6, <1>7, <1>8, <1>9, <1>10, <1>11, <1>12, <1>13, <1>14 DEF IInv

\* Turnaround and data phase are configured, between calls.
LEMMA SWD_ConfigureIInv == IInv /\ SWD_Configure => IInv'
<1> SUFFICES ASSUME IInv, SWD_Configure PROVE IInv'
  OBVIOUS
<1>0. /\ TypeOK /\ TargetTypes /\ PinTypes /\ BurstTypes /\ CpuTypes /\ AnswerTypes
      /\ PlaceInv /\ CountInv /\ WireInv
      /\ EdgeInv /\ AckInv /\ SampleInv /\ TookInv /\ ExactInv
  BY Zenon, Parts DEF IInv
<1>1. TargetTypes'
  BY <1>0 DEF SWD_Configure, TargetTypes, target
<1>2. PinTypes'
  BY <1>0 DEF SWD_Configure, PinTypes, pins
<1>3. BurstTypes'
  BY <1>0 DEF SWD_Configure, BurstTypes, burst
<1>4. CpuTypes'
  BY <1>0 DEF SWD_Configure, CpuTypes
<1>5. AnswerTypes'
  BY <1>0 DEF SWD_Configure, AnswerTypes
<1>6. PlaceInv'
  BY <1>0 DEF SWD_Configure, PlaceInv, pins
<1>7. CountInv'
  BY <1>0 DEF SWD_Configure, CountInv, burst
<1>8. WireInv'
  BY <1>0 DEF SWD_Configure, WireInv, pins
<1>9. EdgeInv'
  BY <1>0 DEF SWD_Configure, EdgeInv, PlaceInv, Listens, target
<1>10. AckInv'
  BY <1>0 DEF SWD_Configure, AckInv
<1>11. SampleInv'
  BY <1>0 DEF SWD_Configure, SampleInv, PlaceInv, Listens
<1>12. TookInv'
  BY <1>0 DEF SWD_Configure, TookInv, PlaceInv, Listens
<1>13. ExactInv'
  BY <1>0 DEF SWD_Configure, ExactInv, Verdict
<1>14. TypeOK'
  BY <1>1, <1>2, <1>3, <1>4, <1>5 DEF TypeOK, PinTypes, BurstTypes, CpuTypes, AnswerTypes
<1> QED
  BY Zenon, <1>6, <1>7, <1>8, <1>9, <1>10, <1>11, <1>12, <1>13, <1>14 DEF IInv

\* The port is set up.
LEMMA swd_esp_port_setupIInv == IInv /\ swd_esp_port_setup => IInv'
<1> SUFFICES ASSUME IInv, swd_esp_port_setup PROVE IInv'
  OBVIOUS
<1>0. /\ TypeOK /\ TargetTypes /\ PinTypes /\ BurstTypes /\ CpuTypes /\ AnswerTypes
      /\ PlaceInv /\ CountInv /\ WireInv
      /\ EdgeInv /\ AckInv /\ SampleInv /\ TookInv /\ ExactInv
  BY Zenon, Parts DEF IInv
<1>1. TargetTypes'
  BY <1>0 DEF swd_esp_port_setup, Forget, TargetTypes
<1>2. PinTypes'
  BY <1>0 DEF swd_esp_port_setup, Forget, PinTypes
<1>3. BurstTypes'
  BY <1>0 DEF swd_esp_port_setup, Forget, BurstTypes, burst
<1>4. CpuTypes'
  BY <1>0, BitsTypes DEF swd_esp_port_setup, To, CpuTypes, Turns, Phases
<1>5. AnswerTypes'
  BY <1>0 DEF swd_esp_port_setup, Forget, AnswerTypes
<1>6. PlaceInv'
  BY <1>0 DEF swd_esp_port_setup, To, PlaceInv
<1>7. CountInv'
  BY <1>0 DEF swd_esp_port_setup, To, Forget, CountInv, Bits, burst
<1>8. WireInv'
  BY <1>0 DEF swd_esp_port_setup, To, Forget, WireInv, Listens
<1>9. EdgeInv'
  BY <1>0 DEF swd_esp_port_setup, To, Forget, EdgeInv
<1>10. AckInv'
  BY <1>0 DEF swd_esp_port_setup, To, AckInv
<1>11. SampleInv'
  BY <1>0 DEF swd_esp_port_setup, To, SampleInv
<1>12. TookInv'
  BY <1>0 DEF swd_esp_port_setup, To, TookInv
<1>13. ExactInv'
  BY <1>0 DEF swd_esp_port_setup, Forget, ExactInv
<1>14. TypeOK'
  BY <1>1, <1>2, <1>3, <1>4, <1>5 DEF TypeOK, PinTypes, BurstTypes, CpuTypes, AnswerTypes
<1> QED
  BY Zenon, <1>6, <1>7, <1>8, <1>9, <1>10, <1>11, <1>12, <1>13, <1>14 DEF IInv

\* The port is switched off.
LEMMA swd_esp_port_offIInv == IInv /\ swd_esp_port_off => IInv'
<1> SUFFICES ASSUME IInv, swd_esp_port_off PROVE IInv'
  OBVIOUS
<1>0. /\ TypeOK /\ TargetTypes /\ PinTypes /\ BurstTypes /\ CpuTypes /\ AnswerTypes
      /\ PlaceInv /\ CountInv /\ WireInv
      /\ EdgeInv /\ AckInv /\ SampleInv /\ TookInv /\ ExactInv
  BY Zenon, Parts DEF IInv
<1>1. TargetTypes'
  BY <1>0 DEF swd_esp_port_off, Forget, TargetTypes
<1>2. PinTypes'
  BY <1>0, LevelTypes DEF swd_esp_port_off, Forget, PinTypes, Phases
<1>3. BurstTypes'
  BY <1>0 DEF swd_esp_port_off, Forget, BurstTypes, burst
<1>4. CpuTypes'
  BY <1>0 DEF swd_esp_port_off, CpuTypes, Phases
<1>5. AnswerTypes'
  BY <1>0 DEF swd_esp_port_off, Forget, AnswerTypes
<1>6. PlaceInv'
  BY <1>0 DEF swd_esp_port_off, PlaceInv, Listens, Transfers
<1>7. CountInv'
  BY <1>0 DEF swd_esp_port_off, Forget, CountInv, burst
<1>8. WireInv'
  BY <1>0 DEF swd_esp_port_off, Forget, WireInv
<1>9. EdgeInv'
  BY <1>0 DEF swd_esp_port_off, Forget, EdgeInv
<1>10. AckInv'
  BY <1>0 DEF swd_esp_port_off, AckInv
<1>11. SampleInv'
  BY <1>0 DEF swd_esp_port_off, SampleInv
<1>12. TookInv'
  BY <1>0 DEF swd_esp_port_off, TookInv
<1>13. ExactInv'
  BY <1>0 DEF swd_esp_port_off, Forget, ExactInv
<1>14. TypeOK'
  BY <1>1, <1>2, <1>3, <1>4, <1>5 DEF TypeOK, PinTypes, BurstTypes, CpuTypes, AnswerTypes
<1> QED
  BY Zenon, <1>6, <1>7, <1>8, <1>9, <1>10, <1>11, <1>12, <1>13, <1>14 DEF IInv

\* What every clock does, whatever the phase,
LEMMA ClockCounts ==
  ASSUME IInv, Clock
  PROVE  /\ at = "clock" /\ done \in Nat /\ clocks \in Nat /\ done < clocks /\ done' = done + 1
         /\ UNCHANGED <<standard, cs, noe, dir, pad, clkNoe, idleLevel, clocks, at, phase,
                        left, rest, response, ack, value, parity, result, conf, rnw>>
         /\ Bits(phase) \in Nat /\ left \in Nat /\ left + clocks <= Bits(phase)
         /\ Made \in Nat /\ Made < Bits(phase) /\ Made' = Made + 1 /\ done <= Made
<1>0. TargetTypes /\ BurstTypes /\ CpuTypes /\ CountInv
  BY Zenon, Parts DEF IInv
<1>1. /\ at = "clock" /\ done < clocks /\ done' = done + 1
      /\ UNCHANGED <<standard, cs, noe, dir, pad, clkNoe, idleLevel, clocks, at, phase,
                     left, rest, response, ack, value, parity, result, conf, rnw>>
  BY Zenon DEF Clock, pins, answer
<1>2. done \in Nat /\ clocks \in Nat
  BY <1>0, Lengths DEF BurstTypes
<1> DEFINE B == Bits(phase)
<1>3. B \in Nat /\ left \in Nat /\ left + clocks <= B
  BY <1>0, <1>1, BitsTypes DEF CpuTypes, CountInv
<1>4. Made = (B - left) - (clocks - done) /\ Made' = (B - left) - (clocks - done')
  BY <1>1, Zenon DEF Made, Bits
<1> HIDE DEF B
<1>5. Made \in Nat /\ Made < B /\ Made' = Made + 1 /\ done <= Made
  BY <1>1, <1>2, <1>3, <1>4
<1> QED
  BY <1>1, <1>2, <1>3, <1>5 DEF B

\* and of the target, in a transfer.
LEMMA ClockEdges ==
  ASSUME IInv, Clock, phase \in Transfers
  PROVE  /\ TargetEdge(HostDrives, IF phase \in Sends THEN Bit(phase, done') ELSE Undriven)
         /\ HostDrives <=> phase \in Sends
         /\ phase \in Sends \union Listens
<1>0. CpuTypes /\ PlaceInv /\ WireInv
  BY Zenon, Parts DEF IInv
<1>1. at = "clock"
  BY ClockCounts
<1>2. cs /\ ~clkNoe
  BY <1>0, <1>1 DEF PlaceInv, Transfers
<1>3. phase \in Sends \union Listens
  BY <1>0, <1>1 DEF PlaceInv
<1>4. ~noe /\ pad = dir /\ (phase \in Listens => ~dir) /\ (phase \in Sends => dir)
  <2>1. phase \in Sends => phase \in {"request", "idle", "wdata", "zero"}
    BY DEF Transfers, Sends
  <2>2. phase \in Listens => ~dir
    BY <1>0, <1>1 DEF WireInv
  <2> QED
    BY <1>0, <1>1, <1>2, <2>1, <2>2 DEF WireInv
<1>5. ~(phase \in Sends /\ phase \in Listens)
  BY DEF Sends, Listens
<1>6. HostDrives <=> phase \in Sends
  BY <1>0, <1>3, <1>4, <1>5 DEF HostDrives
<1>7. TargetEdge(HostDrives, IF phase \in Sends THEN Bit(phase, done') ELSE Undriven)
  BY <1>2, Zenon DEF Clock, Transfers
<1> QED
  BY <1>3, <1>6, <1>7

\* The edge the target is at where a phase of one transaction begins.
Base == IF phase = "ack" THEN 8 ELSE DataAt + conf.trn

\* In such a phase the target counts the clocks of the host, or is lost.
LEMMA BurstEdge ==
  ASSUME IInv, Clock, phase \in OneBurst
  PROVE  /\ Made = done /\ said' = said /\ Base \in Nat /\ End \in Nat
         /\ \/ tstate = "lost" /\ UNCHANGED target
            \/ /\ phase = "backoff" /\ tstate = "idle" /\ tstate' = "lost"
               /\ UNCHANGED took
            \/ /\ said \in Acks /\ tstate = said /\ tedge = Base + done
               /\ tedge + 1 <= End /\ Transfer = End
               /\ IF tedge + 1 = End THEN tstate' = "idle" /\ tedge' = 0
                                     ELSE tstate' = tstate /\ tedge' = tedge + 1
               /\ took' = IF /\ tstate = "OK" /\ ~rnw /\ tedge >= DataAt + conf.trn
                             /\ phase = "wdata" /\ Data(done + 1)
                                  = Data(tedge - (DataAt + conf.trn) + 1)
                          THEN took + 1 ELSE took
<1>0. TargetTypes /\ CountInv /\ EdgeInv /\ AckInv
  BY Zenon, Parts DEF IInv
<1>1. /\ at = "clock" /\ done \in Nat /\ clocks \in Nat /\ done' = done + 1 /\ done < clocks
      /\ Made < Bits(phase)
  BY ClockCounts
<1> DEFINE t == conf.trn
           E == End
           b == Base
           label == IF phase \in Sends THEN Bit(phase, done') ELSE Undriven
<1>2. left = 0 /\ clocks = Bits(phase)
  BY <1>0, <1>1 DEF CountInv
<1>3. Made = done
  BY <1>1, <1>2 DEF Made
<1>4. /\ t \in Nat /\ t >= 1 /\ DataBits \in Nat /\ DataBits >= 1 /\ DataAt = t + 11
      /\ b \in Nat /\ E \in Nat
      /\ E = DataAt + t + (IF said = "OK" \/ conf.dataPhase THEN DataBits ELSE 0)
  BY <1>0, Configured, Lengths DEF Base, DataAt, AckAt, End
<1>5. TargetEdge(HostDrives, label) /\ (HostDrives <=> phase \in Sends)
  BY ClockEdges DEF OneBurst, Transfers
<1>6. \/ tstate = "lost" /\ (said = "none" \/ phase = "backoff")
      \/ /\ said \in Acks
         /\ \/ tstate = said /\ tedge = b + done /\ b + done < E
            \/ tstate = "idle" /\ b + done = E
  <2>1. Follows(b) \/ (phase = "backoff" /\ tstate = "lost")
    BY <1>0, <1>1, Zenon DEF EdgeInv, OneBurst, Base
  <2> QED
    BY <1>3, <2>1, Zenon DEF Follows
<1>7. said \in Acks /\ b + done = E => phase = "backoff"
  <2>1. phase = "ack" => b = 8 /\ done < 2 * t + 3
    BY <1>1, <1>2 DEF Base, Bits
  <2>2. phase # "ack" => b = DataAt + t /\ done < DataBits
    BY <1>1, <1>2 DEF Base, Bits, OneBurst
  <2>3. phase \in {"rdata", "wdata", "skip", "zero"} /\ said \in Acks
          => said = "OK" \/ conf.dataPhase
    BY <1>0, <1>1 DEF AckInv, Acks
  <2> HIDE DEF b, E, t
  <2> QED
    BY <1>1, <1>4, <2>1, <2>2, <2>3 DEF OneBurst
<1> HIDE DEF b, E, t, label
<1>8. CASE tstate = "lost"
  <2>1. UNCHANGED target
    BY <1>5, <1>8 DEF TargetEdge, Acks
  <2> QED
    BY <1>3, <1>4, <1>8, <2>1 DEF target, b, E
<1>9. CASE tstate = "idle"
  <2>1. phase = "backoff"
    BY <1>6, <1>7, <1>9 DEF Acks
  <2>2. ~HostDrives
    BY <1>5, <2>1 DEF Sends
  <2>3. Counts("lost", 0)
    BY <1>5, <1>9, <2>2 DEF TargetEdge, Acks
  <2> QED
    BY <1>3, <1>4, <1>9, <2>1, <2>3 DEF Counts, b, E
<1>10. CASE tstate \in Acks
  <2>1. said \in Acks /\ tstate = said /\ tedge = b + done /\ tedge < E
    BY <1>6, <1>10 DEF Acks
  <2>2. Transfer = E
    BY <2>1 DEF Transfer, HasData, E, End
  <2>3. /\ IF tedge + 1 = Transfer THEN tstate' = "idle" /\ tedge' = 0
                                   ELSE tstate' = tstate /\ tedge' = tedge + 1
        /\ took' = IF /\ tstate = "OK" /\ ~rnw /\ tedge >= DataAt + conf.trn
                      /\ HostDrives /\ label = Data(tedge - (DataAt + conf.trn) + 1)
                   THEN took + 1 ELSE took
        /\ UNCHANGED said
    BY <1>5, <1>10 DEF TargetEdge, Acks
  <2>4. tedge + 1 <= E
    BY <1>1, <1>4, <2>1
  <2>5. HostDrives <=> phase \in {"wdata", "zero"}
    BY <1>5 DEF OneBurst, Sends
  <2>6. /\ phase = "wdata" => label = Data(done + 1)
        /\ phase = "zero" => label # Data(tedge - (DataAt + conf.trn) + 1)
    <3>1. phase = "zero" => label = 0
      BY DEF label, Bit, Sends
    <3>2. tedge >= DataAt + t => Data(tedge - (DataAt + t) + 1) # 0
      BY <1>1, <1>4, <2>1 DEF Data
    <3>3. phase = "wdata" => label = Data(done + 1)
      BY <1>1 DEF label, Bit, Sends
    <3>4. phase = "zero" => tedge >= DataAt + t
      BY <1>1, <1>4, <2>1 DEF b, Base, t
    <3> QED
      BY <3>1, <3>2, <3>3, <3>4 DEF t
  <2>7. took' = IF /\ tstate = "OK" /\ ~rnw /\ tedge >= DataAt + conf.trn
                   /\ phase = "wdata" /\ Data(done + 1) = Data(tedge - (DataAt + conf.trn) + 1)
                THEN took + 1 ELSE took
    BY <2>3, <2>5, <2>6, Zenon
  <2> QED
    BY <1>3, <1>4, <2>1, <2>2, <2>3, <2>4, <2>7 DEF b, E
<1> QED
  BY <1>6, <1>8, <1>9, <1>10


\* The request, bit by bit.
LEMMA RequestEdge ==
  ASSUME IInv, Clock, phase = "request"
  PROVE  Asked' /\ took' = took
<1>0. TargetTypes /\ CountInv /\ EdgeInv /\ AckInv
  BY Zenon, Parts DEF IInv
<1>1. /\ done \in Nat /\ clocks \in Nat /\ left \in Nat /\ done' = done + 1
      /\ left + clocks <= Bits(phase) /\ Made \in Nat /\ Made < 8 /\ Made' = Made + 1
  BY ClockCounts DEF Bits
<1>2. TargetEdge(TRUE, Bit("request", done'))
  <2>1. TargetEdge(HostDrives, Bit("request", done')) /\ HostDrives = TRUE
    BY ClockEdges DEF Transfers, Sends
  <2> QED
    BY <2>1, Zenon
<1>3. Asked
  BY <1>0 DEF EdgeInv
<1>4. Made = 0 => done' = 1
  BY <1>1 DEF Made, Bits
<1>5. Made = 0 => Bit("request", done') = 1
  BY <1>4 DEF Bit
<1> DEFINE M == Made
<1> HIDE DEF M
<1>6. CASE tstate = "lost"
  <2>1. said = "none" /\ UNCHANGED <<tstate, said, took>>
    BY <1>2, <1>3, <1>6 DEF TargetEdge, Acks, Asked, target
  <2> QED
    BY <1>6, <2>1 DEF Asked
<1>7. CASE tstate = "idle"
  <2>1. said = "none" /\ Made = 0
    BY <1>3, <1>7 DEF Asked, Acks
  <2>2. Counts("request", 1)
    BY <1>2, <1>5, <1>7, <2>1 DEF TargetEdge, Acks
  <2>3. Made' = 1
    BY <1>1, <2>1
  <2> QED
    BY <2>1, <2>2, <2>3 DEF Asked, Counts
<1>8. CASE tstate = "request"
  <2>1. said = "none" /\ tedge = Made /\ Made \in 1..7
    BY <1>3, <1>8 DEF Asked, Acks
  <2>2. CASE tedge < 7
    <3>1. Counts("request", tedge + 1)
      BY <1>2, <1>8, <2>1, <2>2 DEF TargetEdge, Acks
    <3>2. tedge' = Made' /\ Made' \in 1..7
      BY <1>1, <2>1, <2>2, <3>1 DEF Counts
    <3> QED
      BY <2>1, <3>1, <3>2 DEF Asked, Counts
  <2>3. CASE tedge = 7
    <3>1. Made' = 8
      BY <1>1, <2>1, <2>3
    <3>2. /\ \/ \E s \in Acks : tstate' = s /\ said' = s /\ tedge' = 8
             \/ tstate' = "lost" /\ UNCHANGED said
          /\ UNCHANGED took
      BY <1>2, <1>8, <2>3 DEF TargetEdge, Acks
    <3> QED
      BY <2>1, <3>1, <3>2 DEF Asked
  <2> QED
    BY <2>1, <2>2, <2>3
<1>9. tstate \notin Acks
  BY <1>1, <1>3 DEF Asked, Acks
<1> QED
  BY <1>3, <1>6, <1>7, <1>8, <1>9 DEF Asked

\* The other transactions leave the target idle or lost.
LEMMA QuietEdge ==
  ASSUME IInv, Clock, phase \notin {"request"} \union OneBurst
  PROVE  /\ tstate \in {"idle", "lost"} /\ tstate' \in {"idle", "lost"} /\ said' = said
         /\ took' = took /\ (tstate' = "lost" /\ tstate # "lost"
                                  => phase \in {"swj", "din", "dout"})
<1>0. CpuTypes /\ PlaceInv /\ WireInv /\ EdgeInv
  BY Zenon, Parts DEF IInv
<1>1. at = "clock"
  BY ClockCounts
<1>2. phase \in {"idle", "swj", "din", "dout"}
  BY <1>0, <1>1 DEF PlaceInv, OneBurst, Sends, Listens
<1>3. tstate \in {"idle", "lost"}
  BY <1>0 DEF EdgeInv
<1>4. CASE phase = "idle"
  <2>1. TargetEdge(HostDrives, 0) /\ HostDrives
    <3>1. TargetEdge(HostDrives, Bit("idle", done')) /\ HostDrives
      BY <1>4, ClockEdges DEF Transfers, Sends
    <3> QED
      BY <3>1 DEF Bit
  <2>2. UNCHANGED target
    BY <1>3, <2>1 DEF TargetEdge, Acks
  <2> QED
    BY <1>3, <2>2 DEF target
<1>5. CASE phase \in {"swj", "dout"}
  <2>1. \/ UNCHANGED target
        \/ SequenceEdge(left = 0 /\ done' = clocks)
        \/ SequenceEdge(FALSE)
    BY <1>5, Zenon DEF Clock
  <2> QED
    BY <1>3, <1>5, <2>1 DEF SequenceEdge, target
<1>6. CASE phase = "din"
  <2>1. ~HostDrives
    BY <1>0, <1>1, <1>6 DEF HostDrives, WireInv, Listens
  <2>2. UNCHANGED target \/ TargetEdge(HostDrives, Undriven)
    <3>1. phase \notin {"swj", "dout"} /\ phase \notin Sends
      BY <1>6 DEF Sends
    <3> QED
      BY <3>1, Zenon DEF Clock
  <2>3. UNCHANGED target \/ Counts("lost", 0)
    BY <1>3, <2>1, <2>2 DEF TargetEdge, Acks
  <2> QED
    BY <1>3, <1>6, <2>3 DEF Counts, target
<1> QED
  BY <1>2, <1>4, <1>5, <1>6

\* The sample a listening host stores where the target drives is named by its edge.
LEMMA SampleEdge ==
  ASSUME IInv, Clock, phase \in {"ack", "rdata"}, said # "none",
         Driven(Edge(Base, done + 1))
  PROVE  got' = Append(got, Edge(Base, done + 1))
<1>0. /\ TargetTypes /\ PinTypes /\ PlaceInv /\ WireInv /\ EdgeInv
  BY Zenon, Parts DEF IInv
<1>1. /\ at = "clock" /\ done \in Nat
      /\ UNCHANGED <<standard, noe, dir, conf, rnw>>
  BY ClockCounts
<1> DEFINE t == conf.trn
           E == End
           b == Base
<1>2. /\ said' = said /\ b \in Nat /\ E \in Nat
      /\ \/ tstate = "lost" /\ UNCHANGED target
         \/ /\ said \in Acks /\ tstate = said /\ tedge = b + done /\ Transfer = E
            /\ tedge + 1 <= E
            /\ IF tedge + 1 = E THEN tstate' = "idle" /\ tedge' = 0
                                ELSE tstate' = tstate /\ tedge' = tedge + 1
  BY BurstEdge DEF OneBurst
<1>3. tstate # "lost"
  <2>1. Follows(8) \/ Follows(DataAt + conf.trn)
    BY <1>0, <1>1 DEF EdgeInv
  <2> QED
    BY <2>1 DEF Follows, Acks
<1>4. ~noe /\ ~dir
  BY <1>0, <1>1 DEF WireInv, PlaceInv, Transfers, Listens
<1>5. got' = Append(got, IF standard THEN Line ELSE Line')
  BY <1>4 DEF Clock, Listens
<1> DEFINE n == IF rnw /\ (said = "OK" \/ conf.dataPhase) THEN DataBits ELSE 0
           e == Edge(b, done + 1)
<1>6. /\ t \in Nat /\ t >= 1 /\ DataBits \in Nat /\ n \in Nat /\ AckAt = t + 8 /\ DataAt = t + 11
      /\ E >= DataAt + t + n
  BY <1>0, Configured, Lengths DEF DataAt, AckAt, End
<1>7. AckAt <= e /\ e < DataAt + n
  BY DEF Driven
<1>8. e = (IF standard THEN tedge ELSE tedge + 1)
  BY <1>1, <1>2, <1>3 DEF Edge
<1>9. (IF rnw /\ HasData THEN DataBits ELSE 0) = n
  BY <1>2, <1>3 DEF HasData
<1>10. CASE standard
  <2>1. TargetDrives
    BY <1>2, <1>3, <1>7, <1>8, <1>9, <1>10, Zenon DEF TargetDrives
  <2> QED
    BY <1>5, <1>8, <1>10, <2>1 DEF Line
<1>11. CASE ~standard
  <2>1. e = tedge + 1
    BY <1>8, <1>11
  <2> HIDE DEF e, n, E, b, t
  <2>2. tstate' = tstate /\ tedge' = tedge + 1
    BY <1>2, <1>3, <1>6, <1>7, <2>1
  <2>3. (IF rnw /\ HasData THEN DataBits ELSE 0)' = n /\ AckAt' = AckAt /\ DataAt' = DataAt
    BY <1>1, <1>9, <2>2 DEF HasData, AckAt, DataAt
  <2>4. AckAt' <= tedge' /\ tedge' < DataAt' + n /\ tstate' \in Acks
    BY <1>2, <1>3, <1>7, <2>1, <2>2, <2>3
  <2>5. TargetDrives'
    BY <2>3, <2>4, Zenon DEF TargetDrives
  <2> QED
    BY <1>5, <1>11, <2>1, <2>2, <2>5 DEF Line, e, b
<1> QED
  BY <1>0, <1>10, <1>11 DEF PinTypes

\* A clock keeps the counts of both, names its sample and moves one bit of write data.
LEMMA ClockIInv == IInv /\ Clock => IInv'
<1> SUFFICES ASSUME IInv, Clock PROVE IInv'
  OBVIOUS
<1>0. /\ TypeOK /\ TargetTypes /\ PinTypes /\ BurstTypes /\ CpuTypes /\ AnswerTypes
      /\ PlaceInv /\ CountInv /\ WireInv
      /\ EdgeInv /\ AckInv /\ SampleInv /\ TookInv /\ ExactInv
  BY Zenon, Parts DEF IInv
<1>a. /\ at = "clock" /\ done \in Nat /\ clocks \in Nat /\ done < clocks /\ done' = done + 1
      /\ UNCHANGED <<standard, cs, noe, dir, pad, clkNoe, idleLevel, clocks, at, phase,
                     left, rest, response, ack, value, parity, result, conf, rnw>>
      /\ Made' = Made + 1 /\ Made \in Nat
  BY ClockCounts
<1>b. said # "none" => phase # "request" \/ Made = 8
  BY <1>0 DEF EdgeInv, Asked
<1>c. phase # "request" => said' = said
  BY BurstEdge, QuietEdge
<1>1. TargetTypes'
  <2>1. \/ UNCHANGED target \/ \E r \in BOOLEAN : SequenceEdge(r)
        \/ \E d, l : TargetEdge(d, l)
    BY Zenon DEF Clock
  <2>2. CASE UNCHANGED target
    BY <1>0, <1>a, <2>2 DEF TargetTypes, target
  <2>3. CASE \E r \in BOOLEAN : SequenceEdge(r)
    BY <1>0, <1>a, <2>3 DEF TargetTypes, SequenceEdge
  <2>4. CASE \E d, l : TargetEdge(d, l)
    BY <1>0, <1>a, <2>4 DEF TargetTypes, TargetEdge, Counts, target
  <2> QED
    BY <2>1, <2>2, <2>3, <2>4
<1>2. PinTypes'
  BY <1>0, <1>a, Zenon DEF PinTypes
<1>3. got' = got \/ \E x \in Nat : got' = Append(got, x)
  <2>1. Line \in Nat /\ Line' \in Nat /\ Undriven \in Nat
    BY <1>0, <1>1 DEF Line, TargetTypes, Undriven
  <2> QED
    BY <2>1 DEF Clock
<1>4. BurstTypes'
  BY <1>0, <1>a, <1>3 DEF BurstTypes
<1>5. CpuTypes'
  BY <1>0, <1>a, Zenon DEF CpuTypes
<1>6. AnswerTypes'
  BY <1>0, <1>a, Zenon DEF AnswerTypes
<1>7. PlaceInv'
  BY <1>0, <1>a, Zenon DEF PlaceInv
<1>8. CountInv'
  <2>1. Bits(phase)' = Bits(phase)
    BY <1>a DEF Bits
  <2>2. Len(got') = IF phase \in Listens THEN done' ELSE 0
    <3>1. CASE phase \in Listens
      <4>1. \E x : got' = Append(got, x)
        BY <3>1 DEF Clock
      <4> QED
        BY <1>0, <1>a, <3>1, <4>1 DEF CountInv, BurstTypes
    <3>2. CASE phase \notin Listens
      BY <1>0, <3>2 DEF CountInv, Clock
    <3> QED
      BY <3>1, <3>2
  <2> QED
    BY <1>0, <1>a, <2>1, <2>2 DEF CountInv
<1>9. WireInv'
  BY <1>0, <1>a DEF WireInv
<1>10. EdgeInv'
  <2>1. phase # "request" => End' = End /\ Base' = Base /\ DataAt' = DataAt
    BY <1>a, <1>c, Zenon DEF End, Base, DataAt, AckAt
  <2>2. CASE phase = "request"
    BY <1>a, <2>2, RequestEdge DEF EdgeInv, OneBurst
  <2>3. CASE phase \in OneBurst
    <3>1. phase # "request"
      BY <2>3 DEF OneBurst
    <3>2. Follows(Base)' \/ (phase = "backoff" /\ tstate' = "lost")
      <4> DEFINE E == End
                 b == Base
                 M == Made
      <4>1. /\ M = done /\ said' = said /\ b \in Nat /\ E \in Nat
            /\ \/ tstate = "lost" /\ UNCHANGED target
               \/ phase = "backoff" /\ tstate = "idle" /\ tstate' = "lost"
               \/ /\ said \in Acks /\ tstate = said /\ tedge = b + done /\ tedge + 1 <= E
                  /\ IF tedge + 1 = E THEN tstate' = "idle" /\ tedge' = 0
                                      ELSE tstate' = tstate /\ tedge' = tedge + 1
        BY <2>3, BurstEdge
      <4>2. M' = M + 1 /\ b' = b /\ E' = E
        BY <1>a, <2>1, <3>1
      <4>3. tstate = "lost" => said = "none" \/ phase = "backoff"
        <5>1. phase # "backoff" => Follows(b)
          BY <1>0, <1>a, <2>3, Zenon DEF EdgeInv, OneBurst, Base
        <5> QED
          BY <5>1 DEF Follows, Acks
      <4>4. Follows(b)' <=>
              \/ tstate' = "lost" /\ said' = "none"
              \/ /\ said' \in Acks
                 /\ \/ tstate' = said' /\ tedge' = b' + M' /\ b' + M' < E'
                    \/ tstate' = "idle" /\ b' + M' = E'
        BY Zenon DEF Follows
      <4> HIDE DEF E, b, M
      <4>5. CASE tstate = "lost"
        BY <4>1, <4>3, <4>4, <4>5 DEF target, Acks, b
      <4>6. CASE tstate = said /\ said \in Acks
        <5>1. /\ tedge = M + b /\ tedge + 1 <= E
              /\ IF tedge + 1 = E THEN tstate' = "idle"
                                  ELSE tstate' = tstate /\ tedge' = tedge + 1
          BY <1>a, <4>1, <4>6 DEF Acks
        <5>2. M \in Nat /\ b' + M' = tedge + 1
          BY <1>a, <4>1, <4>2, <5>1
        <5> QED
          BY <4>1, <4>2, <4>4, <4>6, <5>1, <5>2 DEF b
      <4> QED
        BY <4>1, <4>5, <4>6
    <3> QED
      BY <1>a, <2>3, <3>2 DEF EdgeInv, Base, OneBurst
  <2>4. CASE phase \notin {"request"} \union OneBurst
    BY <1>a, <2>4, QuietEdge DEF EdgeInv, OneBurst
  <2> QED
    BY <2>2, <2>3, <2>4
<1>11. AckInv'
  BY <1>0, <1>a, <1>c DEF AckInv
<1>12. SampleInv'
  <2>1. CASE phase \in {"ack", "rdata"} /\ said # "none"
    <3>1. said' = said /\ \A s, b : Samples(s, b) =>
                            \A k \in 1..Len(s) : Driven(Edge(b, k))' => s[k] = Edge(b, k)
      BY <1>a, <1>c, <2>1 DEF Samples, Driven, Edge, AckAt, DataAt
    <3>2. Samples(got, Base)
      BY <1>0, <2>1 DEF SampleInv, Base
    <3>3. got \in Seq(Nat) /\ Len(got) = done
      BY <1>0, <2>1 DEF BurstTypes, CountInv, Listens
    <3>4. PICK x : got' = Append(got, x)
      BY <2>1 DEF Clock, Listens
    <3>5. Base' = Base /\ \A b, k : Edge(b, k)' = Edge(b, k) /\ (Driven(k)' <=> Driven(k))
      BY <1>a, <3>1 DEF Base, Edge, Driven, AckAt, DataAt
    <3>6. Samples(got, Base)'
      BY <1>a, <2>1, <3>2, <3>3, <3>4, <3>5, SampleEdge DEF Samples
    <3>7. Samples(response, 8) => Samples(response, 8)'
      BY <1>a, <3>5 DEF Samples
    <3> QED
      BY <1>0, <1>a, <2>1, <3>1, <3>6, <3>7 DEF SampleInv, Base
  <2>2. CASE ~(phase \in {"ack", "rdata"} /\ said # "none")
    BY <1>0, <1>a, <1>c, <2>2 DEF SampleInv
  <2> QED
    BY <2>1, <2>2
<1>13. TookInv'
  <2>1. CASE phase = "request"
    BY <1>0, <1>a, <2>1, RequestEdge DEF TookInv
  <2>2. CASE phase = "ack"
    <3>1. took' = took
      BY <2>2, BurstEdge DEF OneBurst, target
    <3> QED
      BY <1>0, <1>a, <2>2, <3>1 DEF TookInv
  <2>4. CASE phase = "wdata" /\ said # "none"
    <3>1. said = "OK" /\ ~rnw /\ took = Made
      BY <1>0, <1>a, <2>4 DEF AckInv, TookInv
    <3>2. tstate # "lost"
      <4>1. Follows(DataAt + conf.trn)
        BY <1>0, <1>a, <2>4 DEF EdgeInv
      <4> QED
        BY <2>4, <4>1 DEF Follows, Acks
    <3>3. /\ tstate = said /\ tedge = Base + done
          /\ took' = IF /\ tstate = "OK" /\ ~rnw /\ tedge >= DataAt + conf.trn
                        /\ Data(done + 1) = Data(tedge - (DataAt + conf.trn) + 1)
                     THEN took + 1 ELSE took
      BY <2>4, <3>2, BurstEdge DEF OneBurst
    <3> DEFINE d == DataAt + conf.trn
    <3>4. d \in Nat /\ tedge = d + done
      BY <1>0, <2>4, <3>3, Configured DEF DataAt, AckAt, Base
    <3> HIDE DEF d
    <3>5. tedge >= d /\ tedge - d + 1 = done + 1
      BY <1>a, <3>4
    <3>6. took' = took + 1
      BY <3>1, <3>3, <3>5, Zenon DEF d
    <3> QED
      BY <1>a, <1>c, <2>4, <3>1, <3>6 DEF TookInv
  <2>5. CASE phase = "wdata" /\ said = "none"
    BY <1>a, <1>c, <2>5 DEF TookInv
  <2>3. CASE phase \notin {"request", "ack", "wdata"}
    BY <1>a, <2>3 DEF TookInv
  <2> QED
    BY <2>1, <2>2, <2>3, <2>4, <2>5
<1>14. ExactInv'
  <2>1. CASE phase \in {"idle", "readBack"}
    <3>1. took' = took /\ said' = said
      BY <2>1, QuietEdge DEF OneBurst
    <3> QED
      BY <1>0, <1>a, <2>1, <3>1 DEF ExactInv, DataDone, Verdict, DataAt, AckAt
  <2>2. CASE phase \notin {"idle", "readBack"}
    BY <1>a, <2>2 DEF ExactInv, DataDone
  <2> QED
    BY <2>1, <2>2
<1>15. TypeOK'
  BY <1>1, <1>2, <1>4, <1>5, <1>6, Zenon DEF TypeOK, PinTypes, BurstTypes, CpuTypes,
     AnswerTypes
<1> QED
  BY Zenon, <1>7, <1>8, <1>9, <1>10, <1>11, <1>12, <1>13, <1>14, <1>15 DEF IInv

-----------------------------------------------------------------------------
\* The initial states.
LEMMA InitIInv == Init => IInv
<1> SUFFICES ASSUME Init PROVE IInv
  OBVIOUS
<1>1. 0 \in Labels /\ 1 \in Labels
  BY DEF Labels, Levels
<1>2. TypeOK
  <2>1. TargetTypes
    BY DEF Init, TargetTypes
  <2>4. CpuTypes
    BY EmptySeq DEF Init, CpuTypes, Phases
  <2>2. PinTypes
    BY <1>1, SpiAssumption DEF Init, PinTypes
  <2>3. BurstTypes /\ AnswerTypes
    BY Lengths DEF Init, BurstTypes, AnswerTypes
  <2> QED
    BY <2>1, <2>2, <2>3, <2>4, Parts
<1>3. PlaceInv /\ CountInv /\ WireInv
  BY DEF Init, PlaceInv, CountInv, WireInv, Transfers, Listens
<1>4. EdgeInv /\ AckInv /\ SampleInv /\ TookInv /\ ExactInv
  BY DEF Init, EdgeInv, AckInv, SampleInv, TookInv, ExactInv
<1> QED
  BY <1>2, <1>3, <1>4 DEF IInv

\* Every step preserves the invariant.
LEMMA NextIInv == IInv /\ [Next]_vars => IInv'
<1> SUFFICES ASSUME IInv, [Next]_vars PROVE IInv'
  OBVIOUS
<1>1. CASE UNCHANGED vars
  <2>1. /\ UNCHANGED <<standard, cs, noe, dir, pad, clkNoe, idleLevel, clocks, done, got, at>>
        /\ UNCHANGED <<phase, left, rest, response, ack, value, parity, result, conf, rnw>>
        /\ UNCHANGED <<tstate, tedge, said, took>>
    BY <1>1, Zenon DEF vars, pins, burst, answer, target
  <2>2. TypeOK'
    <3>1. TypeOK
      BY DEF IInv
    <3> QED
      BY <2>1, <3>1 DEF TypeOK, TargetTypes
  <2>3. PlaceInv' /\ CountInv' /\ WireInv'
    <3>1. \A k : Bit(phase, k)' = Bit(phase, k) /\ Bits(phase)' = Bits(phase)
      BY <2>1, Zenon DEF Bits, Bit
    <3> QED
      BY <2>1, <3>1 DEF IInv, PlaceInv, CountInv, WireInv
  <2>4. /\ Made' = Made /\ End' = End /\ DataAt' = DataAt /\ AckAt' = AckAt
    BY <2>1, Zenon DEF Made, End, Bits, DataAt, AckAt
  <2>5. EdgeInv'
    BY <2>1, <2>4, Zenon DEF IInv, EdgeInv, Asked, Follows
  <2>6. AckInv' /\ TookInv' /\ ExactInv'
    BY <2>1, <2>4, Zenon DEF IInv, AckInv, TookInv, ExactInv, DataDone, Verdict
  <2>7. SampleInv'
    BY <2>1, <2>4, Zenon DEF IInv, SampleInv, Samples, Edge, Driven
  <2> QED
    BY <2>2, <2>3, <2>5, <2>6, <2>7, Zenon DEF IInv
<1>2. CASE Next
  BY <1>2, TurnIInv, StartIInv, ClockIInv, FinishIInv, NextPhaseIInv, ReturnIInv,
     EndsIInv, NextSequenceIInv, swd_esp_spi_transferIInv, swd_esp_spi_swj_sequenceIInv,
     DAP_SWD_SequenceIInv, SetDataIdleIInv, SWD_ConfigureIInv, swd_esp_port_setupIInv,
     swd_esp_port_offIInv, Zenon DEF Next
<1> QED
  BY <1>1, <1>2

\* So it holds in every reachable state.
LEMMA Invariance == Spec => []IInv
BY InitIInv, NextIInv, PTL DEF Spec

-----------------------------------------------------------------------------
(***************************************************************************)
(* The theorems.                                                           *)
(***************************************************************************)
\* The variables keep their types: a transaction is never longer than the
\* controller allows, and the bits of a read are all there when they are put together.
THEOREM TypeCorrect == Spec => []TypeOK
<1>1. IInv => TypeOK
  BY DEF IInv
<1> QED
  BY <1>1, Invariance, PTL

\* A transfer that is answered and reports OK was answered OK, and then the bits of a
\* read are in their places and those of a write were all taken.
THEOREM TransfersAreExact == Spec => []OkIsExact
<1>1. IInv => OkIsExact
  BY Zenon DEF IInv, ExactInv, DataDone, Verdict, OkIsExact
<1> QED
  BY <1>1, Invariance, PTL

\* While the translator is enabled the pad and DIR1 agree, point the way of the
\* phase, and the line has the first bit's level before the first clock.
THEOREM WireIsAsMeant == Spec => []WireIsMeant
<1>1. IInv => WireIsMeant
  <2> SUFFICES ASSUME IInv PROVE WireIsMeant
    OBVIOUS
  <2>1. WireInv /\ PlaceInv /\ noe \in BOOLEAN
    BY DEF IInv, TypeOK
  <2>2. CASE ~noe
    <3>1. at = "clock" /\ cs /\ pad = dir
      BY <2>1, <2>2 DEF WireInv
    <3>2. phase \in Sends => dir
      BY <2>1, <3>1 DEF WireInv, Sends
    <3>3. phase \in Listens => ~dir
      BY <2>1, <3>1 DEF WireInv
    <3>4. done = 0 /\ phase \in Sends => idleLevel = Bit(phase, 1)
      BY <2>1, <3>1, Zenon DEF WireInv
    <3> QED
      BY <3>1, <3>2, <3>3, <3>4, Zenon DEF WireIsMeant
  <2> QED
    BY <2>1, <2>2 DEF WireIsMeant
<1> QED
  BY <1>1, Invariance, PTL

\* What a step does to the target.
LEMMA TargetStep ==
  ASSUME IInv, [Next]_vars
  PROVE  \/ Clock
         \/ UNCHANGED <<tstate, tedge>>
<1>1. CASE Next
  BY <1>1, Zenon DEF Next, Turn, Start, Finish, NextPhase, Return, Ends, NextSequence,
     swd_esp_spi_transfer, swd_esp_spi_swj_sequence, DAP_SWD_Sequence, SetDataIdle,
     SWD_Configure, swd_esp_port_setup, swd_esp_port_off, Forget, target
<1>2. CASE UNCHANGED vars
  BY <1>2, Zenon DEF vars, target
<1> QED
  BY <1>1, <1>2

\* A target that follows a transfer is lost to it only in a backoff or a sequence, and
\* every call returns with the target between transfers or lost.
THEOREM StaysInStep == Spec => InStep
<1>1. IInv /\ IInv' /\ [Next]_vars =>
        [ /\ at' = "ready" => tstate' \in {"idle", "lost"}
          /\ tstate' = "lost" /\ tstate \notin {"request", "lost"}
               => phase \in {"backoff", "swj", "din", "dout"} ]_vars
  <2> SUFFICES ASSUME IInv, IInv', [Next]_vars
               PROVE  /\ at' = "ready" => tstate' \in {"idle", "lost"}
                      /\ tstate' = "lost" /\ tstate \notin {"request", "lost"}
                           => phase \in {"backoff", "swj", "din", "dout"}
    OBVIOUS
  <2>1. at' = "ready" => tstate' \in {"idle", "lost"}
    BY DEF IInv, EdgeInv
  <2>2. ASSUME tstate' = "lost", tstate \notin {"request", "lost"}
        PROVE  phase \in {"backoff", "swj", "din", "dout"}
    <3>1. Clock
      BY <2>2, TargetStep
    <3>2. CASE phase = "request"
      <4>1. Asked /\ Asked' /\ done \in Nat /\ Made < 8
        BY <3>1, <3>2, ClockCounts DEF IInv, EdgeInv, Bits
      <4> QED
        <5>1. tstate = "idle" /\ Made = 0 /\ Made' = 1 /\ said = "none"
          BY <2>2, <3>1, <3>2, <4>1, ClockCounts DEF Asked, Acks
        <5>2. TargetEdge(HostDrives, Bit("request", done')) /\ HostDrives
          BY <3>1, <3>2, ClockEdges DEF Transfers, Sends
        <5>3. Bit("request", done') = 1
          <6>1. left + clocks <= 8 /\ left \in Nat /\ clocks \in Nat /\ done \in Nat
                /\ done' = done + 1 /\ Made = (8 - left) - (clocks - done)
            BY <3>1, <3>2, ClockCounts DEF Bits, Made
          <6>2. done' = 1
            BY <5>1, <6>1
          <6> QED
            BY <6>2 DEF Bit
        <5>4. tstate' = "request"
          BY <5>1, <5>2, <5>3 DEF TargetEdge, Counts, Acks
        <5> QED
          BY <2>2, <5>4
    <3>3. CASE phase \in OneBurst
      BY <2>2, <3>1, <3>3, BurstEdge DEF Acks
    <3>4. CASE phase \notin {"request"} \union OneBurst
      BY <2>2, <3>1, <3>4, QuietEdge
    <3> QED
      BY <3>2, <3>3, <3>4
  <2> QED
    BY <2>1, <2>2
<1> QED
  BY <1>1, Invariance, PTL DEF Spec, InStep

\* The host and the target never drive together.
LEMMA NoClash == IInv => ~(HostDrives /\ TargetDrives)
<1> SUFFICES ASSUME IInv, HostDrives, TargetDrives PROVE FALSE
  OBVIOUS
<1>0. /\ TargetTypes /\ PinTypes /\ CpuTypes /\ BurstTypes /\ PlaceInv /\ CountInv
      /\ WireInv /\ EdgeInv /\ AckInv
  BY Zenon, Parts DEF IInv
<1>1. at = "clock" /\ dir
  BY <1>0 DEF HostDrives, WireInv
<1>2. phase \in Sends
  BY <1>0, <1>1 DEF PlaceInv, WireInv
<1>3. tstate \in Acks /\ tedge >= AckAt
      /\ tedge < DataAt + (IF rnw /\ HasData THEN DataBits ELSE 0)
  BY DEF TargetDrives
<1>4. /\ conf.trn \in Nat /\ conf.trn >= 1 /\ AckAt = conf.trn + 8 /\ DataAt = conf.trn + 11
  BY <1>0, Configured DEF AckAt, DataAt
<1>5. phase \in {"request", "wdata", "zero"}
  BY <1>0, <1>2, <1>3 DEF EdgeInv, OneBurst, Sends, Acks
<1>6. phase # "request"
  BY <1>0, <1>3, <1>4 DEF EdgeInv, Asked, Acks
<1>7. Follows(DataAt + conf.trn) /\ ~rnw
  BY <1>0, <1>1, <1>5, <1>6 DEF EdgeInv, AckInv
<1>8. tedge = DataAt + conf.trn + Made
  BY <1>3, <1>7 DEF Follows, Acks
<1>9. Made \in Nat
  <2> DEFINE B == Bits(phase)
  <2>1. clocks \in Nat /\ done \in Nat /\ done <= clocks /\ left \in Nat
    BY <1>0, Lengths DEF CpuTypes, BurstTypes
  <2>2. B \in Nat /\ left + clocks <= B
    BY <1>0, <1>1, BitsTypes DEF CountInv
  <2>3. Made = (B - left) - (clocks - done)
    BY Zenon DEF Made
  <2> HIDE DEF B
  <2> QED
    BY <2>1, <2>2, <2>3
<1> QED
  BY <1>3, <1>4, <1>7, <1>8, <1>9


\* A step changes what the host drives or what the target drives, never both.
LEMMA OneOfTheTwo ==
  ASSUME IInv, [Next]_vars
  PROVE  (HostDrives' <=> HostDrives) \/ (TargetDrives' <=> TargetDrives)
<1>1. \/ UNCHANGED <<noe, dir, pad>>
      \/ UNCHANGED <<tstate, tedge, conf, rnw>>
      \/ swd_esp_port_off
  <2>1. CASE Next
    BY <2>1, Zenon DEF Next, Turn, Start, Clock, Finish, NextPhase, Return, Ends,
       NextSequence, swd_esp_spi_transfer, swd_esp_spi_swj_sequence, DAP_SWD_Sequence,
       SetDataIdle, SWD_Configure, swd_esp_port_setup, Forget, target, pins
  <2>2. CASE UNCHANGED vars
    BY <2>2, Zenon DEF vars, pins
  <2> QED
    BY <2>1, <2>2
<1>2. CASE UNCHANGED <<noe, dir, pad>>
  BY <1>2, Zenon DEF HostDrives
<1>3. CASE UNCHANGED <<tstate, tedge, conf, rnw>>
  BY <1>3, Zenon DEF TargetDrives, HasData, AckAt, DataAt
<1>4. CASE swd_esp_port_off
  <2>1. noe /\ noe' = noe
    BY <1>4 DEF IInv, WireInv, swd_esp_port_off, Forget
  <2> QED
    BY <2>1 DEF HostDrives
<1> QED
  BY <1>1, <1>2, <1>3, <1>4

\* The wire between the translator and the target has one driver at a time, and is
\* released between the turn of one and that of the other.
THEOREM TurnsAreTaken == Spec => TurnsSpec
<1>1. Init => Wire!Init
  BY DEF Init, Wire!Init, Driver, HostDrives, TargetDrives, Acks
<1>2. IInv' => ~(HostDrives' /\ TargetDrives')
  BY NoClash, PTL
<1>3. IInv /\ IInv' /\ [Next]_vars => [Wire!Next]_Driver
  <2> SUFFICES ASSUME IInv, IInv', [Next]_vars PROVE [Wire!Next]_Driver
    OBVIOUS
  <2>1. ~(HostDrives /\ TargetDrives) /\ ~(HostDrives' /\ TargetDrives')
    BY <1>2, NoClash
  <2>2. (HostDrives' <=> HostDrives) \/ (TargetDrives' <=> TargetDrives)
    BY OneOfTheTwo
  <2>3. Driver = IF HostDrives THEN "host" ELSE IF TargetDrives THEN "target" ELSE "none"
    BY <2>1 DEF Driver
  <2>4. Driver' = IF HostDrives' THEN "host" ELSE IF TargetDrives' THEN "target" ELSE "none"
    BY <2>1 DEF Driver
  <2>5. Driver' = "none" \/ Driver = "none" \/ Driver' = Driver
    BY <2>1, <2>2, <2>3, <2>4
  <2>6. Driver' \in Wire!Drivers
    BY <2>4 DEF Wire!Drivers
  <2> QED
    BY <2>5, <2>6 DEF Wire!Next, Wire!Release, Wire!Drive
<1> QED
  BY <1>1, <1>3, Invariance, PTL DEF Spec, TurnsSpec, Wire!Spec
=============================================================================
