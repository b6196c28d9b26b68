--------------------------- MODULE DapServer_proofs --------------------------
(***************************************************************************)
(* Proofs about DapServer, for any number of packets, any batches and any  *)
(* clock of the CPU: the ring never refuses a request of a client that     *)
(* keeps to the reported packets, a slot that is being sent is left alone  *)
(* although it counts as free, the delay of half a period is right, and    *)
(* the whole implements DapService.  A batch may have any length: while it *)
(* runs, DAP_Data, the cursor and the answers are those of the commands    *)
(* run so far (ExecInv), and the step of DapService is Executed.           *)
(***************************************************************************)
EXTENDS DapServer, SequenceTheorems, FiniteSetTheorems, TLAPS

One(b) == IF b THEN 1 ELSE 0

\* The slots that are free, that wait to be sent and the one that is filled are all
\* there are; they lie behind one another in the ring, the one being sent before
\* them; and every request under way is in one of them or with the transport.
RingInv ==
  /\ freeCount + sendCount + One(Running) = PacketCount
  /\ recvIdx = (sendIdx + sendCount) % PacketCount
  /\ sending # None => sendIdx = (sending + 1) % PacketCount
  /\ asked - given = Len(pending) + One(Running) + sendCount + One(sending # None)
  /\ asked - given <= PacketCount

IInv == TypeOK /\ RingInv /\ ClockNotExceeded

\* What has been done of the request that is served: DAP_Data and the answers are
\* those of the commands run so far, and the cursor is behind the last of them.
ExecInv ==
  /\ conf = Service!Along(before, cmds)[ran]
  /\ cursor = Ends(cmds)[ran]
  /\ Running => slot[recvIdx].answers
                  = [k \in 1..ran |-> Answer(Service!Along(before, cmds)[k - 1], cmds[k])]

-----------------------------------------------------------------------------
\* What integer division does.
LEMMA Quotient ==
  ASSUME NEW a \in Nat, NEW b \in Nat \ {0}
  PROVE  /\ a \div b \in Nat
         /\ b * (a \div b) <= a
         /\ a < b * ((a \div b) + 1)
OBVIOUS

\* Positions in the ring.
LEMMA Wraps ==
  ASSUME NEW s \in Nat, s < 2 * PacketCount
  PROVE  s % PacketCount = IF s < PacketCount THEN s ELSE s - PacketCount
<1>1. PacketCount \in Nat /\ PacketCount >= 1
  BY QueueAssumption
<1>2. CASE s < PacketCount
  BY <1>1, <1>2
<1>3. CASE s >= PacketCount
  BY <1>1, <1>3
<1> QED
  BY <1>1, <1>2, <1>3

\* Half a period of at least what was asked for, and a cycle less is too short.
LEMMA DelayExact ==
  ASSUME NEW hz \in Nat \ {0}, hz < MaxSwjClock
  PROVE  /\ Delay(hz) \in Nat \ {0}
         /\ (WriteCycles + Delay(hz)) * hz >= HalfClock
         /\ (WriteCycles + Delay(hz) - 1) * hz < HalfClock
<1> DEFINE half == (HalfClock + hz - 1) \div hz
<1>0. /\ HalfClock \in Nat /\ WriteCycles \in Nat /\ WriteCycles >= 1 /\ FastCycles \in Nat
      /\ HalfClock >= 1 /\ hz >= 1 /\ WriteCycles + FastCycles \in Nat \ {0}
  BY ClockAssumption
<1>1. half \in Nat /\ hz * half <= HalfClock + hz - 1 /\ HalfClock + hz - 1 < hz * (half + 1)
  BY <1>0, Quotient
<1>2. half * hz >= HalfClock /\ (half - 1) * hz < HalfClock
  BY <1>0, <1>1
<1>3. WriteCycles * hz < HalfClock
  <2>1. (WriteCycles + FastCycles) * MaxSwjClock <= HalfClock /\ MaxSwjClock \in Nat
    BY <1>0, Quotient DEF MaxSwjClock
  <2>2. (WriteCycles + FastCycles) * (hz + 1) <= (WriteCycles + FastCycles) * MaxSwjClock
    BY <1>0, <2>1
  <2>3. WriteCycles * hz < (WriteCycles + FastCycles) * (hz + 1)
    BY <1>0
  <2> QED
    BY <1>0, <2>1, <2>2, <2>3
<1> HIDE DEF half
<1>4. CASE half > WriteCycles
  <2>1. Delay(hz) = half - WriteCycles
    BY <1>4 DEF Delay, half
  <2> QED
    BY <1>0, <1>1, <1>2, <1>4, <2>1
<1>5. CASE half <= WriteCycles
  <2>1. Delay(hz) = 1
    BY <1>0, <1>1, <1>5 DEF Delay, half
  <2>2. half * hz <= (WriteCycles + 1) * hz
    BY <1>0, <1>1, <1>5
  <2> QED
    BY <1>0, <1>1, <1>2, <1>3, <2>1, <2>2
<1> QED
  BY <1>0, <1>1, <1>4, <1>5

\* A fast clock needs no delay.
LEMMA FastExact ==
  ASSUME NEW hz \in Nat, hz >= MaxSwjClock
  PROVE  (hz + 1) * (WriteCycles + FastCycles) > HalfClock
<1>1. WriteCycles + FastCycles \in Nat \ {0} /\ HalfClock \in Nat
  BY ClockAssumption
<1>2. HalfClock < (WriteCycles + FastCycles) * (MaxSwjClock + 1) /\ MaxSwjClock \in Nat
  BY <1>1, Quotient DEF MaxSwjClock
<1>3. (WriteCycles + FastCycles) * (MaxSwjClock + 1) <= (WriteCycles + FastCycles) * (hz + 1)
  BY <1>1, <1>2
<1> QED
  BY <1>1, <1>2, <1>3

\* ClockNotExceeded of any DAP_Data.
Paced(c) ==
  c.hz > 0 =>
    IF c.fast THEN (c.hz + 1) * (WriteCycles + FastCycles) > HalfClock
    ELSE /\ (WriteCycles + c.delay) * c.hz >= HalfClock
         /\ (WriteCycles + c.delay - 1) * c.hz < HalfClock

\* A clock that is set is paced,
LEMMA ClockedPaced ==
  ASSUME NEW c \in Confs, NEW hz \in Nat \ {0}
  PROVE  Clocked(c, hz) \in Confs /\ Paced(Clocked(c, hz))
<1> DEFINE f == hz >= MaxSwjClock
           e == IF f THEN 1 ELSE Delay(hz)
           d == [c EXCEPT !.hz = hz, !.fast = f, !.delay = e]
<1>0. MaxSwjClock \in Nat
  <2>1. HalfClock \in Nat /\ WriteCycles + FastCycles \in Nat \ {0}
    BY ClockAssumption
  <2> QED
    BY <2>1, Quotient DEF MaxSwjClock
<1>1. Clocked(c, hz) = d
  BY DEF Clocked
<1>2. f \in BOOLEAN /\ e \in Nat \ {0}
  BY <1>0, DelayExact
<1>3. IF f THEN (hz + 1) * (WriteCycles + FastCycles) > HalfClock
      ELSE (WriteCycles + e) * hz >= HalfClock /\ (WriteCycles + e - 1) * hz < HalfClock
  BY <1>0, DelayExact, FastExact
<1> HIDE DEF f, e
<1>4. d \in Confs /\ d.hz = hz /\ d.fast = f /\ d.delay = e
  BY <1>2 DEF Confs
<1> QED
  BY <1>1, <1>3, <1>4 DEF Paced

\* from DAP_Setup on,
LEMMA SetupPaced ==
  ASSUME NEW hz \in Nat PROVE SetupConf(hz) \in Confs /\ Paced(SetupConf(hz))
<1> DEFINE c == [port |-> Disabled, turnaround |-> 1, dataPhase |-> FALSE,
                 hz |-> 0, fast |-> TRUE, delay |-> 1]
<1>1. c \in Confs /\ Paced(c)
  BY DEF Confs, Paced, Disabled
<1> QED
  BY <1>1, ClockedPaced DEF SetupConf

\* and whatever a command does.
LEMMA EffectPaced ==
  ASSUME NEW c \in Confs, Paced(c), NEW b \in Batches, NEW k \in 1..Len(b)
  PROVE  Effect(c, b[k]) \in Confs /\ Paced(Effect(c, b[k]))
<1> DEFINE cmd == b[k]
<1>0. cmd.arg \in Seq(Nat)
      /\ (cmd.op \in {"SWJ_Clock", "SWD_Configure"} => cmd.arg[1] \in Nat)
  <2>1. /\ b \in Seq([op : Known \union {"Unknown"}, arg : Seq(Nat)])
        /\ cmd.op \in {"SWJ_Clock", "SWD_Configure"} => Len(cmd.arg) >= 1
    BY BatchAssumption
  <2>2. cmd \in [op : Known \union {"Unknown"}, arg : Seq(Nat)]
    BY <2>1, ElementOfSeq
  <2> QED
    BY <2>1, <2>2
<1> HIDE DEF cmd
<1>1. CASE cmd.op = "SWJ_Clock" /\ cmd.arg[1] # 0
  BY <1>0, <1>1, ClockedPaced DEF Effect, cmd
<1>2. CASE cmd.op = "SWD_Configure"
  <2>1. (cmd.arg[1] % 4) + 1 \in 1..4 /\ ((cmd.arg[1] \div 4) % 2 = 1) \in BOOLEAN
    BY <1>0, <1>2
  <2>2. Effect(c, b[k]) = [c EXCEPT !.turnaround = (cmd.arg[1] % 4) + 1,
                                    !.dataPhase = (cmd.arg[1] \div 4) % 2 = 1]
    BY <1>2 DEF Effect, cmd
  <2> QED
    BY <2>1, <2>2 DEF Confs, Paced
<1>3. CASE cmd.op \in {"Connect", "Disconnect"}
  <2>1. Effect(c, b[k]) \in {c, [c EXCEPT !.port = Swd], [c EXCEPT !.port = Disabled]}
    BY <1>3 DEF Effect, cmd
  <2> QED
    BY <2>1 DEF Confs, Paced, Swd, Disabled
<1>4. CASE /\ ~(cmd.op = "SWJ_Clock" /\ cmd.arg[1] # 0)
           /\ cmd.op \notin {"SWD_Configure", "Connect", "Disconnect"}
  BY <1>4 DEF Effect, cmd
<1> QED
  BY <1>1, <1>2, <1>3, <1>4

-----------------------------------------------------------------------------
\* The answers of a command are answers.
LEMMA AnswerTypes == ASSUME NEW c, NEW cmd PROVE Answer(c, cmd) \in Replies
BY DEF Answer, Replies

\* The next place in the ring,
LEMMA NextSlot ==
  ASSUME NEW s \in Slots
  PROVE  /\ (s + 1) % PacketCount = IF s + 1 = PacketCount THEN 0 ELSE s + 1
         /\ (s + 1) % PacketCount \in Slots
<1>1. s \in Nat /\ s < PacketCount /\ PacketCount \in Nat
  BY QueueAssumption DEF Slots
<1> QED
  BY <1>1, Wraps DEF Slots

\* and the place some slots further on.
LEMMA Further ==
  ASSUME NEW s \in Slots, NEW n \in 0..PacketCount
  PROVE  (s + n) % PacketCount = IF s + n < PacketCount THEN s + n ELSE s + n - PacketCount
<1>1. PacketCount \in Nat /\ s \in Nat /\ s < PacketCount /\ n \in Nat /\ n <= PacketCount
  BY QueueAssumption DEF Slots
<1>2. CASE s + n < PacketCount
  BY <1>1, <1>2
<1>3. CASE s + n >= PacketCount
  BY <1>1, <1>3
<1> QED
  BY <1>1, <1>2, <1>3

\* The slot that is being sent is not the one that is filled.
LEMMA Apart ==
  ASSUME IInv, sending # None, Running \/ pending # <<>>
  PROVE  recvIdx # sending
<1>1. /\ sending \in Slots /\ sendIdx \in Slots /\ sendCount \in 0..PacketCount
      /\ recvIdx = (sendIdx + sendCount) % PacketCount
      /\ sendIdx = (sending + 1) % PacketCount
      /\ asked - given <= PacketCount
      /\ asked - given = Len(pending) + One(Running) + sendCount + One(sending # None)
  BY DEF IInv, TypeOK, RingInv
<1>2. Len(pending) \in Nat /\ One(sending # None) = 1 /\ (pending # <<>> => Len(pending) >= 1)
  BY DEF IInv, TypeOK, One
<1>3. sendCount + 2 <= PacketCount
  BY <1>1, <1>2, QueueAssumption DEF One
<1>4. PacketCount \in Nat /\ sending < PacketCount /\ sending \in Nat
  BY <1>1, QueueAssumption DEF Slots
<1>5. sendIdx = (IF sending + 1 = PacketCount THEN 0 ELSE sending + 1)
  BY <1>1, NextSlot
<1>6. recvIdx = IF sendIdx + sendCount < PacketCount THEN sendIdx + sendCount
                ELSE sendIdx + sendCount - PacketCount
  BY <1>1, Further
<1> QED
  BY <1>1, <1>3, <1>4, <1>5, <1>6

-----------------------------------------------------------------------------
\* The invariant holds initially,
LEMMA InitIInv == Init => IInv
<1> SUFFICES ASSUME Init PROVE IInv
  OBVIOUS
<1>1. PacketCount \in Nat /\ PacketCount >= 1 /\ MaxRequests \in Nat
  BY QueueAssumption
<1>2. conf \in Confs /\ before \in Confs /\ ClockNotExceeded
  BY SetupPaced, DefaultAssumption DEF Init, Paced, ClockNotExceeded
<1>3. TypeOK
  BY <1>1, <1>2 DEF Init, TypeOK, Slots, Results, Blank, None
<1>4. 0 % PacketCount = 0
  BY <1>1, Wraps
<1>5. RingInv
  BY <1>1, <1>4 DEF Init, RingInv, One, Running, None
<1> QED
  BY <1>2, <1>3, <1>5 DEF IInv

\* and every step preserves it.
LEMMA NextIInv == IInv /\ [Next]_vars => IInv'
<1> SUFFICES ASSUME IInv, [Next]_vars PROVE IInv'
  OBVIOUS
<1>0. TypeOK /\ RingInv /\ ClockNotExceeded
  BY DEF IInv
<1>00. PacketCount \in Nat /\ PacketCount >= 1 /\ MaxRequests \in Nat
  BY QueueAssumption
<1>1. CASE Ask
  <2>1. PICK b \in Batches : pending' = Append(pending, [id |-> asked + 1, cmds |-> b])
    BY <1>1 DEF Ask
  <2>2. /\ asked' = asked + 1 /\ asked < MaxRequests /\ asked - given < PacketCount
        /\ UNCHANGED <<conf, given, sending, slot, recvIdx, sendIdx, freeCount, sendCount, cmds, ran, before>>
    BY <1>1 DEF Ask, Reported, queue, exec
  <2>3. [id |-> asked + 1, cmds |-> b] \in [id : 1..MaxRequests, cmds : Batches]
    BY <1>0, <1>00, <2>2 DEF TypeOK
  <2>4. /\ pending' \in Seq([id : 1..MaxRequests, cmds : Batches])
        /\ Len(pending') = Len(pending) + 1
    BY <1>0, <2>1, <2>3 DEF TypeOK
  <2>5. TypeOK'
    BY <1>0, <1>00, <2>2, <2>4 DEF TypeOK
  <2>6. RingInv'
    <3>1. One(Running)' = One(Running) /\ One(sending # None)' = One(sending # None)
      BY <2>2 DEF One, Running
    <3>2. Len(pending) \in Nat /\ One(Running) \in Nat /\ One(sending # None) \in Nat
          /\ sendCount \in Nat /\ given \in Nat /\ asked \in Nat
      BY <1>0, <1>00 DEF TypeOK, One
    <3>3. /\ freeCount' + sendCount' + One(Running) = PacketCount
          /\ recvIdx' = (sendIdx' + sendCount') % PacketCount
          /\ sending' # None => sendIdx' = (sending' + 1) % PacketCount
      BY <1>0, <2>2 DEF RingInv
    <3>4. asked - given = Len(pending) + One(Running) + sendCount + One(sending # None)
      BY <1>0 DEF RingInv
    <3> DEFINE s == One(sending # None)
               r == One(Running)
    <3>10. s \in Nat /\ r \in Nat /\ asked - given = Len(pending) + r + sendCount + s
      BY <3>2, <3>4
    <3> HIDE DEF s, r
    <3>11. asked' - given' = Len(pending') + r + sendCount' + s /\ asked' - given' <= PacketCount
      BY <1>00, <2>2, <2>4, <3>2, <3>10
    <3>5. asked' - given' = Len(pending') + One(Running) + sendCount' + One(sending # None)
          /\ asked' - given' <= PacketCount
      BY <3>11 DEF r, s
    <3> QED
      BY <3>1, <3>3, <3>5 DEF RingInv
  <2>7. ClockNotExceeded'
    BY <1>0, <2>2 DEF ClockNotExceeded
  <2> QED
    BY <2>5, <2>6, <2>7 DEF IInv
<1>2. CASE Reopen
  <2>1. TypeOK'
    BY <1>0, <1>00, <1>2 DEF TypeOK, Reopen, queue, exec
  <2>2. RingInv'
    <3>1. /\ asked - given = 0 /\ asked' - given' = 0
          /\ UNCHANGED <<pending, sending, recvIdx, sendIdx, freeCount, sendCount, cmds>>
      BY <1>00, <1>2 DEF Reopen, queue, exec
    <3>2. One(Running)' = One(Running) /\ One(sending # None)' = One(sending # None)
      BY <3>1 DEF One, Running
    <3> QED
      BY <1>0, <3>1, <3>2 DEF RingInv
  <2>3. ClockNotExceeded'
    BY <1>0, <1>2 DEF ClockNotExceeded, Reopen
  <2> QED
    BY <2>1, <2>2, <2>3 DEF IInv
<1>3. CASE DAP_queue_execute_buf
  <2>1. /\ ~Running /\ pending # <<>> /\ freeCount > 0 /\ freeCount' = freeCount - 1
        /\ pending' = Tail(pending) /\ cmds' = Head(pending).cmds /\ ran' = 0 /\ before' = conf
        /\ slot' = [slot EXCEPT ![recvIdx] = [id |-> Head(pending).id, answers |-> <<>>]]
        /\ UNCHANGED <<conf, asked, given, sending, recvIdx, sendIdx, sendCount>>
    BY <1>3 DEF DAP_queue_execute_buf
  <2>2. /\ Head(pending) \in [id : 1..MaxRequests, cmds : Batches]
        /\ Tail(pending) \in Seq([id : 1..MaxRequests, cmds : Batches])
        /\ Len(Tail(pending)) = Len(pending) - 1
    BY <1>0, <2>1, HeadTailProperties DEF TypeOK
  <2>3. cmds' \in Batches /\ cmds' # <<>> /\ Len(cmds') \in Nat
    BY <2>1, <2>2, BatchAssumption
  <2>4. [id |-> Head(pending).id, answers |-> <<>>] \in Results
    BY <1>00, <2>2 DEF Results
  <2>5. TypeOK'
    BY <1>0, <1>00, <2>1, <2>2, <2>3, <2>4 DEF TypeOK
  <2>6. RingInv'
    <3>1. /\ One(Running) = 0 /\ One(Running)' = 1
          /\ One(sending # None)' = One(sending # None)
      BY <2>1, <2>3 DEF One, Running
    <3>2. /\ Len(pending) \in Nat /\ One(sending # None) \in Nat /\ sendCount \in Nat
          /\ freeCount \in Nat /\ asked \in Nat /\ given \in Nat
      BY <1>0, <1>00 DEF TypeOK, One
    <3> QED
      BY <1>0, <1>00, <2>1, <2>2, <3>1, <3>2 DEF RingInv
  <2>7. ClockNotExceeded'
    BY <1>0, <2>1 DEF ClockNotExceeded
  <2> QED
    BY <2>5, <2>6, <2>7 DEF IInv
<1>4. CASE DAP_ProcessCommand
  <2>1. /\ Running /\ ran < Len(cmds) /\ ran' = ran + 1
        /\ UNCHANGED <<asked, given, pending, sending, recvIdx, sendIdx, freeCount, sendCount, cmds, before>>
    BY <1>4 DEF DAP_ProcessCommand, client
  <2>2. PICK answer \in Replies : slot' = [slot EXCEPT ![recvIdx].answers = Append(@, answer)]
    <3>1. (IF At(ran + 1) THEN Answer(conf, cmds[ran + 1]) ELSE "garbage") \in Replies
      BY AnswerTypes DEF Replies
    <3> QED
      BY <1>4, <3>1 DEF DAP_ProcessCommand
  <2>3. slot' \in [Slots -> Results]
    <3>1. slot[recvIdx] \in Results /\ recvIdx \in Slots
      BY <1>0 DEF TypeOK
    <3>2. [slot[recvIdx] EXCEPT !.answers = Append(@, answer)] \in Results
      BY <3>1 DEF Results
    <3> QED
      BY <1>0, <2>2, <3>1, <3>2 DEF TypeOK
  <2>4. cmds \in Batches /\ ran + 1 \in 1..Len(cmds) /\ Len(cmds) \in Nat
    BY <1>0, <2>1, BatchAssumption DEF TypeOK, Running
  <2>5. conf' \in Confs /\ Paced(conf')
    <3>1. conf' = Effect(conf, cmds[ran + 1]) \/ conf' = conf
      BY <1>4 DEF DAP_ProcessCommand
    <3>2. conf \in Confs /\ Paced(conf)
      BY <1>0 DEF TypeOK, ClockNotExceeded, Paced
    <3> QED
      BY <2>4, <3>1, <3>2, EffectPaced
  <2>6. TypeOK'
    BY <1>0, <2>1, <2>3, <2>4, <2>5 DEF TypeOK
  <2>7. RingInv'
    BY <1>0, <2>1 DEF RingInv, Running
  <2>8. ClockNotExceeded'
    BY <2>5 DEF ClockNotExceeded, Paced
  <2> QED
    BY <2>6, <2>7, <2>8 DEF IInv
<1>5. CASE Executed
  <2>1. /\ Running /\ recvIdx' = (recvIdx + 1) % PacketCount /\ sendCount' = sendCount + 1
        /\ cmds' = <<>> /\ ran' = 0 /\ before' = conf
        /\ UNCHANGED <<conf, asked, given, pending, sending, slot, sendIdx, freeCount>>
    BY <1>5 DEF Executed, client
  <2>2. /\ sendCount + 1 \in 0..PacketCount /\ freeCount + sendCount + 1 = PacketCount
        /\ recvIdx \in Slots /\ sendIdx \in Slots /\ sendCount \in 0..PacketCount
    BY <1>0, <1>00, <2>1 DEF TypeOK, RingInv, One
  <2>3. recvIdx' \in Slots /\ recvIdx' = (sendIdx + sendCount + 1) % PacketCount
    <3>1. recvIdx = IF sendIdx + sendCount < PacketCount THEN sendIdx + sendCount
                    ELSE sendIdx + sendCount - PacketCount
      BY <1>0, <2>2, Further DEF RingInv
    <3>2. (sendIdx + (sendCount + 1)) % PacketCount
            = IF sendIdx + (sendCount + 1) < PacketCount THEN sendIdx + (sendCount + 1)
              ELSE sendIdx + (sendCount + 1) - PacketCount
      BY <2>2, Further
    <3>3. /\ recvIdx' = (IF recvIdx + 1 = PacketCount THEN 0 ELSE recvIdx + 1)
          /\ recvIdx' \in Slots
      BY <2>1, <2>2, NextSlot
    <3>4. sendIdx + (sendCount + 1) = sendIdx + sendCount + 1 /\ sendIdx \in Nat /\ sendCount \in Nat
          /\ sendIdx < PacketCount
      BY <1>00, <2>2 DEF Slots
    <3> QED
      BY <1>00, <2>2, <3>1, <3>2, <3>3, <3>4
  <2>4. TypeOK'
    BY <1>0, <2>1, <2>2, <2>3 DEF TypeOK
  <2>5. RingInv'
    <3>1. One(Running) = 1 /\ One(Running)' = 0 /\ One(sending # None)' = One(sending # None)
      BY <2>1 DEF One, Running
    <3>2. Len(pending)' = Len(pending) /\ Len(pending) \in Nat /\ One(sending # None) \in Nat
          /\ freeCount \in Nat /\ sendIdx \in Nat /\ sendCount \in Nat
          /\ asked \in Nat /\ given \in Nat
      BY <1>0, <1>00, <2>1 DEF TypeOK, One, Slots
    <3>3. sendIdx' + sendCount' = sendIdx + sendCount + 1
      BY <2>1, <3>2
    <3>4. recvIdx' = (sendIdx' + sendCount') % PacketCount
      BY <2>3, <3>3
    <3>5. sending' # None => sendIdx' = (sending' + 1) % PacketCount
      BY <1>0, <2>1 DEF RingInv
    <3>6. freeCount' + sendCount' + 0 = PacketCount
      BY <2>1, <2>2, <3>2
    <3> DEFINE s == One(sending # None)
    <3>10. s \in Nat /\ asked - given = Len(pending) + 1 + sendCount + s /\ asked - given <= PacketCount
      BY <1>0, <3>1, <3>2 DEF RingInv
    <3> HIDE DEF s
    <3>11. asked' - given' = Len(pending') + 0 + sendCount' + s /\ asked' - given' <= PacketCount
      BY <2>1, <3>2, <3>10
    <3>7. asked' - given' = Len(pending') + 0 + sendCount' + One(sending # None)
          /\ asked' - given' <= PacketCount
      BY <3>11 DEF s
    <3> QED
      BY <3>1, <3>4, <3>5, <3>6, <3>7 DEF RingInv
  <2>6. ClockNotExceeded'
    BY <1>0, <2>1 DEF ClockNotExceeded
  <2> QED
    BY <2>4, <2>5, <2>6 DEF IInv
<1>6. CASE DAP_queue_get_send_buf
  <2>1. /\ sendCount > 0 /\ sending = None /\ sendCount' = sendCount - 1
        /\ freeCount' = freeCount + 1 /\ sending' = sendIdx
        /\ sendIdx' = (sendIdx + 1) % PacketCount
        /\ UNCHANGED <<conf, asked, given, pending, slot, recvIdx, cmds, ran, before>>
    BY <1>6 DEF DAP_queue_get_send_buf, exec
  <2>2. /\ sendIdx \in Slots /\ sendCount \in 0..PacketCount /\ sendCount - 1 \in 0..PacketCount
        /\ freeCount + 1 \in 0..PacketCount /\ recvIdx = (sendIdx + sendCount) % PacketCount
    BY <1>0, <1>00, <2>1 DEF TypeOK, RingInv, One
  <2>3. sendIdx' \in Slots /\ recvIdx = (sendIdx' + (sendCount - 1)) % PacketCount
    <3>1. recvIdx = IF sendIdx + sendCount < PacketCount THEN sendIdx + sendCount
                    ELSE sendIdx + sendCount - PacketCount
      BY <2>2, Further
    <3>2. /\ sendIdx' = (IF sendIdx + 1 = PacketCount THEN 0 ELSE sendIdx + 1)
          /\ sendIdx' \in Slots
      BY <2>1, <2>2, NextSlot
    <3>3. (sendIdx' + (sendCount - 1)) % PacketCount
            = IF sendIdx' + (sendCount - 1) < PacketCount THEN sendIdx' + (sendCount - 1)
              ELSE sendIdx' + (sendCount - 1) - PacketCount
      BY <2>2, <3>2, Further
    <3>4. sendIdx \in Nat /\ sendIdx < PacketCount /\ sendCount \in Nat /\ sendCount >= 1
          /\ sendCount <= PacketCount
      BY <1>00, <2>1, <2>2 DEF Slots
    <3> QED
      BY <1>00, <3>1, <3>2, <3>3, <3>4
  <2>4. TypeOK'
    BY <1>0, <2>1, <2>2, <2>3 DEF TypeOK
  <2>5. RingInv'
    <3>1. One(Running)' = One(Running) /\ One(sending # None) = 0 /\ One(sending # None)' = 1
      BY <2>1, <2>2 DEF One, Running, None, Slots
    <3>2. Len(pending)' = Len(pending) /\ Len(pending) \in Nat /\ One(Running) \in Nat
          /\ freeCount \in Nat /\ sendCount \in Nat /\ asked \in Nat /\ given \in Nat
      BY <1>0, <1>00, <2>1 DEF TypeOK, One
    <3>3. recvIdx' = (sendIdx' + sendCount') % PacketCount
      BY <2>1, <2>3
    <3>4. sendIdx' = (sending' + 1) % PacketCount
      BY <2>1
    <3>5. freeCount' + sendCount' + One(Running) = PacketCount
      BY <1>0, <1>00, <2>1, <3>2 DEF RingInv
    <3>6. asked - given = Len(pending) + One(Running) + sendCount + 0
          /\ asked - given <= PacketCount
      BY <1>0, <3>1 DEF RingInv
    <3>7. asked' - given' = Len(pending') + One(Running) + sendCount' + 1
          /\ asked' - given' <= PacketCount
      BY <2>1, <3>2, <3>6
    <3> QED
      BY <3>1, <3>3, <3>4, <3>5, <3>7 DEF RingInv
  <2>6. ClockNotExceeded'
    BY <1>0, <2>1 DEF ClockNotExceeded
  <2> QED
    BY <2>4, <2>5, <2>6 DEF IInv
<1>7. CASE Sent
  <2>1. /\ sending # None /\ given' = given + 1 /\ sending' = None
        /\ slot' = [slot EXCEPT ![sending] = Blank]
        /\ UNCHANGED <<conf, asked, pending, recvIdx, sendIdx, freeCount, sendCount, cmds, ran, before>>
    BY <1>7 DEF Sent, exec
  <2>2. One(Running)' = One(Running) /\ One(sending # None) = 1 /\ One(sending # None)' = 0
    BY <2>1 DEF One, Running
  <2>3. Len(pending)' = Len(pending) /\ Len(pending) \in Nat /\ One(Running) \in Nat
        /\ freeCount \in Nat /\ sendCount \in Nat /\ given \in Nat /\ asked \in Nat
    BY <1>0, <1>00, <2>1 DEF TypeOK, One
  <2>4. given + 1 <= asked /\ asked <= MaxRequests
    BY <1>0, <1>00, <2>2, <2>3 DEF RingInv, TypeOK
  <2>5. Blank \in Results
    BY <1>00 DEF Blank, Results
  <2>6. TypeOK'
    BY <1>0, <1>00, <2>1, <2>3, <2>4, <2>5 DEF TypeOK
  <2>7. RingInv'
    <3>1. asked' - given' = Len(pending') + One(Running) + sendCount' + 0
          /\ asked' - given' <= PacketCount
      BY <1>0, <1>00, <2>1, <2>2, <2>3 DEF RingInv
    <3>2. recvIdx' = (sendIdx' + sendCount') % PacketCount /\ sending' = None
          /\ freeCount' + sendCount' + One(Running) = PacketCount
      BY <1>0, <2>1 DEF RingInv
    <3> QED
      BY <2>2, <3>1, <3>2 DEF RingInv
  <2>8. ClockNotExceeded'
    BY <1>0, <2>1 DEF ClockNotExceeded
  <2> QED
    BY <2>6, <2>7, <2>8 DEF IInv
<1>8. CASE UNCHANGED vars
  <2>1. TypeOK' /\ RingInv' /\ ClockNotExceeded'
    BY <1>0, <1>8, Zenon DEF vars, client, queue, exec, TypeOK, RingInv, Running,
       ClockNotExceeded
  <2> QED
    BY <2>1 DEF IInv
<1> QED
  BY <1>1, <1>2, <1>3, <1>4, <1>5, <1>6, <1>7, <1>8 DEF Next, Server

\* The invariant is one.
LEMMA Invariance == Spec => []IInv
<1>1. Init => IInv
  BY InitIInv
<1>2. IInv /\ [Next]_vars => IInv'
  BY NextIInv
<1> QED
  BY <1>1, <1>2, PTL DEF Spec

-----------------------------------------------------------------------------
\* The variables keep their types: the counts of the ring stay within it.
THEOREM TypeCorrect == Spec => []TypeOK
<1>1. IInv => TypeOK
  BY DEF IInv
<1> QED
  BY <1>1, Invariance, PTL

\* SWCLK is never faster than the client asked for, and no slower than it has to be,
\* for every clock of the CPU and every cost of a pin write.
THEOREM ClockRespected == Spec => []ClockNotExceeded
<1>1. IInv => ClockNotExceeded
  BY DEF IInv
<1> QED
  BY <1>1, Invariance, PTL

\* DAP_queue_execute_buf never refuses a request of a client that has no more
\* under way than DAP_Info reported.
THEOREM NeverRefused == Spec => [](pending # <<>> /\ ~Running => freeCount > 0)
<1>1. IInv => (pending # <<>> /\ ~Running => freeCount > 0)
  <2> SUFFICES ASSUME IInv, pending # <<>>, ~Running PROVE freeCount > 0
    OBVIOUS
  <2>1. Len(pending) \in Nat /\ Len(pending) >= 1 /\ One(Running) = 0 /\ One(sending # None) \in Nat
        /\ freeCount \in Nat /\ sendCount \in Nat /\ PacketCount \in Nat
    BY QueueAssumption DEF IInv, TypeOK, One
  <2> QED
    BY <2>1, QueueAssumption DEF IInv, RingInv
<1> QED
  BY <1>1, Invariance, PTL

\* DAP_queue_get_send_buf frees the slot it hands out, and still nothing writes to
\* it until it has been sent.
THEOREM SlotLeftAlone ==
  Spec => [][sending # None /\ sending' = sending => slot'[sending] = slot[sending]]_vars
<1>1. IInv /\ [Next]_vars =>
        (sending # None /\ sending' = sending => slot'[sending] = slot[sending])
  <2> SUFFICES ASSUME IInv, [Next]_vars, sending # None, sending' = sending
               PROVE  slot'[sending] = slot[sending]
    OBVIOUS
  <2>0. sending \in Slots /\ recvIdx \in Slots /\ slot \in [Slots -> Results]
    BY DEF IInv, TypeOK
  <2>1. CASE DAP_queue_execute_buf
    <3>1. recvIdx # sending
      BY <2>1, Apart DEF DAP_queue_execute_buf
    <3> QED
      BY <2>0, <2>1, <3>1 DEF DAP_queue_execute_buf
  <2>2. CASE DAP_ProcessCommand
    <3>1. recvIdx # sending
      BY <2>2, Apart DEF DAP_ProcessCommand
    <3> QED
      BY <2>0, <2>2, <3>1 DEF DAP_ProcessCommand
  <2>3. CASE Ask \/ Reopen \/ Executed \/ DAP_queue_get_send_buf \/ Sent \/ UNCHANGED vars
    BY <2>3, Zenon DEF Ask, Reopen, Executed, DAP_queue_get_send_buf, Sent, vars, queue
  <2> QED
    BY <2>1, <2>2, <2>3 DEF Next, Server
<1> QED
  BY <1>1, Invariance, PTL DEF Spec

-----------------------------------------------------------------------------
\* What holds of 0, and of the next number with each number, holds up to n.
LEMMA Inductive ==
  ASSUME NEW n \in Nat, NEW T, 0 \in T, \A k \in 0..(n - 1) : k \in T => k + 1 \in T
  PROVE  n \in T
<1> DEFINE V == {k \in 0..n : \A j \in 0..k : j \in T}
           next == [k \in V |-> k + 1]
<1>1. SUFFICES ASSUME n \notin T PROVE FALSE
  OBVIOUS
<1>2. IsFiniteSet(V)
  <2>1. V \in SUBSET (0..n) /\ IsFiniteSet(0..n)
    BY FS_Interval
  <2> QED
    BY <2>1, FS_Subset
<1>3. ASSUME NEW k \in V PROVE k + 1 \in V
  <2>1. k \in 0..n /\ k \in 0..k /\ \A j \in 0..k : j \in T
    OBVIOUS
  <2>2. k \in 0..(n - 1)
    BY <1>1, <2>1
  <2>3. k + 1 \in 0..n /\ k + 1 \in T
    BY <2>1, <2>2
  <2>4. \A j \in 0..(k + 1) : j \in 0..k \/ j = k + 1
    BY <2>1
  <2> QED
    BY <2>1, <2>3, <2>4
<1>4. next \in Injection(V, V)
  BY <1>3 DEF Injection, IsInjective
<1>5. next \in Surjection(V, V)
  BY <1>2, <1>4, FS_Injection
<1>6. PICK k \in V : next[k] = 0
  BY <1>5 DEF Surjection
<1> QED
  BY <1>6

-----------------------------------------------------------------------------
\* What a batch leaves after each of its commands, and where each of them ends:
\* the functions are what their recursive definitions say.
LEMMA AlongIs ==
  ASSUME NEW c, NEW b, Len(b) \in Nat
  PROVE  Service!Along(c, b)
           = [k \in 0..Len(b) |-> IF k = 0 THEN c ELSE Effect(Service!Along(c, b)[k - 1], b[k])]
<1> DEFINE P(m, f) == f = [k \in 0..m |-> IF k = 0 THEN c ELSE Effect(f[k - 1], b[k])]
           T == {m \in 0..Len(b) : \E f : P(m, f)}
<1>1. 0 \in T
  <2>1. P(0, [k \in 0..0 |-> c])
    OBVIOUS
  <2> HIDE DEF P
  <2> QED
    BY <2>1
<1>2. ASSUME NEW m \in 0..(Len(b) - 1), m \in T PROVE m + 1 \in T
  <2>1. PICK f : P(m, f)
    BY <1>2
  <2> DEFINE h == [k \in 0..(m + 1) |-> IF k <= m THEN f[k] ELSE Effect(f[m], b[m + 1])]
  <2>2. \A k \in 0..(m + 1) : h[k] = IF k = 0 THEN c ELSE Effect(h[k - 1], b[k])
    BY <2>1
  <2>3. P(m + 1, h)
    BY <2>2
  <2>4. m + 1 \in 0..Len(b)
    OBVIOUS
  <2> HIDE DEF P, h
  <2> QED
    BY <2>3, <2>4
<1>3. Len(b) \in T
  <2> HIDE DEF T
  <2> QED
    BY <1>1, <1>2, Inductive
<1>4. \E f : P(Len(b), f)
  BY <1>3
<1>5. Service!Along(c, b) = CHOOSE f : P(Len(b), f)
  BY DEF Service!Along, Service!Effect, Effect, Service!Clocked, Clocked, Service!Delay,
     Delay, Service!MaxSwjClock, MaxSwjClock, Service!Swd, Swd, Service!Disabled, Disabled
<1> QED
  BY <1>4, <1>5

\* The bytes of a sequence's bits.
LEMMA DataExact ==
  ASSUME NEW bits \in 1..256 PROVE DataBytes(bits) = BytesOf(bits)
<1> DEFINE Fits(x) == 8 * x >= bits /\ 8 * (x - 1) < bits
           n == (bits + 7) \div 8
<1>1. n \in 0..32 /\ Fits(n) /\ \A x \in 0..32 : Fits(x) => x = n
  OBVIOUS
<1> QED
  BY <1>1 DEF DataBytes, BytesOf

\* and those of one sequence of several.
LEMMA SequenceExact ==
  ASSUME NEW x \in Nat
  PROVE  /\ Sequence(x, TRUE) = 1 + BytesOf(InfoBits(x))
         /\ Sequence(x, x < 128) = IF Input(x) THEN 1 ELSE 1 + BytesOf(InfoBits(x))
<1>1. x % 64 \in 0..63
  OBVIOUS
<1>2. InfoBits(x) \in 1..256 /\ InfoBits(x) = IF x % 64 = 0 THEN 64 ELSE x % 64
  BY <1>1 DEF InfoBits
<1>3. DataBytes(InfoBits(x)) = BytesOf(InfoBits(x))
  BY <1>2, DataExact
<1>4. Input(x) <=> ~(x < 128)
  BY DEF Input
<1> QED
  BY <1>2, <1>3, <1>4 DEF Sequence

\* A command consumes what the client has put into it.
LEMMA ConsumesWhole ==
  ASSUME NEW b \in Batches, NEW k \in 1..Len(b)
  PROVE  Consumed(b[k]) = Bytes(b[k])
<1> DEFINE c == b[k]
<1>1. /\ c.op \in Known \union {"Unknown"} /\ c.arg \in Seq(Nat)
      /\ c.op = "SWJ_Sequence" => c.arg[1] \in 0..255
  <2>1. /\ b \in Seq([op : Known \union {"Unknown"}, arg : Seq(Nat)])
        /\ c.op = "SWJ_Sequence" => c.arg[1] \in 0..255
    BY BatchAssumption
  <2>2. c \in [op : Known \union {"Unknown"}, arg : Seq(Nat)]
    BY <2>1, ElementOfSeq
  <2> QED
    BY <2>1, <2>2
<1> HIDE DEF c
<1>2. ASSUME NEW i \in DOMAIN c.arg
      PROVE  /\ Sequence(c.arg[i], TRUE) = 1 + BytesOf(InfoBits(c.arg[i]))
             /\ Sequence(c.arg[i], c.arg[i] < 128)
                  = IF Input(c.arg[i]) THEN 1 ELSE 1 + BytesOf(InfoBits(c.arg[i]))
  <2>1. c.arg[i] \in Nat
    BY <1>1, LenProperties
  <2> QED
    BY <2>1, SequenceExact
<1>4. CASE c.op = "SWJ_Sequence"
  <2>1. SwjBits(c.arg[1]) \in 1..256 /\ SwjBits(c.arg[1]) = IF c.arg[1] = 0 THEN 256 ELSE c.arg[1]
    BY <1>1, <1>4 DEF SwjBits
  <2>2. Consumed(c) = 2 + BytesOf(SwjBits(c.arg[1]))
    BY <1>4 DEF Consumed, Known
  <2>3. Bytes(c) = 2 + DataBytes(SwjBits(c.arg[1]))
    BY <1>4, <2>1 DEF Bytes
  <2> QED
    BY <2>1, <2>2, <2>3, DataExact DEF c
<1>5. CASE c.op = "SWD_Sequence"
  <2> DEFINE f == [i \in DOMAIN c.arg |-> IF Input(c.arg[i]) THEN 1 ELSE 1 + BytesOf(InfoBits(c.arg[i]))]
             g == [i \in DOMAIN c.arg |-> Sequence(c.arg[i], c.arg[i] < 128)]
  <2>1. f = g
    BY <1>2
  <2>2. Consumed(c) = 2 + Total(f)
    BY <1>5 DEF Consumed, Known
  <2>3. Bytes(c) = 2 + Total(g)
    BY <1>5 DEF Bytes
  <2> QED
    BY <2>1, <2>2, <2>3 DEF c
<1>6. CASE c.op = "JTAG_Sequence"
  <2> DEFINE f == [i \in DOMAIN c.arg |-> 1 + BytesOf(InfoBits(c.arg[i]))]
             g == [i \in DOMAIN c.arg |-> Sequence(c.arg[i], TRUE)]
  <2>1. f = g
    BY <1>2
  <2>2. Consumed(c) = 2 + Total(f)
    BY <1>6 DEF Consumed, Known
  <2>3. Bytes(c) = 2 + Total(g)
    BY <1>6 DEF Bytes
  <2> QED
    BY <2>1, <2>2, <2>3 DEF c
<1>7. CASE c.op \notin {"SWJ_Sequence", "SWD_Sequence", "JTAG_Sequence"}
  BY <1>1, <1>7 DEF Consumed, Bytes, Known, Parameters, c
<1> QED
  BY <1>4, <1>5, <1>6, <1>7

\* The same of the ends of the commands.
LEMMA EndsAre ==
  ASSUME NEW b, Len(b) \in Nat
  PROVE  Ends(b) = [k \in 0..Len(b) |-> IF k = 0 THEN 0 ELSE Ends(b)[k - 1] + Bytes(b[k])]
<1> DEFINE P(m, f) == f = [k \in 0..m |-> IF k = 0 THEN 0 ELSE f[k - 1] + Bytes(b[k])]
           T == {m \in 0..Len(b) : \E f : P(m, f)}
<1>1. 0 \in T
  <2>1. P(0, [k \in 0..0 |-> 0])
    OBVIOUS
  <2> HIDE DEF P
  <2> QED
    BY <2>1
<1>2. ASSUME NEW m \in 0..(Len(b) - 1), m \in T PROVE m + 1 \in T
  <2>1. PICK f : P(m, f)
    BY <1>2
  <2> DEFINE h == [k \in 0..(m + 1) |-> IF k <= m THEN f[k] ELSE f[m] + Bytes(b[m + 1])]
  <2>2. \A k \in 0..(m + 1) : h[k] = IF k = 0 THEN 0 ELSE h[k - 1] + Bytes(b[k])
    BY <2>1
  <2>3. P(m + 1, h)
    BY <2>2
  <2>4. m + 1 \in 0..Len(b)
    OBVIOUS
  <2> HIDE DEF P, h
  <2> QED
    BY <2>3, <2>4
<1>3. Len(b) \in T
  <2> HIDE DEF T
  <2> QED
    BY <1>1, <1>2, Inductive
<1>4. \E f : P(Len(b), f)
  BY <1>3
<1>5. Ends(b) = CHOOSE f : P(Len(b), f)
  BY DEF Ends
<1> QED
  BY <1>4, <1>5

\* Before the first command
LEMMA NoneRun ==
  ASSUME NEW c, NEW b, Len(b) \in Nat
  PROVE  Service!Along(c, b)[0] = c /\ Ends(b)[0] = 0
BY AlongIs, EndsAre

\* and with each command more.
LEMMA OneMore ==
  ASSUME NEW c, NEW b, Len(b) \in Nat, NEW k \in 0..(Len(b) - 1)
  PROVE  /\ Service!Along(c, b)[k + 1] = Effect(Service!Along(c, b)[k], b[k + 1])
         /\ Ends(b)[k + 1] = Ends(b)[k] + Bytes(b[k + 1])
<1>1. k + 1 \in 0..Len(b) /\ k + 1 # 0 /\ (k + 1) - 1 = k
  OBVIOUS
<1> QED
  BY <1>1, AlongIs, EndsAre

-----------------------------------------------------------------------------
\* No request is served at first,
LEMMA InitExec == Init => ExecInv
<1> SUFFICES ASSUME Init PROVE ExecInv
  OBVIOUS
<1>1. cmds = <<>> /\ ran = 0 /\ cursor = 0 /\ before = conf /\ Len(cmds) \in Nat
  BY DEF Init
<1>2. Service!Along(before, cmds)[0] = conf /\ Ends(cmds)[0] = 0
  BY <1>1, NoneRun
<1> QED
  BY <1>1, <1>2 DEF ExecInv, Running

\* and each command is found and run as DapService runs it.
LEMMA NextExec == IInv /\ ExecInv /\ [Next]_vars => ExecInv'
<1> SUFFICES ASSUME IInv, ExecInv, [Next]_vars PROVE ExecInv'
  OBVIOUS
<1>0. /\ TypeOK /\ RingInv
      /\ Len(cmds) \in Nat
  BY BatchAssumption DEF IInv, TypeOK
<1>1. CASE DAP_queue_execute_buf
  <2>1. /\ ran' = 0 /\ cursor' = 0 /\ before' = conf' /\ cmds' = Head(pending).cmds
        /\ slot' = [slot EXCEPT ![recvIdx] = [id |-> Head(pending).id, answers |-> <<>>]]
        /\ recvIdx' = recvIdx /\ pending # <<>>
    BY <1>1 DEF DAP_queue_execute_buf
  <2>2. Len(cmds') \in Nat
    <3>1. Head(pending) \in [id : 1..MaxRequests, cmds : Batches]
      BY <1>0, <2>1, HeadTailProperties DEF TypeOK
    <3> QED
      BY <2>1, <3>1, BatchAssumption
  <2>3. Service!Along(before', cmds')[0] = before' /\ Ends(cmds')[0] = 0
    BY <2>2, NoneRun
  <2>4. slot'[recvIdx'].answers = <<>>
    BY <1>0, <2>1 DEF TypeOK
  <2> QED
    BY <2>1, <2>3, <2>4 DEF ExecInv
<1>2. CASE DAP_ProcessCommand
  <2>1. /\ Running /\ ran < Len(cmds) /\ ran' = ran + 1
        /\ UNCHANGED <<before, cmds, recvIdx>>
    BY <1>2 DEF DAP_ProcessCommand
  <2> DEFINE along == Service!Along(before, cmds)
             done == slot[recvIdx].answers
  <2>2. ran \in 0..(Len(cmds) - 1) /\ cmds \in Batches /\ ran + 1 \in 1..Len(cmds)
    BY <1>0, <2>1 DEF TypeOK, Running
  <2>3. At(ran + 1)
    BY <2>2 DEF At, ExecInv
  <2>4. Consumed(cmds[ran + 1]) = Bytes(cmds[ran + 1])
    BY <2>2, ConsumesWhole
  <2>5. /\ conf' = Effect(conf, cmds[ran + 1])
        /\ cursor' = cursor + Bytes(cmds[ran + 1])
        /\ slot' = [slot EXCEPT ![recvIdx].answers = Append(@, Answer(conf, cmds[ran + 1]))]
    BY <1>2, <2>3, <2>4 DEF DAP_ProcessCommand
  <2>6. conf' = along[ran + 1] /\ cursor' = Ends(cmds)[ran + 1]
    BY <1>0, <2>2, <2>5, OneMore DEF ExecInv
  <2>7. /\ done = [k \in 1..ran |-> Answer(along[k - 1], cmds[k])]
        /\ conf = along[ran]
    BY <2>1 DEF ExecInv
  <2>8. slot'[recvIdx].answers = Append(done, Answer(conf, cmds[ran + 1]))
    BY <1>0, <2>5 DEF TypeOK, Results
  <2>9. Append(done, Answer(conf, cmds[ran + 1]))
          = [k \in 1..(ran + 1) |-> Answer(along[k - 1], cmds[k])]
    <3> HIDE DEF along, done
    <3>1. Len(done) = ran /\ ran \in Nat
      BY <2>2, <2>7
    <3> QED
      BY <2>7, <3>1
  <2> QED
    BY <2>1, <2>6, <2>8, <2>9 DEF ExecInv
<1>3. CASE Executed
  <2>1. /\ Running /\ cmds' = <<>> /\ ran' = 0 /\ cursor' = 0 /\ before' = conf'
    BY <1>3 DEF Executed
  <2>2. Service!Along(before', cmds')[0] = before' /\ Ends(cmds')[0] = 0
    BY <2>1, NoneRun
  <2> QED
    BY <2>1, <2>2 DEF ExecInv, Running
<1>4. CASE Sent
  <2>1. /\ slot' = [slot EXCEPT ![sending] = Blank] /\ sending # None
        /\ UNCHANGED <<conf, before, cmds, ran, cursor, recvIdx>>
    BY <1>4 DEF Sent, exec
  <2>2. Running => slot'[recvIdx] = slot[recvIdx]
    BY <1>0, <2>1, Apart DEF TypeOK
  <2> QED
    BY <2>1, <2>2 DEF ExecInv, Running
<1>5. CASE Ask \/ Reopen \/ DAP_queue_get_send_buf \/ UNCHANGED vars
  <2>1. UNCHANGED <<conf, before, cmds, ran, cursor, recvIdx, slot>>
    BY <1>5, Zenon DEF Ask, Reopen, DAP_queue_get_send_buf, vars, queue, exec
  <2> QED
    BY <2>1 DEF ExecInv, Running
<1> QED
  BY <1>1, <1>2, <1>3, <1>4, <1>5 DEF Next, Server

-----------------------------------------------------------------------------
\* The requests not served and the answers not delivered.
Waiting == Running1 \o pending
Ready   == (IF sending = None THEN <<>> ELSE <<slot[sending]>>) \o Unsent

\* Where the answers that wait lie: not where the next one is put, nor where the one
\* before them is sent from.
LEMMA Places ==
  ASSUME IInv, NEW k \in 1..sendCount
  PROVE  /\ (sendIdx + k - 1) % PacketCount \in Slots
         /\ (Running \/ (pending # <<>> /\ freeCount > 0))
              => (sendIdx + k - 1) % PacketCount # recvIdx
         /\ sending # None => (sendIdx + k - 1) % PacketCount # sending
<1> DEFINE p == (sendIdx + k - 1) % PacketCount
<1>1. /\ PacketCount \in Nat /\ sendIdx \in Nat /\ sendIdx < PacketCount /\ sendIdx \in Slots
      /\ sendCount \in 0..PacketCount /\ freeCount \in 0..PacketCount
      /\ freeCount + sendCount + One(Running) = PacketCount
      /\ recvIdx = (sendIdx + sendCount) % PacketCount
      /\ sending # None => sending \in Slots /\ sendIdx = (sending + 1) % PacketCount
      /\ asked - given = Len(pending) + One(Running) + sendCount + One(sending # None)
      /\ asked - given <= PacketCount
  BY QueueAssumption DEF IInv, TypeOK, RingInv, Slots
<1>2. k - 1 \in 0..PacketCount /\ k \in Nat /\ k <= sendCount /\ sendIdx + k - 1 = sendIdx + (k - 1)
  BY <1>1
<1>3. p = IF sendIdx + (k - 1) < PacketCount THEN sendIdx + (k - 1)
          ELSE sendIdx + (k - 1) - PacketCount
  BY <1>1, <1>2, Further
<1>4. recvIdx = IF sendIdx + sendCount < PacketCount THEN sendIdx + sendCount
                ELSE sendIdx + sendCount - PacketCount
  BY <1>1, Further
<1> HIDE DEF p
<1>5. p \in Slots
  BY <1>1, <1>2, <1>3 DEF Slots
<1>6. ASSUME Running \/ (pending # <<>> /\ freeCount > 0) PROVE p # recvIdx
  <2>1. sendCount < PacketCount
    BY <1>1, <1>6 DEF One
  <2> QED
    BY <1>1, <1>2, <1>3, <1>4, <2>1
<1>7. ASSUME sending # None PROVE p # sending
  <2>1. /\ sendIdx = (IF sending + 1 = PacketCount THEN 0 ELSE sending + 1)
        /\ sending \in Nat /\ sending < PacketCount
    BY <1>1, <1>7, NextSlot DEF Slots
  <2>2. sendCount < PacketCount
    <3>1. Len(pending) \in Nat /\ One(Running) \in Nat /\ One(sending # None) = 1
      BY <1>7 DEF IInv, TypeOK, One
    <3> QED
      BY <1>1, <3>1
  <2> QED
    BY <1>1, <1>2, <1>3, <2>1, <2>2
<1> QED
  BY <1>5, <1>6, <1>7 DEF p

\* The answers that wait are answers.
LEMMA Shapes ==
  ASSUME IInv
  PROVE  /\ Unsent \in Seq(Results) /\ Len(Unsent) = sendCount
         /\ (IF sending = None THEN <<>> ELSE <<slot[sending]>>) \in Seq(Results)
         /\ \A k \in 1..sendCount : Unsent[k] = slot[(sendIdx + k - 1) % PacketCount]
<1>1. slot \in [Slots -> Results] /\ sendCount \in Nat /\ sending \in Slots \union {None}
  BY QueueAssumption DEF IInv, TypeOK
<1>2. \A k \in 1..sendCount : slot[(sendIdx + k - 1) % PacketCount] \in Results
  BY <1>1, Places
<1> QED
  BY <1>1, <1>2 DEF Unsent

\* The service starts as it should,
LEMMA InitRefined == Init => Service!Init
<1> SUFFICES ASSUME Init PROVE Service!Init
  OBVIOUS
<1>1. \E hz \in Clocks : before = SetupConf(hz)
  BY DEF Init
<1>2. Running1 \o pending = <<>>
  BY DEF Init, Running1, Running
<1>3. (IF sending = None THEN <<>> ELSE <<slot[sending]>>) \o Unsent = <<>>
  <2>1. Unsent = <<>> /\ sending = None
    BY DEF Init, Unsent
  <2> QED
    BY <2>1
<1> QED
  BY <1>1, <1>2, <1>3 DEF Service!Init, Service!SetupConf, SetupConf, Service!Clocked,
     Clocked,
     Service!Delay, Delay, Service!MaxSwjClock, MaxSwjClock, Service!Disabled, Disabled

\* A sequence is its first element and the rest.
LEMMA PutBack ==
  ASSUME NEW S, NEW s \in Seq(S), Len(s) >= 1
  PROVE  <<s[1]>> \o [k \in 1..(Len(s) - 1) |-> s[k + 1]] = s
<1> DEFINE t == [k \in 1..(Len(s) - 1) |-> s[k + 1]]
           all == <<s[1]>> \o t
<1>1. Len(s) \in Nat /\ s[1] \in S /\ Len(s) - 1 \in Nat
  BY ElementOfSeq
<1>2. t \in Seq(S) /\ Len(t) = Len(s) - 1
  BY <1>1, ElementOfSeq
<1>3. /\ all \in Seq(S) /\ Len(all) = 1 + (Len(s) - 1)
      /\ \A i \in 1..(1 + (Len(s) - 1)) : all[i] = IF i <= 1 THEN s[1] ELSE t[i - 1]
  <2> HIDE DEF t
  <2>1. <<s[1]>> \in Seq(S) /\ Len(<<s[1]>>) = 1 /\ <<s[1]>>[1] = s[1]
    BY <1>1
  <2> QED
    BY <1>1, <1>2, <2>1
<1>4. Len(all) = Len(s) /\ \A i \in 1..Len(s) : all[i] = s[i]
  BY <1>1, <1>3
<1> HIDE DEF all
<1>5. all = s
  BY <1>3, <1>4, SeqEqual
<1> QED
  BY <1>5 DEF all

\* and every step is one of the service, or none: a request is served when its last
\* command has run, and its answer delivered when it has been sent.
LEMMA NextRefined ==
  IInv /\ ExecInv /\ [Next]_vars => [Service!Next]_<<before, Waiting, Ready>>
<1> SUFFICES ASSUME IInv, ExecInv, [Next]_vars
             PROVE  [Service!Next]_<<before, Waiting, Ready>>
  OBVIOUS
<1> DEFINE Req == [id : 1..MaxRequests, cmds : Batches]
           S == IF sending = None THEN <<>> ELSE <<slot[sending]>>
<1>0. /\ TypeOK /\ RingInv /\ IInv
      /\ PacketCount \in Nat /\ MaxRequests \in Nat
      /\ pending \in Seq(Req) /\ slot \in [Slots -> Results] /\ recvIdx \in Slots /\ sendIdx \in Slots
      /\ sendCount \in Nat
  BY QueueAssumption DEF IInv, TypeOK
<1>1. Running1 \in Seq([id : 0..MaxRequests, cmds : Batches])
  <2>1. slot[recvIdx].id \in 0..MaxRequests /\ (Running => cmds \in Batches)
    BY <1>0 DEF TypeOK, Running, Results
  <2> DEFINE req == [id |-> slot[recvIdx].id, cmds |-> cmds]
  <2>2. Running => req \in [id : 0..MaxRequests, cmds : Batches]
    BY <2>1
  <2>3. Running1 = IF Running THEN <<req>> ELSE <<>>
    BY DEF Running1
  <2> HIDE DEF req
  <2>4. CASE Running
    BY <2>2, <2>3, <2>4
  <2>5. CASE ~Running
    BY <2>3, <2>5
  <2> QED
    BY <2>4, <2>5
<1>2. CASE Ask
  <2>1. PICK b \in Batches : pending' = Append(pending, [id |-> asked + 1, cmds |-> b])
    BY <1>2 DEF Ask
  <2>2. asked + 1 \in 1..MaxRequests
    BY <1>0, <1>2 DEF Ask, TypeOK
  <2>3. UNCHANGED <<before, Running1, Ready>>
    BY <1>2, Zenon DEF Ask, queue, exec, Running1, Running, Ready, Unsent
  <2>4. Waiting' = Append(Waiting, [id |-> asked + 1, cmds |-> b])
    BY <1>0, <1>1, <2>1, <2>2, <2>3 DEF Waiting
  <2>5. Service!Ask
    BY <2>2, <2>3, <2>4 DEF Service!Ask, Waiting, Ready
  <2> QED
    BY <2>5 DEF Service!Next
<1>3. CASE Reopen
  BY <1>3, Zenon DEF Reopen, queue, exec, Waiting, Running1, Running, Ready, Unsent
<1>4. CASE DAP_queue_execute_buf
  <2>1. /\ ~Running /\ pending # <<>> /\ freeCount > 0 /\ pending' = Tail(pending)
        /\ cmds' = Head(pending).cmds /\ ran = 0 /\ before' = conf
        /\ slot' = [slot EXCEPT ![recvIdx] = [id |-> Head(pending).id, answers |-> <<>>]]
        /\ UNCHANGED <<sending, recvIdx, sendIdx, sendCount>>
    BY <1>0, <1>4 DEF DAP_queue_execute_buf, TypeOK, Running
  <2>2. Head(pending) \in Req
    BY <1>0, <2>1, HeadTailProperties
  <2>3. before' = before
    BY <2>1, NoneRun DEF ExecInv, Running
  <2>4. Waiting' = Waiting
    <3>1. Waiting = pending
      BY <1>0, <2>1 DEF Waiting, Running1
    <3>2. cmds' # <<>>
      BY <2>1, <2>2, BatchAssumption
    <3>3. Running1' = <<Head(pending)>>
      <4>1. slot'[recvIdx'].id = Head(pending).id
        BY <1>0, <2>1
      <4>2. Running1' = <<[id |-> Head(pending).id, cmds |-> Head(pending).cmds]>>
        BY <2>1, <3>2, <4>1 DEF Running1, Running
      <4> QED
        BY <2>2, <4>2
    <3>4. Waiting' = <<Head(pending)>> \o Tail(pending)
      BY <2>1, <3>3 DEF Waiting
    <3> QED
      BY <1>0, <2>1, <3>1, <3>4
  <2>5. Ready' = Ready
    <3>1. sending # None => slot'[sending] = slot[sending]
      BY <1>0, <2>1, Apart DEF TypeOK
    <3>2. \A k \in 1..sendCount :
            slot'[(sendIdx + k - 1) % PacketCount] = slot[(sendIdx + k - 1) % PacketCount]
      BY <1>0, <2>1, Places
    <3>3. Unsent' = Unsent
      BY <2>1, <3>2 DEF Unsent
    <3> QED
      BY <2>1, <3>1, <3>3 DEF Ready
  <2> QED
    BY <2>3, <2>4, <2>5
<1>5. CASE DAP_ProcessCommand
  <2>1. /\ Running
        /\ UNCHANGED <<pending, sending, cmds, before, recvIdx, sendIdx, sendCount>>
    BY <1>5 DEF DAP_ProcessCommand, client
  <2>2. /\ slot'[recvIdx].id = slot[recvIdx].id
        /\ \A s \in Slots \ {recvIdx} : slot'[s] = slot[s]
    BY <1>0, <1>5 DEF DAP_ProcessCommand, Results
  <2>3. Waiting' = Waiting
    BY <2>1, <2>2 DEF Waiting, Running1, Running
  <2>4. Ready' = Ready
    <3>1. sending # None => slot'[sending] = slot[sending]
      BY <1>0, <2>1, <2>2, Apart DEF TypeOK
    <3>2. ASSUME NEW k \in 1..sendCount
          PROVE  slot'[(sendIdx + k - 1) % PacketCount] = slot[(sendIdx + k - 1) % PacketCount]
      <4>1. /\ (sendIdx + k - 1) % PacketCount \in Slots
            /\ (sendIdx + k - 1) % PacketCount # recvIdx
        BY <1>0, <2>1, Places
      <4> QED
        BY <2>2, <4>1
    <3>3. Unsent' = Unsent
      BY <2>1, <3>2 DEF Unsent
    <3> QED
      BY <2>1, <3>1, <3>3 DEF Ready
  <2> QED
    BY <2>1, <2>3, <2>4
<1>6. CASE Executed
  <2>1. /\ Running /\ ran = Len(cmds) /\ sendCount' = sendCount + 1 /\ cmds' = <<>> /\ before' = conf
        /\ UNCHANGED <<conf, pending, sending, slot, sendIdx>>
    BY <1>6 DEF Executed, client
  <2>2. cmds \in Batches /\ Len(cmds) \in Nat
    BY <1>0, <2>1, BatchAssumption DEF TypeOK, Running
  <2> DEFINE req == [id |-> slot[recvIdx].id, cmds |-> cmds]
             done == Service!Run(before, cmds)
  <2>3. /\ done.conf = before'
        /\ slot[recvIdx] = [id |-> req.id, answers |-> done.answers]
    <3>1. done.conf = conf
      BY <2>1 DEF ExecInv, Service!Run
    <3>2. slot[recvIdx].answers = done.answers
      BY <2>1 DEF ExecInv, Service!Run, Service!Answer, Answer, Service!Known, Known,
         Service!Swd, Swd
    <3>3. slot[recvIdx] \in Results
      BY <1>0
    <3> QED
      BY <2>1, <3>1, <3>2, <3>3 DEF Results
  <2>4. /\ Waiting # <<>> /\ Head(Waiting) = req /\ Tail(Waiting) = pending /\ Waiting' = pending
    <3>1. Waiting = <<req>> \o pending
      BY <2>1 DEF Waiting, Running1
    <3>2. req \in [id : 0..MaxRequests, cmds : Batches]
      BY <1>0, <2>2 DEF Results
    <3>3. Waiting' = pending
      BY <1>0, <2>1 DEF Waiting, Running1, Running
    <3> HIDE DEF req
    <3> QED
      BY <1>0, <3>1, <3>2, <3>3
  <2>5. Ready' = Append(Ready, slot[recvIdx])
    <3>1. /\ Unsent \in Seq(Results) /\ Len(Unsent) = sendCount /\ S \in Seq(Results)
      BY <1>0, Shapes
    <3>2. slot[(sendIdx + (sendCount + 1) - 1) % PacketCount] = slot[recvIdx]
      <4>1. sendIdx + (sendCount + 1) - 1 = sendIdx + sendCount
        BY <1>0 DEF Slots
      <4> QED
        BY <1>0, <4>1 DEF RingInv
    <3>3. Unsent' = Append(Unsent, slot[recvIdx])
      BY <1>0, <2>1, <3>1, <3>2 DEF Unsent
    <3>4. S' = S
      BY <2>1
    <3>5. Ready' = S \o Append(Unsent, slot[recvIdx]) /\ Ready = S \o Unsent
      BY <3>3, <3>4 DEF Ready
    <3>6. slot[recvIdx] \in Results
      BY <1>0
    <3> HIDE DEF S
    <3> QED
      BY <3>1, <3>5, <3>6
  <2>6. Service!Serve
    <3>1. Head(Waiting).cmds = cmds /\ Head(Waiting).id = req.id
      BY <2>4
    <3>2. before' = Service!Run(before, Head(Waiting).cmds).conf
      BY <2>3, <3>1
    <3>3. Ready' = Append(Ready, [id |-> Head(Waiting).id,
                                  answers |-> Service!Run(before, Head(Waiting).cmds).answers])
      BY <2>3, <2>5, <3>1
    <3>4. Waiting # <<>> /\ Waiting' = Tail(Waiting)
      BY <2>4
    <3> QED
      BY <3>2, <3>3, <3>4 DEF Service!Serve, Waiting, Ready
  <2> QED
    BY <2>6 DEF Service!Next
<1>7. CASE DAP_queue_get_send_buf
  <2>1. /\ sendCount > 0 /\ sending = None /\ sendCount' = sendCount - 1
        /\ sending' = sendIdx /\ sendIdx' = (sendIdx + 1) % PacketCount
        /\ UNCHANGED <<pending, slot, recvIdx, cmds, before>>
    BY <1>7 DEF DAP_queue_get_send_buf, exec
  <2>2. Waiting' = Waiting
    BY <2>1 DEF Waiting, Running1, Running
  <2>3. Ready' = Ready
    <3>1. sendIdx # None /\ slot[sendIdx] \in Results
      BY <1>0 DEF Slots, None
    <3>2. /\ Unsent \in Seq(Results) /\ Len(Unsent) = sendCount
          /\ \A k \in 1..sendCount : Unsent[k] = slot[(sendIdx + k - 1) % PacketCount]
      BY <1>0, Shapes
    <3>3. \A k \in 1..(sendCount - 1) :
            (sendIdx' + k - 1) % PacketCount = (sendIdx + (k + 1) - 1) % PacketCount
      <4> SUFFICES ASSUME NEW k \in 1..(sendCount - 1)
                   PROVE  (sendIdx' + k - 1) % PacketCount = (sendIdx + (k + 1) - 1) % PacketCount
        OBVIOUS
      <4>1. /\ k \in Nat /\ k >= 1 /\ k < sendCount /\ sendCount <= PacketCount
            /\ sendIdx \in Nat /\ sendIdx < PacketCount
            /\ k \in 0..PacketCount /\ k - 1 \in 0..PacketCount
        BY <1>0 DEF TypeOK, Slots
      <4>2. sendIdx' = (IF sendIdx + 1 = PacketCount THEN 0 ELSE sendIdx + 1) /\ sendIdx' \in Slots
        BY <1>0, <2>1, NextSlot
      <4>3. (sendIdx' + (k - 1)) % PacketCount
              = IF sendIdx' + (k - 1) < PacketCount THEN sendIdx' + (k - 1)
                ELSE sendIdx' + (k - 1) - PacketCount
        BY <1>0, <4>1, <4>2, Further
      <4>4. (sendIdx + k) % PacketCount
              = IF sendIdx + k < PacketCount THEN sendIdx + k ELSE sendIdx + k - PacketCount
        BY <1>0, <4>1, Further
      <4>5. /\ sendIdx' + k - 1 = sendIdx' + (k - 1) /\ sendIdx + (k + 1) - 1 = sendIdx + k
            /\ sendIdx' \in Nat
        BY <4>1, <4>2 DEF Slots
      <4> QED
        BY <1>0, <4>1, <4>2, <4>3, <4>4, <4>5
    <3>4. Unsent[1] = slot[sendIdx]
      <4>1. sendIdx \in Nat /\ sendIdx < PacketCount /\ 1 \in 1..sendCount
        BY <1>0, <2>1 DEF Slots
      <4>2. sendIdx % PacketCount = sendIdx /\ sendIdx + 1 - 1 = sendIdx
        BY <1>0, <4>1, Wraps
      <4> QED
        BY <3>2, <4>1, <4>2
    <3>5. Unsent' = [k \in 1..(sendCount - 1) |-> Unsent[k + 1]]
      <4>1. Unsent' = [k \in 1..(sendCount - 1) |-> slot[(sendIdx' + k - 1) % PacketCount]]
        BY <2>1 DEF Unsent
      <4>2. \A k \in 1..(sendCount - 1) :
              Unsent[k + 1] = slot[(sendIdx + (k + 1) - 1) % PacketCount]
        BY <1>0, <3>2
      <4> QED
        BY <3>3, <4>1, <4>2
    <3>7. <<slot[sendIdx]>> \o Unsent' = Unsent
      BY <1>0, <2>1, <3>2, <3>4, <3>5, PutBack
    <3>8. Ready = Unsent
      BY <2>1, <3>2, ConcatEmptySeq DEF Ready
    <3>9. Ready' = <<slot[sendIdx]>> \o Unsent'
      BY <2>1, <3>1 DEF Ready
    <3> QED
      BY <3>7, <3>8, <3>9
  <2> QED
    BY <2>1, <2>2, <2>3
<1>8. CASE Sent
  <2>1. /\ sending # None /\ sending' = None /\ slot' = [slot EXCEPT ![sending] = Blank]
        /\ UNCHANGED <<pending, recvIdx, sendIdx, sendCount, cmds, before>>
    BY <1>8 DEF Sent, exec
  <2>2. Waiting' = Waiting
    <3>1. Running => slot'[recvIdx] = slot[recvIdx]
      BY <1>0, <2>1, Apart
    <3> QED
      BY <2>1, <3>1 DEF Waiting, Running1, Running
  <2>3. Unsent' = Unsent
    <3>1. \A k \in 1..sendCount :
            slot'[(sendIdx + k - 1) % PacketCount] = slot[(sendIdx + k - 1) % PacketCount]
      BY <1>0, <2>1, Places
    <3> QED
      BY <2>1, <3>1 DEF Unsent
  <2>4. Ready = <<slot[sending]>> \o Unsent /\ Ready' = <<>> \o Unsent
    BY <2>1, <2>3 DEF Ready
  <2>5. slot[sending] \in Results /\ Unsent \in Seq(Results)
    BY <1>0, <2>1, Shapes DEF TypeOK
  <2>6. Ready # <<>> /\ Ready' = Tail(Ready)
    BY <2>4, <2>5
  <2>7. Service!Deliver
    BY <2>1, <2>2, <2>6 DEF Service!Deliver, Waiting, Ready
  <2> QED
    BY <2>7 DEF Service!Next
<1>9. CASE UNCHANGED vars
  BY <1>9, Zenon DEF vars, client, queue, exec, Waiting, Running1, Running, Ready, Unsent
<1> QED
  BY <1>2, <1>3, <1>4, <1>5, <1>6, <1>7, <1>8, <1>9 DEF Next, Server

-----------------------------------------------------------------------------
\* Requests are answered once, in order, each with the answers of its own commands
\* run in turn from the DAP_Data the request before left: DAP_ExecuteCommand finds
\* every command of a batch, however long, and the ring keeps every answer until it
\* has been sent.
THEOREM ServiceImplemented == Spec => ServiceSpec
<1>1. Init => IInv /\ ExecInv /\ Service!Init
  BY InitIInv, InitExec, InitRefined
<1>2. IInv /\ ExecInv /\ [Next]_vars => IInv' /\ ExecInv'
  BY NextIInv, NextExec
<1>3. IInv /\ ExecInv /\ [Next]_vars => [Service!Next]_<<before, Running1 \o pending,
        (IF sending = None THEN <<>> ELSE <<slot[sending]>>) \o Unsent>>
  BY NextRefined DEF Waiting, Ready
<1> QED
  BY <1>1, <1>2, <1>3, PTL DEF Spec, ServiceSpec, Service!Spec
=============================================================================
