------------------------------ MODULE DapServer ------------------------------
(***************************************************************************)
(* The way of a request: DAP_queue_execute_buf (cmsis_dap/DAP_queue.c)     *)
(* takes a slot of the ring, DAP_ExecuteCommand (DAP.c) runs its commands  *)
(* one by one and writes the answers into the slot, and                    *)
(* DAP_queue_get_send_buf hands the slot out, free again, to be sent.      *)
(*                                                                         *)
(* The client and the transport (external) are not in the repository: the  *)
(* client has no more requests under way than DAP_Info reported packets,   *)
(* and a slot handed out is read while it is being sent.  Both queue       *)
(* functions are called by one task, for they share their counters.        *)
(***************************************************************************)
EXTENDS DapCommands

CONSTANTS
  PacketCount,   \* DAP_PACKET_COUNT
  MaxRequests,   \* bound: requests of one client, another one follows
  Batches,       \* the command lists of requests
  Clocks         \* DAP_DEFAULT_SWJ_CLOCK

ASSUME QueueAssumption == PacketCount \in 1..255 /\ MaxRequests \in Nat \ {0}
\* Commands come with their parameters; the count of SWJ_Sequence is a byte.
ASSUME BatchAssumption ==
  \A b \in Batches :
    /\ b \in Seq([op : Known \union {"Unknown"}, arg : Seq(Nat)]) \ {<<>>}
    /\ \A k \in 1..Len(b) :
         /\ b[k].op \in {"SWJ_Clock", "SWD_Configure", "SWJ_Sequence"} => Len(b[k].arg) >= 1
         /\ b[k].op = "SWJ_Sequence" => b[k].arg[1] \in 0..255
ASSUME DefaultAssumption == Clocks \subseteq Nat

VARIABLES
  conf,            \* DAP_Data
  \* client and transport
  asked, given,    \* requests sent and answers received by this client
  pending,         \* requests the transport has not handed over
  sending,         \* the slot being sent, or None
  \* DAP_queue
  slot,            \* USB_Request
  recvIdx, sendIdx, freeCount, sendCount,
  \* DAP_queue_execute_buf and DAP_ExecuteCommand
  cmds,            \* the commands of the request, <<>> when none runs
  ran,             \* commands run
  cursor,          \* bytes of the request consumed
  before           \* history: DAP_Data when the request began

client == <<asked, given, pending, sending>>
queue  == <<slot, recvIdx, sendIdx, freeCount, sendCount>>
exec   == <<cmds, ran, cursor, before>>
vars   == <<conf, client, queue, exec>>

None  == PacketCount
Slots == 0..(PacketCount - 1)
Blank == [id |-> 0, answers |-> <<>>]
Replies == {"OK", "Error", "Invalid", "Info", "Pins", "SWD", "Disabled", "garbage"}
Results == [id : 0..MaxRequests, answers : Seq(Replies)]
Confs == [port : {Disabled, Swd}, turnaround : 1..4, dataPhase : BOOLEAN,
          hz : Nat, fast : BOOLEAN, delay : Nat \ {0}]

TypeOK ==
  /\ conf \in Confs /\ before \in Confs
  /\ given \in 0..MaxRequests /\ asked \in given..MaxRequests
  /\ pending \in Seq([id : 1..MaxRequests, cmds : Batches])
  /\ sending \in Slots \union {None}
  /\ slot \in [Slots -> Results]
  /\ recvIdx \in Slots /\ sendIdx \in Slots
  /\ freeCount \in 0..PacketCount /\ sendCount \in 0..PacketCount
  /\ cmds \in Batches \union {<<>>} /\ ran \in 0..Len(cmds)

\* DAP_Setup and DAP_queue_init.
Init ==
  /\ \E hz \in Clocks : conf = SetupConf(hz)
  /\ before = conf
  /\ asked = 0 /\ given = 0 /\ pending = <<>> /\ sending = None
  /\ slot = [s \in Slots |-> Blank]
  /\ recvIdx = 0 /\ sendIdx = 0 /\ freeCount = PacketCount /\ sendCount = 0
  /\ cmds = <<>> /\ ran = 0 /\ cursor = 0

Running == cmds # <<>>

-----------------------------------------------------------------------------
\* Mutant: DAP_Info reports a packet more than there are slots.
ReportedOneMore == PacketCount + 1

\* DAP_Info, DAP_ID_PACKET_COUNT.
Reported == PacketCount

\* The client sends a request.
Ask ==
  /\ asked < MaxRequests /\ asked - given < Reported
  /\ asked' = asked + 1
  /\ \E b \in Batches : pending' = Append(pending, [id |-> asked + 1, cmds |-> b])
  /\ UNCHANGED <<conf, given, sending, queue, exec>>

\* A client that has all its answers goes, and another one counts anew.
Reopen ==
  /\ asked = MaxRequests /\ given = MaxRequests
  /\ asked' = 0 /\ given' = 0
  /\ UNCHANGED <<conf, pending, sending, queue, exec>>

\* DAP_queue_execute_buf up to DAP_ExecuteCommand; without a free slot it refuses.
DAP_queue_execute_buf ==
  /\ ~Running /\ pending # <<>> /\ freeCount > 0
  /\ freeCount' = freeCount - 1
  /\ pending' = Tail(pending)
  /\ slot' = [slot EXCEPT ![recvIdx] = [id |-> Head(pending).id, answers |-> <<>>]]
  /\ cmds' = Head(pending).cmds /\ ran' = 0 /\ cursor' = 0 /\ before' = conf
  /\ UNCHANGED <<conf, asked, given, sending, recvIdx, sendIdx, sendCount>>

\* The command whose first byte the cursor points at; anywhere else the bytes say
\* something that is none of the client's commands.
Ends(b) ==
  LET end[k \in 0..Len(b)] == IF k = 0 THEN 0 ELSE end[k - 1] + Bytes(b[k])
  IN  end
At(k) == cursor = Ends(cmds)[k - 1]

\* Mutant: an unknown command is not counted.
UnknownStays ==
  /\ Running /\ ran < Len(cmds)
  /\ LET c == cmds[ran + 1]
     IN  /\ ran' = IF c.op \in Known THEN ran + 1 ELSE ran
         /\ conf' = Effect(conf, c)
         /\ cursor' = IF c.op \in Known THEN cursor + Consumed(c) ELSE cursor
         /\ slot' = IF c.op \in Known
                      THEN [slot EXCEPT ![recvIdx].answers = Append(@, Answer(conf, c))]
                      ELSE slot
  /\ UNCHANGED <<client, recvIdx, sendIdx, freeCount, sendCount, cmds, before>>

\* One round of DAP_ExecuteCommand.
DAP_ProcessCommand ==
  /\ Running /\ ran < Len(cmds)
  /\ ran' = ran + 1
  /\ LET c == cmds[ran + 1]
         answer == IF At(ran + 1) THEN Answer(conf, c) ELSE "garbage"
     IN  /\ conf' = IF At(ran + 1) THEN Effect(conf, c) ELSE conf
         /\ cursor' = cursor + (IF At(ran + 1) THEN Consumed(c) ELSE 0)
         /\ slot' = [slot EXCEPT ![recvIdx].answers = Append(@, answer)]
  /\ UNCHANGED <<client, recvIdx, sendIdx, freeCount, sendCount, cmds, before>>

\* The rest of DAP_queue_execute_buf.
Executed ==
  /\ Running /\ ran = Len(cmds)
  /\ recvIdx' = (recvIdx + 1) % PacketCount
  /\ sendCount' = sendCount + 1
  /\ cmds' = <<>> /\ ran' = 0 /\ cursor' = 0 /\ before' = conf
  /\ UNCHANGED <<conf, client, slot, sendIdx, freeCount>>

\* Mutant: the last slot is skipped.
GetWrapsEarly ==
  /\ sendCount > 0 /\ sending = None
  /\ sendCount' = sendCount - 1 /\ freeCount' = freeCount + 1
  /\ sending' = sendIdx
  /\ sendIdx' = IF sendIdx + 2 >= PacketCount THEN 0 ELSE sendIdx + 1
  /\ UNCHANGED <<conf, asked, given, pending, slot, recvIdx, exec>>

\* The transport asks for the next answer when it has sent the one before.
DAP_queue_get_send_buf ==
  /\ sendCount > 0 /\ sending = None
  /\ sendCount' = sendCount - 1 /\ freeCount' = freeCount + 1
  /\ sending' = sendIdx
  /\ sendIdx' = (sendIdx + 1) % PacketCount
  /\ UNCHANGED <<conf, asked, given, pending, slot, recvIdx, exec>>

\* The packet has been read out of the slot and reaches the client.  (What was
\* sent is not looked at again, and blank here.)
Sent ==
  /\ sending # None
  /\ given' = given + 1
  /\ sending' = None /\ slot' = [slot EXCEPT ![sending] = Blank]
  /\ UNCHANGED <<conf, asked, pending, recvIdx, sendIdx, freeCount, sendCount, exec>>

Server == DAP_queue_execute_buf \/ DAP_ProcessCommand \/ Executed
Next   == Ask \/ Reopen \/ Server \/ DAP_queue_get_send_buf \/ Sent

\* The task that serves the queue runs on, and the transport sends what it was given.
Spec == /\ Init /\ [][Next]_vars
        /\ WF_vars(Server) /\ WF_vars(DAP_queue_get_send_buf) /\ WF_vars(Sent)

-----------------------------------------------------------------------------
\* The queue and the batches implement the service: requests are answered once, in
\* order, each with the answers of its own commands run in turn, and DAP_Data is
\* what they left.  DAP_ExecuteCommand finds every command where the one before
\* says it has ended, and a slot that is handed out keeps its answer until it has
\* been sent, although it counts as free.
Running1 == IF Running THEN <<[id |-> slot[recvIdx].id, cmds |-> cmds]>> ELSE <<>>
Unsent   == [k \in 1..sendCount |-> slot[(sendIdx + k - 1) % PacketCount]]
Service  == INSTANCE DapService WITH
              Names   <- 1..MaxRequests,
              conf    <- before,
              waiting <- Running1 \o pending,
              ready   <- (IF sending = None THEN <<>> ELSE <<slot[sending]>>) \o Unsent
ServiceSpec == Service!Spec

\* SWCLK is never faster than the client asked for, nor slower than it has to be:
\* half a period has WriteCycles and the delay.
ClockNotExceeded ==
  conf.hz > 0 =>
    IF conf.fast THEN (conf.hz + 1) * (WriteCycles + FastCycles) > HalfClock
    ELSE /\ (WriteCycles + conf.delay) * conf.hz >= HalfClock
         /\ (WriteCycles + conf.delay - 1) * conf.hz < HalfClock

\* Every request is answered.
EveryAnswered == \A k \in 1..MaxRequests : (asked >= k) ~> (given >= k)
=============================================================================
