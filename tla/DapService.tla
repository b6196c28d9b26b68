----------------------------- MODULE DapService ------------------------------
(***************************************************************************)
(* What a CMSIS-DAP client may rely on: its requests are answered once     *)
(* each and in order, and every answer is the one the commands give when   *)
(* they are run one after another, whatever is still being sent.           *)
(***************************************************************************)
EXTENDS DapCommands

CONSTANTS Names,       \* the client's requests
          Batches,     \* lists of commands
          Clocks       \* DAP_DEFAULT_SWJ_CLOCK, 0 for -1

VARIABLES
  conf,      \* DAP_Data
  waiting,   \* requests not served
  ready      \* answers not delivered, the one being sent first

\* DAP_Data after each of the commands of a batch, and what the batch does.
Along(c, cmds) ==
  LET after[k \in 0..Len(cmds)] == IF k = 0 THEN c ELSE Effect(after[k - 1], cmds[k])
  IN  after
Run(c, cmds) ==
  [conf    |-> Along(c, cmds)[Len(cmds)],
   answers |-> [k \in 1..Len(cmds) |-> Answer(Along(c, cmds)[k - 1], cmds[k])]]

Init == /\ \E hz \in Clocks : conf = SetupConf(hz)
        /\ waiting = <<>> /\ ready = <<>>

Ask == \E id \in Names, cmds \in Batches :
         /\ waiting' = Append(waiting, [id |-> id, cmds |-> cmds])
         /\ UNCHANGED <<conf, ready>>

Serve ==
  /\ waiting # <<>>
  /\ LET done == Run(conf, Head(waiting).cmds)
     IN  /\ conf' = done.conf
         /\ ready' = Append(ready, [id |-> Head(waiting).id, answers |-> done.answers])
  /\ waiting' = Tail(waiting)

Deliver ==
  /\ ready # <<>>
  /\ ready' = Tail(ready)
  /\ UNCHANGED <<conf, waiting>>

Next == Ask \/ Serve \/ Deliver

Spec == Init /\ [][Next]_<<conf, waiting, ready>>
=============================================================================
