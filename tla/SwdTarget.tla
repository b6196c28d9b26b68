------------------------------ MODULE SwdTarget ------------------------------
(***************************************************************************)
(* The target of the SWD wire (external), for the engines that shift whole *)
(* bursts, ParlioBus and SpiBus.  It counts rising edges of SWCLK from the *)
(* start bit, drives SWDIO only for its ACK and its read data, and takes   *)
(* write data only at the edges that carry them.  It is configured with    *)
(* the host's turnaround and data phase.                                   *)
(*                                                                         *)
(* The line carries labels: 0 and 1 are levels, Data(k) is bit k of the    *)
(* write data, and what the target drives is named by the edge it is       *)
(* driven before, so that a bit taken at the wrong edge is visible.        *)
(***************************************************************************)
EXTENDS Naturals, Sequences

CONSTANTS
  Turnarounds,   \* DAP_Data.swd_conf.turnaround, 1..4 in the code
  IdleCycles,    \* DAP_Data.transfer.idle_cycles
  DataBits       \* data and parity, 32 + 1 in the code

ASSUME CyclesAssumption == /\ Turnarounds \subseteq Nat \ {0}
                           /\ IdleCycles \subseteq 0..255
                           /\ DataBits \in Nat \ {0}

VARIABLES
  conf,      \* turnaround, data phase and idle cycles of host and target
  rnw,       \* the request asks for a read
  tstate,    \* what the target does, "lost" until the next line reset
  tedge,     \* rising edges since the start bit
  said,      \* its answer to the request of this call, "none" before
  took       \* write data bits it took in this call, each at its own edge

target == <<tstate, tedge, said, took>>

Acks    == {"OK", "WAIT", "FAULT"}
Configs == [trn : Turnarounds, dataPhase : BOOLEAN, idle : IdleCycles]
Undriven == 0
Data(k) == 10 + k
Levels  == {0, 1, 2}             \* 2: a request bit of either level
Labels  == Levels \union {Data(k) : k \in 1..DataBits}

TargetTypes ==
  /\ conf \in Configs /\ rnw \in BOOLEAN
  /\ tstate \in Acks \union {"idle", "request", "lost"} /\ tedge \in Nat
  /\ said \in Acks \union {"none"} /\ took \in Nat

AckAt   == 8 + conf.trn           \* the edge after which it drives the ACK
DataAt  == AckAt + 3
HasData == tstate = "OK" \/ conf.dataPhase
Transfer == DataAt + conf.trn + (IF HasData THEN DataBits ELSE 0)

TargetDrives ==
  /\ tstate \in Acks
  /\ tedge >= AckAt
  /\ tedge < DataAt + (IF rnw /\ HasData THEN DataBits ELSE 0)

\* What is on the line for a host that listens.
Line == IF TargetDrives THEN tedge ELSE Undriven

Counts(s, e) == tstate' = s /\ tedge' = e /\ UNCHANGED <<said, took>>

\* A rising edge while the host drives `label`, or does not drive.
TargetEdge(driven, label) ==
  \/ tstate = "lost" /\ UNCHANGED target
  \/ /\ tstate = "idle"
     /\ IF ~driven THEN Counts("lost", 0)
        ELSE IF label = 0 THEN UNCHANGED target ELSE Counts("request", 1)
  \/ /\ tstate = "request" /\ tedge < 7 /\ Counts("request", tedge + 1)
  \/ /\ tstate = "request" /\ tedge = 7
     /\ \/ \E s \in Acks : tstate' = s /\ said' = s /\ tedge' = 8
        \/ tstate' = "lost" /\ tedge' = 0 /\ UNCHANGED said
     /\ UNCHANGED took
  \/ /\ tstate \in Acks
     /\ IF tedge + 1 = Transfer THEN tstate' = "idle" /\ tedge' = 0
                                ELSE tstate' = tstate /\ tedge' = tedge + 1
     /\ took' = IF /\ tstate = "OK" /\ ~rnw /\ tedge >= DataAt + conf.trn
                   /\ driven /\ label = Data(tedge - (DataAt + conf.trn) + 1)
                  THEN took + 1 ELSE took
     /\ UNCHANGED said

\* One edge of a sequence that is no transfer: the target follows only what ends
\* in a line reset.
SequenceEdge(resets) ==
  /\ tstate' \in IF resets THEN {"idle"} ELSE {"lost"}
  /\ tedge' = 0
  /\ UNCHANGED <<said, took>>

\* What the host makes of three bits: the answer, unless one came out wrong; bits
\* that are not those of the ACK may say anything.
AckOf(bits) ==
  IF said # "none" /\ bits = [k \in 1..3 |-> AckAt + k - 1]
    THEN {said, "bad"} ELSE Acks \union {"bad"}
=============================================================================
