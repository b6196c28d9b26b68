----------------------------- MODULE SwdMemory ------------------------------
(***************************************************************************)
(* The DP/AP access layer of interface/swd_host.c and the memory functions *)
(* on it, run by the owner of the session against a target MEM-AP: the     *)
(* SELECT and CSW values cached in dap_state, swd_write_ap's completion    *)
(* read, and swd_read_memory / swd_write_memory with their byte accesses,  *)
(* blocks and auto-increment pages.                                        *)
(*                                                                         *)
(* One step is one swd_transfer_retry().  It succeeds, it is refused (WAIT *)
(* 100 times, FAULT, no valid ACK) and the target did nothing, or it is    *)
(* garbled: the target did it and the host gets an error, a read with bad  *)
(* parity or, with GarbledWrites, a write whose end the host did not see.  *)
(***************************************************************************)
EXTENDS MemAp

CONSTANTS
  MemSize,        \* bytes of target memory
  Page,           \* TARGET_AUTO_INCREMENT_PAGE_SIZE, 1024 in the code
  Requests,       \* the memory calls the application makes
  GarbledWrites   \* a failed write may have been done (PARLIO TX timeout)

ASSUME PageAssumption == /\ Page \in Nat \ {0} /\ Page % 4 = 0
                         /\ MemSize \in Nat \ {0}
ASSUME GarbledAssumption == GarbledWrites \in BOOLEAN
ASSUME RequestsAssumption ==
  Requests \subseteq [kind : {"read", "write"}, addr : Nat, size : Nat]

VARIABLES
  \* host
  up,        \* swd_init_debug() succeeded and swd_off() was not called since
  select,    \* dap_state.select: AP bank, or Fake
  csw,       \* dap_state.csw: access size in bytes, or Fake
  pc,        \* the transfer to make next
  req,       \* the call being made, or made last
  at, left,  \* address and size of swd_*_memory's loops
  chunk,     \* bytes of the current byte or block access
  moved,     \* words of it that DRW transfers have moved
  buf,       \* the caller's buffer of a read
  result,    \* what the last call returned
  \* target
  tselect, tcsw, tar,
  rdbuff,    \* lanes the last AP read will deliver
  sticky,    \* STICKYERR: AP transfers fault until swd_clear_errors()
  mem,       \* byte a is a where it is what the call found, Data(i) once written
  \* history
  torn       \* the target took a SELECT or CSW value the cache did not

host   == <<up, select, csw, pc, req, at, left, chunk, moved, buf, result>>
target == <<tselect, tcsw, tar, rdbuff, sticky, mem>>
vars   == <<host, target, torn>>
cursor == <<at, left, chunk, moved>>
idle   == <<up, req>>      \* what a call in progress never changes

Fake  == -1       \* 0xffffffff
Bank0 == 0        \* CSW, TAR and DRW
BankF == 15       \* IDR
Banks == {Bank0, BankF}
Sizes == {1, 4}   \* CSW_SIZE8, CSW_SIZE32
Junk  == -1

Addresses == 0..(MemSize - 1)
Want      == IF chunk = 1 THEN 1 ELSE 4     \* the CSW size the access needs
Data(i)   == MemSize + i                    \* byte i of a written buffer
Found     == [a \in Addresses |-> a]
NoCall    == [kind |-> "none", addr |-> 0, size |-> 0]
Lane0     == [l \in Lanes |-> Junk]

ApSteps == {"apSelect", "apRead1", "apRead2"}
Steps   == {"next", "select", "csw", "cswAck", "tar", "drw", "flush"} \union ApSteps

CacheTypes ==
  /\ up \in BOOLEAN /\ sticky \in BOOLEAN /\ torn \in BOOLEAN
  /\ pc \in Steps \union {"idle"}
  /\ select \in Banks \union {Fake} /\ csw \in Sizes \union {Fake}
  /\ tselect \in Banks /\ tcsw \in Sizes \union {2}

CallTypes ==
  /\ req \in [kind : {"none", "ap", "read", "write"}, addr : Nat, size : Nat]
  /\ at \in Nat /\ left \in Nat /\ chunk \in Nat /\ moved \in Nat
  /\ result \in {"none", "OK", "error"}

DataTypes ==
  /\ buf \in [0..(req.size - 1) -> Int]
  /\ tar \in Nat /\ rdbuff \in [Lanes -> Int] /\ mem \in [Addresses -> Int]

TypeOK == CacheTypes /\ CallTypes /\ DataTypes

Init ==
  /\ up = FALSE /\ select = Bank0 /\ csw = 1    \* a session before this one
  /\ pc = "idle" /\ req = NoCall
  /\ at = 0 /\ left = 0 /\ chunk = 0 /\ moved = 0
  /\ buf = [i \in 0..(req.size - 1) |-> Junk] /\ result = "none"
  /\ tselect = Bank0 /\ tcsw = 1 /\ tar = 0 /\ rdbuff = Lane0 /\ sticky = FALSE
  /\ mem = Found /\ torn = FALSE

-----------------------------------------------------------------------------
\* The three ways swd_transfer_retry() ends; `read` says what was asked.
Ok            == ~sticky
Refused       == TRUE
Garbled(read) == ~sticky /\ (read \/ GarbledWrites)

\* What an earlier call did is not looked at again: memory is named anew.
Begin(r) ==
  /\ req' = r /\ result' = "none" /\ mem' = Found
  /\ buf' = [i \in 0..(r.size - 1) |-> Junk]

NoCursor == at' = 0 /\ left' = 0 /\ chunk' = 0 /\ moved' = 0

Fail ==
  /\ pc' = "idle" /\ result' = "error" /\ NoCursor
  /\ UNCHANGED <<idle, select, csw, buf>>

(***************************************************************************)
(* Session: swd_init_debug() forgets the cached values and selects bank 0, *)
(* or fails and ends the session; meanwhile the target may be reset or     *)
(* replaced.  A failure that never came to the DAP is the step Off.        *)
(***************************************************************************)
\* Mutant: swd_init_debug keeps the cached CSW of the session before.
ConnectKeepsCache ==
  /\ pc = "idle"
  /\ up' = TRUE /\ select' = Bank0 /\ tselect' = Bank0 /\ sticky' = FALSE
  /\ torn' = FALSE
  /\ Begin(NoCall)
  /\ UNCHANGED <<csw, pc, cursor, tcsw, tar, rdbuff>>

Connect ==
  /\ pc = "idle"
  /\ csw' = Fake
  /\ \/ up' = TRUE /\ select' = Bank0 /\ tselect' = Bank0 /\ sticky' = FALSE
     \/ up' = FALSE /\ select' \in {Fake, Bank0} /\ UNCHANGED <<tselect, sticky>>
  /\ torn' = FALSE
  /\ Begin(NoCall)
  /\ UNCHANGED <<pc, cursor, tcsw, tar, rdbuff>>

Off ==
  /\ pc = "idle" /\ up
  /\ up' = FALSE
  /\ Begin(NoCall)
  /\ UNCHANGED <<select, csw, pc, cursor, tselect, tcsw, tar, rdbuff, sticky, torn>>

TargetReset ==
  /\ ~up
  /\ tselect' \in Banks /\ tcsw' \in Sizes \union {2} /\ sticky' = FALSE
  /\ UNCHANGED <<host, tar, rdbuff, mem, torn>>

ClearErrors ==
  /\ pc = "idle" /\ up
  /\ sticky' = FALSE
  /\ Begin(NoCall)
  /\ UNCHANGED <<up, select, csw, pc, cursor, tselect, tcsw, tar, rdbuff, torn>>

(***************************************************************************)
(* swd_read_memory / swd_write_memory                                      *)
(***************************************************************************)
Call(r) ==
  /\ pc = "idle" /\ up
  /\ Begin(r)
  /\ at' = r.addr /\ left' = r.size /\ chunk' = 0 /\ moved' = 0
  /\ pc' = "next"
  /\ UNCHANGED <<up, select, csw, tselect, tcsw, tar, rdbuff, sticky, torn>>

\* Bytes up to a word boundary, whole words up to the end of the page, and the
\* bytes that are left.
ChunkSize ==
  LET n == Page - (at % Page)
  IN  IF at % 4 # 0 \/ left < 4 THEN 1
      ELSE IF left < n THEN left - (left % 4) ELSE n

NextChunk ==
  /\ pc = "next"
  /\ IF left = 0
       THEN pc' = "idle" /\ result' = "OK" /\ NoCursor
       ELSE /\ chunk' = ChunkSize /\ moved' = 0
            /\ pc' = "select" /\ UNCHANGED <<at, left, result>>
  /\ UNCHANGED <<idle, select, csw, buf, target, torn>>

\* swd_write_dp(DP_SELECT): nothing is sent when the bank is the cached one.
WriteSelect(bank, to) ==
  \/ /\ select = bank
     /\ pc' = to
     /\ UNCHANGED <<idle, select, csw, cursor, buf, result, target, torn>>
  \/ /\ select # bank /\ Ok
     /\ select' = bank /\ tselect' = bank
     /\ pc' = to
     /\ UNCHANGED <<idle, csw, cursor, buf, result, tcsw, tar, rdbuff, sticky, mem, torn>>
  \/ /\ select # bank /\ Refused
     /\ Fail
     /\ UNCHANGED <<target, torn>>
  \/ /\ select # bank /\ Garbled(FALSE)
     /\ tselect' = bank /\ torn' = TRUE
     /\ Fail
     /\ UNCHANGED <<tcsw, tar, rdbuff, sticky, mem>>

\* Mutant: bank 0 is taken for selected.
SelectSkipped ==
  /\ pc = "select" /\ pc' = "csw"
  /\ UNCHANGED <<idle, select, csw, cursor, buf, result, target, torn>>

SelectBank0 == pc = "select" /\ WriteSelect(Bank0, "csw")

\* swd_write_ap(AP_CSW): an AP write and a read of RDBUFF that waits for it.
\* SELECT names the AP register; with another bank selected CSW is not hit.
WriteCsw ==
  /\ pc = "csw"
  /\ \/ /\ csw = Want
        /\ pc' = "tar"
        /\ UNCHANGED <<idle, select, csw, cursor, buf, result, target, torn>>
     \/ /\ csw # Want /\ Ok
        /\ tcsw' = IF tselect = Bank0 THEN Want ELSE tcsw
        /\ pc' = "cswAck"
        /\ UNCHANGED <<idle, select, csw, cursor, buf, result, tselect, tar, rdbuff,
                       sticky, mem, torn>>
     \/ /\ csw # Want /\ Refused
        /\ Fail
        /\ UNCHANGED <<target, torn>>
     \/ /\ csw # Want /\ Garbled(FALSE)
        /\ tcsw' = IF tselect = Bank0 THEN Want ELSE tcsw
        /\ torn' = TRUE
        /\ Fail
        /\ UNCHANGED <<tselect, tar, rdbuff, sticky, mem>>

CswDone ==
  /\ pc = "cswAck"
  /\ \/ /\ Ok
        /\ csw' = Want
        /\ pc' = "tar"
        /\ UNCHANGED <<idle, select, cursor, buf, result, torn>>
     \/ /\ Refused \/ Garbled(TRUE)
        /\ torn' = TRUE
        /\ Fail
  /\ UNCHANGED target

WriteTar ==
  /\ pc = "tar"
  /\ \/ /\ Ok
        /\ tar' = IF tselect = Bank0 THEN at ELSE tar
        /\ pc' = "drw"
        /\ UNCHANGED <<idle, select, csw, cursor, buf, result>>
     \/ /\ Refused /\ Fail /\ UNCHANGED tar
     \/ /\ Garbled(FALSE) /\ Fail
        /\ tar' = IF tselect = Bank0 THEN at ELSE tar
  /\ UNCHANGED <<tselect, tcsw, rdbuff, sticky, mem, torn>>

-----------------------------------------------------------------------------
Words  == IF chunk = 1 THEN 1 ELSE chunk \div 4
\* Mutant: every word of a block is the first.
OffsetStuck == at - req.addr

Offset == at - req.addr + 4 * moved       \* buffer index of the current word

\* The lanes of the byte or word the host sends: a byte goes to lane addr & 3.
Sent == IF chunk = 1
          THEN [l \in Lanes |-> IF l = at % 4 THEN Data(at - req.addr) ELSE 0]
          ELSE [l \in Lanes |-> Data(Offset + l)]

\* Mutant: the data of a posted read is taken for the word just asked for.
ReceivedEarly(w, upto) ==
  LET first == at - req.addr + 4 * upto
  IN  [i \in DOMAIN buf |-> IF i \in first..(first + 3) THEN w[i - first] ELSE buf[i]]

\* The buffer after the lanes w arrived for the word before `upto`.
Received(w, upto) ==
  [i \in DOMAIN buf |->
     IF chunk = 1
       THEN IF i = at - req.addr THEN w[at % 4] ELSE buf[i]
       ELSE LET first == at - req.addr + 4 * (upto - 1)
            IN  IF i \in first..(first + 3) THEN w[i - first] ELSE buf[i]]

Reaches == tselect = Bank0      \* the request addresses DRW, not another bank

Advance == tar' = IF Reaches THEN NextTar(tar, tcsw, Page) ELSE tar

\* A DRW write is posted: a bus error shows at the next transfer only.
DrwWrite ==
  /\ pc = "drw" /\ req.kind = "write"
  /\ \/ /\ Ok
        /\ \/ /\ mem' = IF Reaches THEN Stored(mem, tar, tcsw, Sent) ELSE mem
              /\ Advance
              /\ UNCHANGED sticky
           \/ sticky' = TRUE /\ UNCHANGED <<mem, tar>>
        /\ moved' = moved + 1
        /\ pc' = IF moved + 1 = Words THEN "flush" ELSE "drw"
        /\ UNCHANGED <<idle, select, csw, at, left, chunk, buf, result>>
     \/ /\ Refused /\ Fail
        /\ UNCHANGED <<mem, tar, sticky>>
     \/ /\ Garbled(FALSE) /\ Fail
        /\ mem' = IF Reaches THEN Stored(mem, tar, tcsw, Sent) ELSE mem
        /\ Advance
        /\ UNCHANGED sticky
  /\ UNCHANGED <<tselect, tcsw, rdbuff, torn>>

\* A DRW read starts an access and delivers the data of the one before.
DrwRead ==
  /\ pc = "drw" /\ req.kind = "read"
  /\ \/ /\ Ok
        /\ \/ /\ rdbuff' = IF Reaches THEN Loaded(mem, tar, tcsw, Junk) ELSE Lane0
              /\ Advance
              /\ UNCHANGED sticky
           \/ sticky' = TRUE /\ UNCHANGED <<rdbuff, tar>>
        /\ buf' = IF moved = 0 THEN buf ELSE Received(rdbuff, moved)
        /\ moved' = moved + 1
        /\ pc' = IF moved + 1 = Words THEN "flush" ELSE "drw"
        /\ UNCHANGED <<idle, select, csw, at, left, chunk, result>>
     \/ /\ Refused /\ Fail
        /\ UNCHANGED <<rdbuff, tar, sticky>>
     \/ /\ Garbled(TRUE) /\ Fail
        /\ rdbuff' = Lane0 /\ Advance
        /\ UNCHANGED sticky
  /\ UNCHANGED <<tselect, tcsw, mem, torn>>

\* Mutants: a write is not waited for, and a loop forgets to advance.
FlushUnchecked ==
  /\ pc = "flush"
  /\ buf' = IF req.kind = "read" THEN Received(rdbuff, moved) ELSE buf
  /\ at' = at + chunk /\ left' = left - chunk
  /\ pc' = "next"
  /\ UNCHANGED <<idle, select, csw, chunk, moved, result, target, torn>>

FlushStuck ==
  /\ pc = "flush" /\ pc' = "next"
  /\ UNCHANGED <<idle, select, csw, cursor, buf, result, target, torn>>

\* The closing read of RDBUFF: the last data of a read, the fate of a write.
Flush ==
  /\ pc = "flush"
  /\ \/ /\ Ok
        /\ buf' = IF req.kind = "read" THEN Received(rdbuff, moved) ELSE buf
        /\ at' = at + chunk /\ left' = left - chunk
        /\ pc' = "next"
        /\ UNCHANGED <<idle, select, csw, chunk, moved, result>>
     \/ /\ Refused \/ Garbled(TRUE)
        /\ Fail
  /\ UNCHANGED <<target, torn>>

(***************************************************************************)
(* swd_read_ap() of a register in another bank (IDR), as a debugger makes  *)
(* between memory calls: it selects the bank and reads twice.              *)
(***************************************************************************)
CallReadAp ==
  /\ pc = "idle" /\ up
  /\ Begin([kind |-> "ap", addr |-> 0, size |-> 0])
  /\ pc' = "apSelect"
  /\ UNCHANGED <<up, select, csw, cursor, tselect, tcsw, tar, rdbuff, sticky, torn>>

ApSelect == pc = "apSelect" /\ WriteSelect(BankF, "apRead1")

ApRead(from) ==
  /\ pc = from
  /\ \/ /\ Ok
        /\ IF from = "apRead1" THEN pc' = "apRead2" /\ UNCHANGED result
                               ELSE pc' = "idle" /\ result' = "OK"
        /\ UNCHANGED <<idle, select, csw, cursor, buf>>
     \/ /\ Refused \/ Garbled(TRUE)
        /\ Fail
  /\ UNCHANGED <<target, torn>>

ApReadFirst  == ApRead("apRead1")
ApReadSecond == ApRead("apRead2")

-----------------------------------------------------------------------------
Run == \/ NextChunk \/ SelectBank0 \/ WriteCsw \/ CswDone \/ WriteTar
       \/ DrwWrite \/ DrwRead \/ Flush \/ ApSelect \/ ApReadFirst \/ ApReadSecond

Next == \/ Run
        \/ Connect \/ Off \/ TargetReset \/ ClearErrors \/ CallReadAp
        \/ \E r \in Requests : Call(r)

Spec == Init /\ [][Next]_vars /\ WF_vars(Run)

-----------------------------------------------------------------------------
\* With no torn SELECT or CSW write since the connection, the values dap_state
\* holds are the target's, except between the CSW write and its completion.
CacheCoherent ==
  up /\ ~torn => /\ select # Fake => select = tselect
                 /\ csw # Fake /\ pc # "cswAck" => csw = tcsw

\* Then a memory access reaches DRW of bank 0 with the size it was meant to
\* have, whatever calls and failures came before.
AccessAsMeant ==
  pc \in {"tar", "drw", "flush"} /\ ~torn => tselect = Bank0 /\ tcsw = Want

\* The arithmetic of the loops: an access stays inside what is left of the call
\* and inside the auto-increment page of its first byte, and a call neither skips
\* nor repeats bytes from one access to the next.
BlockInPage ==
  /\ pc \in Steps \ ApSteps => at >= req.addr /\ at + left = req.addr + req.size
  /\ pc \in Steps \ (ApSteps \union {"next"}) =>
       /\ chunk \in 1..left /\ (at % Page) + chunk <= Page /\ moved <= Words
       /\ chunk # 1 => at % 4 = 0 /\ chunk % 4 = 0

\* Memory with the first n bytes of the buffer at `base`.
Written(base, n) == [a \in Addresses |->
                       IF a - base \in 0..(n - 1) THEN Data(a - base) ELSE a]

\* ESP_OK from swd_write_memory means that every byte is in target memory and
\* no other byte changed, across words, bytes, pages and posted bus errors.
OkWriteIsExact ==
  pc = "idle" /\ result = "OK" /\ req.kind = "write" /\ ~torn =>
    mem = Written(req.addr, req.size)

\* ESP_OK from swd_read_memory means that the buffer is what memory holds, where
\* there is memory.
OkReadIsExact ==
  pc = "idle" /\ result = "OK" /\ req.kind = "read" /\ ~torn =>
    \A i \in 0..(req.size - 1) : req.addr + i \in Addresses => buf[i] = mem[req.addr + i]

\* swd_host.h 84-86, "may partially complete": what a failed write leaves, and
\* what memory holds during the write, is a prefix of the buffer, with no gap and
\* no byte outside it, although bus errors are posted.
PartialWrite ==
  req.kind = "write" /\ ~torn => \E n \in 0..req.size : mem = Written(req.addr, n)

\* Every call comes to an end: the loops of swd_*_memory consume their size.
CallReturns == (pc # "idle") ~> (pc = "idle")

\* "Write 8-bit byte to target memory", swd_host.c 896, and "Write 32-bit
\* word", 860: a write that returns ESP_OK did that, whatever failed before.
OkWriteAlwaysExact ==
  pc = "idle" /\ result = "OK" /\ req.kind = "write" =>
    mem = Written(req.addr, req.size)
=============================================================================
