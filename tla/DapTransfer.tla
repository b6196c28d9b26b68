----------------------------- MODULE DapTransfer -----------------------------
(***************************************************************************)
(* The register accesses of a CMSIS-DAP debugger, cmsis_dap/DAP.c:         *)
(* DAP_Transfer with its pipeline of posted AP reads, DAP_TransferBlock,   *)
(* DAP_WriteAbort, DAP_TransferConfigure, and the part of DAP_Connect and  *)
(* DAP_Disconnect that selects the port.  One step is one SWD_Transfer, or *)
(* the reading of one request.                                             *)
(*                                                                         *)
(* Data are names: an access the target makes for request j delivers j.    *)
(* The target is external: an AP access is posted, a bus error sets a      *)
(* sticky flag, and with it the target refuses all but CTRL/STAT reads     *)
(* ("dpRead") and ABORT writes.                                            *)
(***************************************************************************)
EXTENDS Naturals, Sequences, FiniteSets

CONSTANTS
  Packets,       \* request lists of DAP_Transfer
  Blocks,        \* request lists of DAP_TransferBlock, of one kind each
  Retries,       \* retry_count
  MatchRetries   \* match_retry

Ap       == {"apRead", "apMatch", "apWrite"}
Plain    == {"apRead", "dpRead"}            \* their value goes to the response
Matches  == {"apMatch", "dpMatch"}          \* DAP_TRANSFER_MATCH_VALUE
Writes   == {"apWrite", "dpWrite"}          \* "dpWrite" is SELECT
Kinds    == Plain \union Matches \union Writes \union {"mask"}
WithData == Matches \union Writes \union {"mask"}

ASSUME PacketsAssumption == Packets \subseteq Seq(Kinds)
ASSUME BlocksAssumption  ==
  \A b \in Blocks : b \in Seq(Plain \union Writes) /\ \A j, k \in DOMAIN b : b[j] = b[k]
ASSUME RetriesAssumption == Retries \subseteq Nat /\ MatchRetries \subseteq Nat

VARIABLES
  \* DAP_Data and the flag of the transport
  port,          \* debug_port is DAP_PORT_SWD
  retryCount, matchRetry,
  abort,         \* DAP_TransferAbort
  \* the command being processed, or processed last
  cmd, reqs,
  pc,            \* the transfer to make next
  i,             \* the request it is made for
  retry, mretry,
  post,          \* post_read
  check,         \* check_write
  \* its response
  count, value,  \* response_count and response_value, "none" for 0
  data,          \* the values stored
  used,          \* bytes of the request consumed, after its count
  \* target
  rdbuff,        \* whose data the next AP read delivers, 0 for nobody's
  sticky,
  log            \* history: the requests it made an access for, in order

conf    == <<port, retryCount, matchRetry>>
command == <<cmd, reqs>>
loop    == <<pc, i, retry, mretry, post, check>>
resp    == <<count, value, data, used>>
target  == <<rdbuff, sticky, log>>
vars    == <<conf, abort, command, loop, resp, target>>

Bad     == {"WAIT", "FAULT", "ERROR", "MISMATCH"}
Serving == {"fetch", "pipe", "post", "read", "matchPost", "match", "write"}
Closing == {"lastFetch", "checkWrite"}
Block   == {"blockPost", "blockRead", "blockWrite", "blockCheck"}
Steps   == {"request", "cancel", "answer"} \union Serving \union Closing \union Block

TypeOK ==
  /\ port \in BOOLEAN /\ retryCount \in Nat /\ matchRetry \in Nat /\ abort \in BOOLEAN
  /\ cmd \in {"none", "transfer", "block"} /\ reqs \in Seq(Kinds)
  /\ pc \in Steps \union {"idle"} /\ i \in 1..(Len(reqs) + 1)
  /\ retry \in Nat /\ mretry \in Nat /\ post \in BOOLEAN /\ check \in BOOLEAN
  /\ count \in 0..Len(reqs) /\ value \in Bad \union {"none", "OK"}
  /\ data \in Seq(1..Len(reqs)) /\ used \in Nat
  /\ rdbuff \in 0..Len(reqs) /\ sticky \in BOOLEAN /\ log \in Seq(1..Len(reqs))

Init ==
  /\ port = FALSE /\ retryCount \in Retries /\ matchRetry = 0 /\ abort = FALSE
  /\ cmd = "none" /\ reqs = <<>>
  /\ pc = "idle" /\ i = 1 /\ retry = 0 /\ mretry = 0 /\ post = FALSE /\ check = FALSE
  /\ count = 0 /\ value = "none" /\ data = <<>> /\ used = 0
  /\ rdbuff = 0 /\ sticky = FALSE /\ log = <<>>

-----------------------------------------------------------------------------
n    == Len(reqs)
Kind == reqs[i]

\* Bytes of the requests in S: one each, and a word for a write or a match.
Size(S) == Cardinality(S) + 4 * Cardinality({j \in S : reqs[j] \in WithData})

\* What a transfer does to the target: an AP access for request j, which leaves
\* `label` for the next read, or a bus error; a DP access; a look at RDBUFF.
AccessAp(j, label) ==
  \/ log' = Append(log, j) /\ rdbuff' = label /\ UNCHANGED sticky
  \/ sticky' = TRUE /\ rdbuff' = 0 /\ UNCHANGED log
AccessDp(j) == log' = Append(log, j) /\ UNCHANGED <<rdbuff, sticky>>
Access(j, label) == IF reqs[j] \in Ap THEN AccessAp(j, label) ELSE AccessDp(j)
NoAccess == UNCHANGED target

\* Mutant: an error does not leave the request loop.
BreakIgnored(v) ==
  /\ value' = v
  /\ IF pc \in Serving THEN pc' = "request" /\ i' = i + 1 ELSE pc' = "answer" /\ i' = i
  /\ UNCHANGED <<retry, mretry, post, check, count, data, used>>

\* The command ends the request loop, or is done, with an error.
Break(v) ==
  /\ value' = v
  /\ pc' = IF pc \in Serving THEN "cancel" ELSE "answer"
  /\ UNCHANGED <<i, retry, mretry, post, check, count, data, used>>

\* Mutant: an error is retried like a WAIT.
TransferRetried(from, refuses, access, next) ==
  /\ pc = from
  /\ \/ ~refuses /\ access /\ next
     \/ ~refuses /\ retry > 0 /\ retry' = retry - 1 /\ access
        /\ UNCHANGED <<pc, i, mretry, post, check, resp>>
     \/ Break("ERROR") /\ UNCHANGED target
  /\ UNCHANGED <<conf, abort, command>>

\* Mutant: retry is not counted down.
WaitForever(from, refuses, access, next) ==
  /\ pc = from
  /\ \/ ~refuses /\ access /\ next
     \/ retry > 0 /\ ~abort
        /\ UNCHANGED <<pc, i, retry, mretry, post, check, resp, target>>
     \/ (retry = 0 \/ abort) /\ Break("WAIT") /\ UNCHANGED target
  /\ UNCHANGED <<conf, abort, command>>

\* One round of: do SWD_Transfer(...) while (WAIT && retry-- && !DAP_TransferAbort).
\* The target answers OK, unless it refuses; it is not ready; it faults or does
\* not answer; or it made the access and the host got an error.
SWD_Transfer(from, refuses, access, next) ==
  /\ pc = from
  /\ \/ ~refuses /\ access /\ next
     \/ retry > 0 /\ ~abort /\ retry' = retry - 1
        /\ UNCHANGED <<pc, i, mretry, post, check, resp, target>>
     \/ (retry = 0 \/ abort) /\ Break("WAIT") /\ UNCHANGED target
     \/ \E v \in {"FAULT", "ERROR"} : Break(v) /\ UNCHANGED target
     \/ ~refuses /\ access /\ Break("ERROR")
  /\ UNCHANGED <<conf, abort, command>>

(***************************************************************************)
(* DAP_SWD_Transfer: the loop over the requests                            *)
(***************************************************************************)
\* response_count++, and the loop goes on unless it is to be aborted.
Counted ==
  /\ count' = count + 1 /\ value' = "OK"
  /\ IF abort THEN pc' = "cancel" /\ UNCHANGED i ELSE pc' = "request" /\ i' = i + 1

OwnStep == [apRead |-> "post", dpRead |-> "read", apMatch |-> "matchPost",
            dpMatch |-> "match", apWrite |-> "write", dpWrite |-> "write"]

\* No read is pending: the request's data is loaded and its own transfer is next.
Serve(len) ==
  /\ used' = used + len + (IF Kind \in WithData THEN 4 ELSE 0)
  /\ retry' = retryCount /\ mretry' = matchRetry
  /\ IF Kind = "mask" THEN Counted
                      ELSE pc' = OwnStep[Kind] /\ UNCHANGED <<i, count, value>>

Request ==
  /\ pc = "request"
  /\ \/ /\ i > n
        /\ pc' = "cancel"
        /\ UNCHANGED <<i, retry, mretry, post, check, resp>>
     \/ /\ i <= n /\ post
        /\ used' = used + 1 /\ retry' = retryCount
        /\ pc' = IF Kind = "apRead" THEN "pipe" ELSE "fetch"
        /\ UNCHANGED <<i, mretry, post, check, count, value, data>>
     \/ /\ i <= n /\ ~post
        /\ Serve(1)
        /\ UNCHANGED <<post, check, data>>
  /\ UNCHANGED <<conf, abort, command, target>>

\* Mutant: post_read stays set.
FetchKeepsPost == SWD_Transfer("fetch", sticky, NoAccess,
                    /\ data' = Append(data, rdbuff)
                    /\ Serve(0)
                    /\ UNCHANGED <<post, check>>)

\* The posted read is fetched from RDBUFF before any other kind of request.
Fetch == SWD_Transfer("fetch", sticky, NoAccess,
           /\ data' = Append(data, rdbuff) /\ post' = FALSE
           /\ Serve(0)
           /\ UNCHANGED check)

\* An AP read delivers the one before and is posted itself.
Pipe == SWD_Transfer("pipe", sticky, AccessAp(i, i),
           /\ data' = Append(data, rdbuff) /\ check' = FALSE
           /\ Counted
           /\ UNCHANGED <<retry, mretry, post, used>>)

Post == SWD_Transfer("post", sticky, AccessAp(i, i),
           /\ post' = TRUE /\ check' = FALSE
           /\ Counted
           /\ UNCHANGED <<retry, mretry, data, used>>)

Read == SWD_Transfer("read", FALSE, AccessDp(i),
           /\ data' = Append(data, i) /\ check' = FALSE
           /\ Counted
           /\ UNCHANGED <<retry, mretry, post, used>>)

MatchPost == SWD_Transfer("matchPost", sticky, AccessAp(i, 0),
               /\ pc' = "match" /\ retry' = retryCount
               /\ UNCHANGED <<i, mretry, post, check, resp>>)

\* The register has the value, or is read again, or was read often enough.  (The
\* MISMATCH bit beside an error is left open: the code compares what it may not
\* have read.)
Match == SWD_Transfer("match", Kind = "apMatch" /\ sticky, Access(i, 0),
           \/ /\ check' = FALSE
              /\ Counted
              /\ UNCHANGED <<retry, mretry, post, data, used>>
           \/ /\ mretry > 0 /\ ~abort
              /\ mretry' = mretry - 1 /\ retry' = retryCount
              /\ UNCHANGED <<pc, i, post, check, resp>>
           \/ (mretry = 0 \/ abort) /\ Break("MISMATCH"))

Write == SWD_Transfer("write", sticky, Access(i, rdbuff),
           /\ check' = TRUE
           /\ Counted
           /\ UNCHANGED <<retry, mretry, post, data, used>>)

\* "Process canceled requests": request_count was not decremented for the request
\* that broke the loop, so one request more than there are is skipped, and when
\* its data was not loaded the parser takes that for requests.
Skipped ==
  LET m == n - i + 1
  IN  IF i > n THEN {0}
      ELSE IF used = Size(1..i) THEN {Size((i + 1)..n) + k : k \in {1, 5}}
      ELSE {m + 4 * k : k \in 0..m}

\* Mutant: the last write is not checked.
CancelUnchecked ==
  /\ pc = "cancel"
  /\ \E s \in Skipped : used' = used + s
  /\ pc' = IF value = "OK" /\ post THEN "lastFetch" ELSE "answer"
  /\ retry' = retryCount
  /\ UNCHANGED <<conf, abort, command, i, mretry, post, check, count, value, data, target>>

Cancel ==
  /\ pc = "cancel"
  /\ \E s \in Skipped : used' = used + s
  /\ pc' = IF value # "OK" THEN "answer"
           ELSE IF post THEN "lastFetch" ELSE IF check THEN "checkWrite" ELSE "answer"
  /\ retry' = retryCount
  /\ UNCHANGED <<conf, abort, command, i, mretry, post, check, count, value, data, target>>

LastFetch == SWD_Transfer("lastFetch", sticky, NoAccess,
               /\ pc' = "answer" /\ data' = Append(data, rdbuff)
               /\ UNCHANGED <<i, retry, mretry, post, check, count, value, used>>)

CheckWrite == SWD_Transfer("checkWrite", sticky, NoAccess,
                pc' = "answer" /\ UNCHANGED <<i, retry, mretry, post, check, resp>>)

(***************************************************************************)
(* DAP_SWD_TransferBlock                                                   *)
(***************************************************************************)
BlockPost == SWD_Transfer("blockPost", sticky, AccessAp(1, 1),
               /\ pc' = "blockRead" /\ retry' = retryCount
               /\ UNCHANGED <<i, mretry, post, check, resp>>)

BlockCounted(last) ==
  /\ count' = count + 1 /\ i' = i + 1 /\ retry' = retryCount
  /\ pc' = IF i = n THEN last ELSE pc
  /\ value' = "OK"

\* The last AP read comes from RDBUFF, the others post the next one.
BlockRead ==
  SWD_Transfer("blockRead", Kind \in Ap /\ sticky,
    IF Kind \notin Ap THEN AccessDp(i)
    ELSE IF i = n THEN NoAccess ELSE AccessAp(i + 1, i + 1),
    /\ data' = Append(data, IF Kind \in Ap THEN rdbuff ELSE i)
    /\ BlockCounted("answer")
    /\ UNCHANGED <<mretry, post, check, used>>)

BlockWrite == SWD_Transfer("blockWrite", sticky, Access(i, rdbuff),
                /\ BlockCounted("blockCheck")
                /\ UNCHANGED <<mretry, post, check, data, used>>)

BlockCheck == SWD_Transfer("blockCheck", sticky, NoAccess,
                pc' = "answer" /\ UNCHANGED <<i, retry, mretry, post, check, resp>>)

(***************************************************************************)
(* Commands                                                                *)
(***************************************************************************)
\* Without a port the answer is DAP_Dummy_Transfer's, which changes nothing.
Begin(c, r, first) ==
  /\ pc = "idle" /\ port
  /\ cmd' = c /\ reqs' = r /\ pc' = first
  /\ abort' = FALSE /\ retry' = retryCount
  /\ UNCHANGED <<conf, i, mretry, post, check, resp, target>>

DAP_Transfer(r) == Begin("transfer", r, "request")

DAP_TransferBlock(r) ==
  Begin("block", r, IF r = <<>> THEN "answer"
                    ELSE IF r[1] \in Writes THEN "blockWrite"
                    ELSE IF r[1] \in Ap THEN "blockPost" ELSE "blockRead")

\* The response goes to the transport; the locals are gone.
Respond ==
  /\ pc = "answer"
  /\ cmd' = "none" /\ reqs' = <<>>
  /\ pc' = "idle" /\ i' = 1 /\ retry' = 0 /\ mretry' = 0
  /\ post' = FALSE /\ check' = FALSE
  /\ count' = 0 /\ value' = "none" /\ data' = <<>> /\ used' = 0
  /\ rdbuff' = 0 /\ log' = <<>>
  /\ UNCHANGED <<conf, abort, sticky>>

DAP_WriteAbort ==
  /\ pc = "idle" /\ port
  /\ sticky' \in {sticky, FALSE}
  /\ UNCHANGED <<conf, abort, command, loop, resp, rdbuff, log>>

DAP_TransferConfigure ==
  /\ pc = "idle"
  /\ retryCount' \in Retries /\ matchRetry' \in MatchRetries
  /\ UNCHANGED <<port, abort, command, loop, resp, target>>

DAP_Connect ==
  /\ pc = "idle" /\ port' = TRUE
  /\ UNCHANGED <<retryCount, matchRetry, abort, command, loop, resp, target>>

DAP_Disconnect ==
  /\ pc = "idle" /\ port' = FALSE
  /\ UNCHANGED <<retryCount, matchRetry, abort, command, loop, resp, target>>

\* The transport receives ID_DAP_TransferAbort while another task is in a command.
SetAbort ==
  /\ abort' = TRUE
  /\ UNCHANGED <<conf, command, loop, resp, target>>

-----------------------------------------------------------------------------
Run == \/ Request \/ Fetch \/ Pipe \/ Post \/ Read \/ MatchPost \/ Match \/ Write
       \/ Cancel \/ LastFetch \/ CheckWrite
       \/ BlockPost \/ BlockRead \/ BlockWrite \/ BlockCheck \/ Respond

Next == \/ Run \/ SetAbort
        \/ \E r \in Packets : DAP_Transfer(r)
        \/ \E r \in Blocks : DAP_TransferBlock(r)
        \/ DAP_WriteAbort \/ DAP_TransferConfigure \/ DAP_Connect \/ DAP_Disconnect

\* The task that processes a command goes on with it.
Spec == Init /\ [][Next]_vars /\ WF_vars(Run)

-----------------------------------------------------------------------------
Answered == pc = "answer"

Reads(m) == {j \in 1..m : reqs[j] \in Plain}

Stored == {data[k] : k \in DOMAIN data}

\* The response has the data of the reads it counts, in their order and each its
\* own, however they were pipelined; after an error the last may be missing.
ReadsInOrder ==
  Answered =>
    /\ \A j, k \in DOMAIN data : j < k => data[j] < data[k]
    /\ IF value = "OK" THEN Stored = Reads(count)
       ELSE \E m \in {count, count - 1} : m >= 0 /\ Stored = Reads(m)

\* No retry and no pipelining makes an access twice or out of order: the target
\* sees each request at most once, matches excepted, in the order of the list.
OnceInOrder ==
  \A j, k \in DOMAIN log : j < k =>
    log[j] < log[k] \/ (log[j] = log[k] /\ reqs[log[j]] \in Matches)

\* Nothing is done for requests beyond the one that failed; the pipeline of a
\* block of AP reads is one ahead.
NothingBeyond ==
  Answered => \A k \in DOMAIN log :
    log[k] <= count + (IF value = "OK" THEN 0 ELSE IF cmd = "block" THEN 2 ELSE 1)

\* OK means that every request counted was done, posted writes included, and that
\* all are counted unless the transfer was aborted.  The one exception: an AP
\* write before nothing but DP reads, which do not show its bus error.
Done(j) == reqs[j] = "mask" \/ \E k \in DOMAIN log : log[k] = j
Unseen(j) ==
  /\ reqs[j] = "apWrite"
  /\ \E k \in (j + 1)..count : reqs[k] \in {"dpRead", "dpMatch"}
  /\ \A k \in (j + 1)..count : reqs[k] \in {"dpRead", "dpMatch", "mask"}
OkAllDone ==
  Answered /\ value = "OK" =>
    /\ \A j \in 1..count : Done(j) \/ Unseen(j)
    /\ count = n \/ (abort /\ cmd = "transfer")

\* However long the target waits and a value does not match, a command ends.
CommandReturns == (pc # "idle") ~> (pc = "idle")

\* DAP.c 657-661: the upper half of what DAP_SWD_Transfer returns is the number of
\* bytes in the request, where DAP_ExecuteCommand finds the next command.
RequestConsumed == Answered /\ cmd = "transfer" => used = Size(1..n)
=============================================================================
